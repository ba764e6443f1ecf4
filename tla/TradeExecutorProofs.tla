------------------------- MODULE TradeExecutorProofs -------------------------
(***************************************************************************)
(* For every set of calls, requests, limits and provider answers, every     *)
(* configuration of the executor and any number of overlapping calls: what  *)
(* reaches the exchange was approved, the gates hold, and the audit log     *)
(* agrees with the exchange; the executor treats its client as              *)
(* OrderSubmission allows; an order that got out has its event; and how far *)
(* overlapping calls can overrun the daily limits, of orders and of money,  *)
(* and outrun the kill switch.                                              *)
(***************************************************************************)
EXTENDS TradeExecutor, Folds, FiniteSetTheorems, WellFoundedInduction, TLAPS

(* The call of a was let through by every check.                            *)
Approved(a) ==
    /\ a \in LiveAttempts /\ ~ProductionBlocked
    /\ RequireConfirmation => HasConfirm
    /\ call[a].failures = {}
    /\ CommonFailures(call[a].req) = {}

(* A running call is live and has recorded what its earlier checks found.   *)
ChecksRecorded(a) ==
    /\ call[a].pc \in Stages \cup {"sent"} => a \in LiveAttempts
    /\ call[a].pc \in Stages => CommonFailures(call[a].req) \subseteq call[a].failures
    /\ call[a].pc \in Stages \ {"sync"} =>
          (ProductionBlocked => "production_trading_disabled" \in call[a].failures)
    /\ call[a].pc = "sent" => Approved(a)

(* What is on the wire or on the books comes from an approved call that got *)
(* as far as the client, and is what the call asked for.                    *)
SentOnly(a) ==
    /\ (wire[a] \/ orders[a] # NoOrder) =>
          /\ call[a].pc \in {"sent", "done"}
          /\ call[a].outcome \notin {"simulated", "refused", "escaped"}
          /\ Approved(a)
    /\ (orders[a] # NoOrder /\ ~orders[a].amended) =>
          /\ orders[a].side = call[a].req.side
          /\ orders[a].count = call[a].req.count
          /\ orders[a].price = call[a].req.price
    /\ mods[a] # NoMod => orders[a] # NoOrder

(* A call that is not over has no event and no outcome.                     *)
LogInv ==
    /\ \A e \in auditLog :
          /\ call[e.attempt].pc = "done"
          /\ e.mode = "live" =>
                /\ ~e.passed => call[e.attempt].outcome = "refused"
                /\ e.order => orders[e.attempt] # NoOrder
    /\ \A a \in Attempts : call[a].pc # "done" => call[a].outcome = "none"

(* The inductive invariant.                                                 *)
IInv ==
    /\ TypeOK
    /\ \A a \in Attempts : ChecksRecorded(a) /\ SentOnly(a)
    /\ LogInv

-----------------------------------------------------------------------------
LEMMA CommonFailuresAreCodes == \A r \in Requests : CommonFailures(r) \subseteq FailureCodes
  BY DEF CommonFailures, FailureCodes

LEMMA SyncFailuresFacts ==
    /\ SyncFailures \subseteq FailureCodes
    /\ ProductionBlocked => "production_trading_disabled" \in SyncFailures
  BY DEF SyncFailures, FailureCodes

LEMMA IdleIsACall == Idle \in Calls /\ Idle.pc = "idle" /\ Idle.outcome = "none"
<1>1. (CHOOSE r \in Requests : TRUE) \in Requests
  BY ExecutorAssumption
<1>2. QED
  BY <1>1 DEF Idle, Calls, Outcomes

(* What changing one entry of a function does.                              *)
LEMMA UpdateFacts ==
    ASSUME NEW S, NEW f \in [Attempts -> S], NEW a \in Attempts, NEW v \in S
    PROVE  /\ [f EXCEPT ![a] = v] \in [Attempts -> S]
           /\ [f EXCEPT ![a] = v][a] = v
           /\ \A b \in Attempts \ {a} : [f EXCEPT ![a] = v][b] = f[b]
  OBVIOUS

LEMMA InitIInv == Init => IInv
<1> SUFFICES ASSUME Init PROVE IInv
  OBVIOUS
<1>1. TypeOK
  BY IdleIsACall DEF Init, TypeOK
<1>2. \A a \in Attempts : ChecksRecorded(a) /\ SentOnly(a)
  BY IdleIsACall DEF Init, ChecksRecorded, SentOnly, Stages
<1>3. LogInv
  BY IdleIsACall DEF Init, LogInv
<1>4. QED
  BY <1>1, <1>2, <1>3 DEF IInv

(* A step inside the checks: only the call's stage and failures change.     *)
LEMMA AdvanceIInv ==
    ASSUME IInv, NEW a \in Attempts, NEW s \in Stages \ {"sync"}, NEW t \in Stages \ {"sync"},
           NEW fails \in SUBSET FailureCodes, Advance(a, s, t, fails)
    PROVE  IInv'
<1> DEFINE moved == [call[a] EXCEPT !.pc = t, !.failures = call[a].failures \cup fails]
<1>1. TypeOK /\ call[a] \in Calls /\ call[a].pc = s
  BY DEF IInv, TypeOK, Advance
<1>2. /\ moved \in Calls
      /\ moved.pc = t
      /\ moved.req = call[a].req
      /\ moved.failures = call[a].failures \cup fails
      /\ moved.outcome = call[a].outcome
  BY <1>1 DEF Calls
<1>3. call' = [call EXCEPT ![a] = moved]
  BY Zenon DEF Advance
<1> HIDE DEF moved
<1>4. /\ call' \in [Attempts -> Calls]
      /\ call'[a] = moved
      /\ \A b \in Attempts \ {a} : call'[b] = call[b]
  BY <1>1, <1>2, <1>3, UpdateFacts DEF TypeOK
<1>5. ~wire[a] /\ orders[a] = NoOrder
  BY <1>1 DEF IInv, SentOnly, TypeOK, Stages
<1>6. TypeOK'
  BY <1>1, <1>4 DEF TypeOK, Advance, Environment
<1>7. \A b \in Attempts : ChecksRecorded(b)' /\ SentOnly(b)'
  <2>1. ASSUME NEW b \in Attempts \ {a}
        PROVE  ChecksRecorded(b)' /\ SentOnly(b)'
    BY <1>4 DEF IInv, ChecksRecorded, SentOnly, Approved, Advance, Environment
  <2>2. ChecksRecorded(a)' /\ SentOnly(a)'
    BY <1>1, <1>2, <1>4, <1>5
    DEF IInv, ChecksRecorded, SentOnly, Approved, Stages, Advance, Environment
  <2>3. QED
    BY <2>1, <2>2
<1>8. LogInv'
  BY <1>1, <1>2, <1>4 DEF IInv, LogInv, TypeOK, Events, Stages, Advance
<1>9. QED
  BY <1>6, <1>7, <1>8 DEF IInv

(* The synchronous checks; the production gate is recorded here.            *)
LEMMA SyncChecksIInv ==
    ASSUME IInv, NEW a \in Attempts, SyncChecks(a)
    PROVE  IInv'
<1> DEFINE fails == call[a].failures \cup SyncFailures
           moved == [call[a] EXCEPT !.pc = "loss", !.checkDay = day, !.failures = fails]
<1>1. TypeOK /\ call[a] \in Calls /\ call[a].pc = "sync"
  BY DEF IInv, TypeOK, SyncChecks
<1>0. fails \subseteq FailureCodes /\ day \in Nat
  BY <1>1, SyncFailuresFacts DEF TypeOK, Calls
<1>2. /\ moved \in Calls
      /\ moved.pc = "loss"
      /\ moved.req = call[a].req
      /\ moved.failures = call[a].failures \cup SyncFailures
      /\ moved.outcome = call[a].outcome
  <2> HIDE DEF fails
  <2>1. moved \in Calls /\ moved.failures = fails
    BY <1>0, <1>1 DEF Calls, Stages
  <2>2. moved.pc = "loss" /\ moved.req = call[a].req /\ moved.outcome = call[a].outcome
    BY <1>1 DEF Calls
  <2>3. QED
    BY <2>1, <2>2 DEF fails
<1>3. call' = [call EXCEPT ![a] = moved]
  BY Zenon DEF SyncChecks
<1> HIDE DEF fails, moved
<1>4. /\ call' \in [Attempts -> Calls]
      /\ call'[a] = moved
      /\ \A b \in Attempts \ {a} : call'[b] = call[b]
  BY <1>1, <1>2, <1>3, UpdateFacts DEF TypeOK
<1>5. ~wire[a] /\ orders[a] = NoOrder
  BY <1>1 DEF IInv, SentOnly, TypeOK, Stages
<1>6. TypeOK'
  BY <1>1, <1>4 DEF TypeOK, SyncChecks, Environment
<1>7. \A b \in Attempts : ChecksRecorded(b)' /\ SentOnly(b)'
  <2>1. ASSUME NEW b \in Attempts \ {a}
        PROVE  ChecksRecorded(b)' /\ SentOnly(b)'
    BY <1>4 DEF IInv, ChecksRecorded, SentOnly, Approved, SyncChecks, Environment
  <2>2. ChecksRecorded(a)' /\ SentOnly(a)'
    BY <1>1, <1>2, <1>4, <1>5, SyncFailuresFacts
    DEF IInv, ChecksRecorded, SentOnly, Approved, Stages, SyncChecks, Environment
  <2>3. QED
    BY <2>1, <2>2
<1>8. LogInv'
  BY <1>1, <1>2, <1>4 DEF IInv, LogInv, TypeOK, Events, Stages, SyncChecks
<1>9. QED
  BY <1>6, <1>7, <1>8 DEF IInv

(* The checks behind the providers are steps of AdvanceIInv.                *)
LEMMA ProviderCheckAdvances ==
    ASSUME NEW a \in Attempts,
           CheckLoss(a) \/ CheckSpend(a) \/ CheckPosition(a) \/ CheckBook(a) \/ CheckGrade(a)
    PROVE  \E s \in Stages \ {"sync"}, t \in Stages \ {"sync"}, fails \in SUBSET FailureCodes :
              Advance(a, s, t, fails)
<1>1. CASE CheckLoss(a)
  BY <1>1 DEF CheckLoss, Stages, FailureCodes
<1>2. CASE CheckSpend(a)
  <2>1. PICK fails \in {{}, {"max_notional_exceeded"}} : Advance(a, "spend", "position", fails)
    BY <1>2 DEF CheckSpend
  <2>2. QED
    BY <2>1 DEF Stages, FailureCodes
<1>3. CASE CheckPosition(a)
  <2>1. PICK fails \in {{}, {"max_position_contracts_exceeded"}} :
           Advance(a, "position", "book", fails)
    BY <1>3 DEF CheckPosition
  <2>2. QED
    BY <2>1 DEF Stages, FailureCodes
<1>4. CASE CheckBook(a)
  <2>1. \A r, b : BookFailures(r, b) \subseteq FailureCodes
    BY DEF BookFailures, FailureCodes
  <2>2. QED
    BY <1>4, <2>1 DEF CheckBook, Stages, FailureCodes
<1>5. CASE CheckGrade(a)
  <2>1. PICK fails \in {{}, {"liquidity_grade_too_low"}, {"liquidity_check_failed"}} :
           Advance(a, "grade", "confirm", fails)
    BY <1>5 DEF CheckGrade
  <2>2. QED
    BY <2>1 DEF Stages, FailureCodes
<1>6. QED
  BY <1>1, <1>2, <1>3, <1>4, <1>5

LEMMA ProviderChecksIInv ==
    ASSUME IInv, NEW a \in Attempts,
           CheckLoss(a) \/ CheckSpend(a) \/ CheckPosition(a) \/ CheckBook(a) \/ CheckGrade(a)
    PROVE  IInv'
  BY ProviderCheckAdvances, AdvanceIInv

-----------------------------------------------------------------------------
(* The end of a call: it keeps its request, the log gains at most its own   *)
(* event, which tells the truth, and nothing new gets on the wire.          *)
LEMMA OverIInv ==
    ASSUME IInv, NEW a \in Attempts, call[a].pc \in Stages \cup {"sent"},
           NEW c \in Calls, call' = [call EXCEPT ![a] = c],
           c.pc = "done", c.req = call[a].req,
           (wire[a] \/ orders[a] # NoOrder) =>
              /\ c.failures = call[a].failures
              /\ c.outcome \notin {"simulated", "refused", "escaped"},
           orders' = orders, mods' = mods,
           wire' \in [Attempts -> BOOLEAN], \A b \in Attempts : wire'[b] => wire[b],
           NEW e \in Events, auditLog' \in {auditLog, auditLog \cup {e}}, e.attempt = a,
           e.mode = "live" => /\ ~e.passed => c.outcome = "refused"
                              /\ e.order => orders[a] # NoOrder,
           UNCHANGED <<killSwitch, day, sinceKill, toggles, modCount>>,
           auditFailures' \in Nat, crashes' \in Nat
    PROVE  IInv'
<1>1. /\ call' \in [Attempts -> Calls]
      /\ call'[a] = c
      /\ \A b \in Attempts \ {a} : call'[b] = call[b]
  BY UpdateFacts DEF IInv, TypeOK
<1>2. TypeOK'
  BY <1>1 DEF IInv, TypeOK
<1>3. \A b \in Attempts : ChecksRecorded(b)' /\ SentOnly(b)'
  <2>1. ASSUME NEW b \in Attempts \ {a}
        PROVE  ChecksRecorded(b)' /\ SentOnly(b)'
    BY <1>1, ZenonT(60) DEF IInv, ChecksRecorded, SentOnly, Approved
  <2>2. ChecksRecorded(a)' /\ SentOnly(a)'
    BY <1>1, SMTT(40) DEF IInv, ChecksRecorded, SentOnly, Approved, Stages
  <2>3. QED
    BY <2>1, <2>2
<1>4. LogInv'
  BY <1>1 DEF IInv, LogInv, TypeOK, Events, Stages
<1>5. QED
  BY <1>2, <1>3, <1>4 DEF IInv

LEMMA EventFacts ==
    ASSUME TypeOK, NEW a \in Attempts, NEW fails, NEW id \in BOOLEAN
    PROVE  /\ Event(a, fails, id) \in Events
           /\ Event(a, fails, id).attempt = a
           /\ Event(a, fails, id).passed = (fails = {})
           /\ Event(a, fails, id).order = id
<1>1. call[a].now \in Nat
  BY DEF TypeOK, Calls
<1>2. (fails = {}) \in BOOLEAN
  OBVIOUS
<1>3. QED
  BY <1>1, <1>2 DEF Event, Events

LEMMA RefuseIInv ==
    ASSUME IInv, NEW a \in Attempts, Refuse(a)
    PROVE  IInv'
<1>1. PICK answer \in ConfirmAnswers :
         LET fails == call[a].failures \cup answer
         IN  /\ fails # {}
             /\ call' = [call EXCEPT ![a] = [@ EXCEPT !.pc = "done", !.failures = fails,
                                                      !.outcome = "refused"]]
             /\ WriteAudit(Event(a, fails, FALSE))
  BY DEF Refuse
<1> DEFINE fails == call[a].failures \cup answer
           c == [call[a] EXCEPT !.pc = "done", !.failures = fails, !.outcome = "refused"]
           e == Event(a, fails, FALSE)
<1>2. TypeOK /\ call[a] \in Calls /\ call[a].pc = "confirm"
  BY DEF IInv, TypeOK, Refuse
<1>3. fails \in SUBSET FailureCodes
  BY <1>2 DEF Calls, ConfirmAnswers, FailureCodes
<1>4. call' = [call EXCEPT ![a] = c] /\ WriteAudit(e)
  BY <1>1, Zenon
<1> HIDE DEF fails
<1>5. c \in Calls /\ c.pc = "done" /\ c.req = call[a].req /\ c.outcome = "refused"
  BY <1>2, <1>3 DEF Calls, Outcomes
<1>0. e \in Events /\ e.attempt = a /\ ~e.order
  BY <1>2, EventFacts
<1> HIDE DEF c, e
<1>6. ~wire[a] /\ orders[a] = NoOrder
  BY <1>2 DEF IInv, SentOnly, TypeOK, Stages
<1>7. /\ auditLog' \in {auditLog, auditLog \cup {e}}
      /\ auditFailures' \in Nat
  BY <1>2, <1>4 DEF WriteAudit, TypeOK
<1>8. /\ orders' = orders /\ mods' = mods /\ wire' = wire
      /\ UNCHANGED <<killSwitch, day, sinceKill, toggles, modCount>>
      /\ crashes' = crashes
  BY DEF Refuse, Environment
<1>9. QED
  BY <1>0, <1>2, <1>4, <1>5, <1>6, <1>7, <1>8, OverIInv DEF Stages, TypeOK

LEMMA EscapeIInv ==
    ASSUME IInv, NEW a \in Attempts, Escape(a)
    PROVE  IInv'
<1> DEFINE c == [call[a] EXCEPT !.pc = "done", !.outcome = "escaped"]
           e == Event(a, {}, FALSE)
<1>1. TypeOK /\ call[a].pc \in Stages
  BY DEF IInv, Escape, MayEscape, Stages
<1>2. call' = [call EXCEPT ![a] = c]
  BY Zenon DEF Escape, End
<1>3. /\ c \in Calls /\ c.pc = "done" /\ c.req = call[a].req
      /\ c.failures = call[a].failures
  <2>1. call[a] \in Calls
    BY <1>1 DEF TypeOK
  <2>2. QED
    BY <2>1 DEF Calls, Outcomes
<1>9. e \in Events /\ e.attempt = a /\ e.passed /\ ~e.order
  BY <1>1, EventFacts
<1> HIDE DEF c, e
<1>4. ~wire[a] /\ orders[a] = NoOrder
  BY <1>1 DEF IInv, SentOnly, TypeOK, Stages
<1>5. /\ orders' = orders /\ mods' = mods /\ wire' = wire /\ auditLog' = auditLog
      /\ UNCHANGED <<killSwitch, day, sinceKill, toggles, modCount>>
      /\ crashes' = crashes /\ auditFailures' = auditFailures
  BY DEF Escape, Environment
<1>6. QED
  BY <1>1, <1>2, <1>3, <1>4, <1>5, <1>9, OverIInv DEF TypeOK

LEMMA CrashIInv ==
    ASSUME IInv, NEW a \in Attempts, Crash(a)
    PROVE  IInv'
<1> DEFINE c == [call[a] EXCEPT !.pc = "done", !.outcome = "crashed"]
           e == Event(a, {}, FALSE)
<1>1. TypeOK /\ call[a].pc \in Stages \cup {"sent"}
  BY DEF IInv, Crash, Running
<1>2. call' = [call EXCEPT ![a] = c]
  BY Zenon DEF Crash, End
<1>3. /\ c \in Calls /\ c.pc = "done" /\ c.req = call[a].req
      /\ c.failures = call[a].failures /\ c.outcome = "crashed"
  <2>1. call[a] \in Calls
    BY <1>1 DEF TypeOK
  <2>2. QED
    BY <2>1 DEF Calls, Outcomes
<1>9. e \in Events /\ e.attempt = a /\ e.passed /\ ~e.order
  BY <1>1, EventFacts
<1> HIDE DEF c, e
<1>4. /\ orders' = orders /\ mods' = mods /\ wire' = wire /\ auditLog' = auditLog
      /\ UNCHANGED <<killSwitch, day, sinceKill, toggles, modCount>>
      /\ crashes' = crashes + 1 /\ auditFailures' = auditFailures
  BY DEF Crash
<1>5. /\ wire' \in [Attempts -> BOOLEAN]
      /\ \A b \in Attempts : wire'[b] => wire[b]
      /\ auditFailures' \in Nat /\ crashes' \in Nat
      /\ auditLog' \in {auditLog, auditLog \cup {e}}
  BY <1>1, <1>4 DEF TypeOK
<1>6. (wire[a] \/ orders[a] # NoOrder) =>
         /\ c.failures = call[a].failures
         /\ c.outcome \notin {"simulated", "refused", "escaped"}
  BY <1>3
<1>7. e.mode = "live" => /\ ~e.passed => c.outcome = "refused"
                         /\ e.order => orders[a] # NoOrder
  BY <1>9
<1>8. QED
  BY <1>1, <1>2, <1>3, <1>4, <1>5, <1>6, <1>7, <1>9, OverIInv

LEMMA RespondIInv ==
    ASSUME IInv, NEW a \in Attempts, Respond(a)
    PROVE  IInv'
<1> DEFINE c == [call[a] EXCEPT !.pc = "done", !.outcome = "ok"]
           e == Event(a, {}, TRUE)
<1>1. TypeOK /\ call[a].pc = "sent"
  BY DEF IInv, Respond
<1>2. call' = [call EXCEPT ![a] = c] /\ WriteAudit(e) /\ orders[a] # NoOrder
  BY Zenon DEF Respond, End
<1>3. /\ c \in Calls /\ c.pc = "done" /\ c.req = call[a].req
      /\ c.failures = call[a].failures /\ c.outcome = "ok"
  <2>1. call[a] \in Calls
    BY <1>1 DEF TypeOK
  <2>2. QED
    BY <2>1 DEF Calls, Outcomes
<1>9. e \in Events /\ e.attempt = a /\ e.passed /\ e.order
  BY <1>1, EventFacts
<1> HIDE DEF c, e
<1>4. auditLog' \in {auditLog, auditLog \cup {e}} /\ auditFailures' \in Nat
  BY <1>1, <1>2 DEF WriteAudit, TypeOK
<1>5. /\ orders' = orders /\ mods' = mods /\ wire' = wire
      /\ UNCHANGED <<killSwitch, day, sinceKill, toggles, modCount>>
      /\ crashes' = crashes
  BY DEF Respond, Environment
<1>6. QED
  BY <1>1, <1>2, <1>3, <1>4, <1>5, <1>9, OverIInv DEF TypeOK

LEMMA FailIInv ==
    ASSUME IInv, NEW a \in Attempts, Fail(a)
    PROVE  IInv'
<1> DEFINE c == [call[a] EXCEPT !.pc = "done", !.outcome = "error"]
           e == Event(a, {}, FALSE)
<1>1. TypeOK /\ call[a].pc = "sent"
  BY DEF IInv, Fail
<1>2. call' = [call EXCEPT ![a] = c] /\ WriteAudit(e)
  BY Zenon DEF Fail, End
<1>3. /\ c \in Calls /\ c.pc = "done" /\ c.req = call[a].req
      /\ c.failures = call[a].failures /\ c.outcome = "error"
  <2>1. call[a] \in Calls
    BY <1>1 DEF TypeOK
  <2>2. QED
    BY <2>1 DEF Calls, Outcomes
<1>9. e \in Events /\ e.attempt = a /\ e.passed /\ ~e.order
  BY <1>1, EventFacts
<1> HIDE DEF c, e
<1>4. auditLog' \in {auditLog, auditLog \cup {e}} /\ auditFailures' \in Nat
  BY <1>1, <1>2 DEF WriteAudit, TypeOK
<1>5. PICK still \in {FALSE, wire[a]} : wire' = [wire EXCEPT ![a] = still]
  BY DEF Fail
<1>6. wire' \in [Attempts -> BOOLEAN] /\ \A b \in Attempts : wire'[b] => wire[b]
  BY <1>1, <1>5 DEF TypeOK
<1>7. /\ orders' = orders /\ mods' = mods
      /\ UNCHANGED <<killSwitch, day, sinceKill, toggles, modCount>>
      /\ crashes' = crashes
  BY DEF Fail, Environment
<1>8. QED
  BY <1>1, <1>2, <1>3, <1>4, <1>6, <1>7, <1>9, OverIInv DEF TypeOK

-----------------------------------------------------------------------------
(* A call starts; in dry-run mode it is over at once.                       *)
LEMMA BeginIInv ==
    ASSUME IInv, NEW a \in Attempts, NEW r \in Requests, Begin(a, r)
    PROVE  IInv'
<1> DEFINE fails == CommonFailures(r)
           started == [Idle EXCEPT !.req = r, !.now = day, !.failures = fails]
           over == [started EXCEPT !.pc = "done",
                                   !.outcome = IF fails = {} THEN "simulated" ELSE "refused"]
           e == [attempt |-> a, mode |-> "dry_run", day |-> day,
                 passed |-> fails = {}, order |-> fails = {}]
<1>1. TypeOK /\ call[a] \in Calls /\ call[a].pc = "idle" /\ day \in Nat
  BY DEF IInv, TypeOK, Begin
<1>2. fails \in SUBSET FailureCodes
  BY CommonFailuresAreCodes
<1>3. /\ orders' = orders /\ mods' = mods /\ wire' = wire
      /\ UNCHANGED <<killSwitch, day, sinceKill, toggles, modCount>>
      /\ crashes' = crashes
  BY DEF Begin, Environment
<1>4. ~wire[a] /\ orders[a] = NoOrder
  BY <1>1 DEF IInv, SentOnly, TypeOK
<1>5. CASE a \in LiveAttempts
  <2> DEFINE c == [started EXCEPT !.pc = "sync"]
  <2>1. call' = [call EXCEPT ![a] = c] /\ UNCHANGED <<auditLog, auditFailures>>
    BY <1>5, Zenon DEF Begin
  <2>2. c \in Calls /\ c.pc = "sync" /\ c.req = r /\ c.failures = fails /\ c.outcome = "none"
    <3> HIDE DEF fails
    <3>1. QED
      BY <1>1, <1>2, IdleIsACall DEF Calls, Stages
  <2> HIDE DEF c
  <2>3. /\ call' \in [Attempts -> Calls]
        /\ call'[a] = c
        /\ \A b \in Attempts \ {a} : call'[b] = call[b]
    BY <1>1, <2>1, <2>2, UpdateFacts DEF TypeOK
  <2>4. TypeOK'
    BY <1>1, <1>3, <2>1, <2>3 DEF TypeOK
  <2>5. ASSUME NEW b \in Attempts
        PROVE  ChecksRecorded(b)' /\ SentOnly(b)'
    <3>1. CASE b # a
      BY <1>3, <2>3, <3>1 DEF IInv, ChecksRecorded, SentOnly, Approved
    <3>2. CASE b = a
      BY <1>1, <1>3, <1>4, <1>5, <2>2, <2>3, <3>2
      DEF IInv, ChecksRecorded, SentOnly, Approved, Stages
    <3>3. QED
      BY <3>1, <3>2
  <2>6. LogInv'
    BY <1>1, <1>3, <2>1, <2>2, <2>3 DEF IInv, LogInv, TypeOK, Events
  <2>7. QED
    BY <2>4, <2>5, <2>6 DEF IInv
<1>6. CASE a \notin LiveAttempts
  <2>1. call' = [call EXCEPT ![a] = over] /\ WriteAudit(e)
    BY <1>6, Zenon DEF Begin
  <2>2. over \in Calls /\ over.pc = "done"
    <3> HIDE DEF fails
    <3>1. QED
      BY <1>1, <1>2, IdleIsACall DEF Calls, Outcomes
  <2>3. e \in Events /\ e.attempt = a /\ e.mode = "dry_run"
    <3>1. (fails = {}) \in BOOLEAN
      OBVIOUS
    <3>2. QED
      BY <1>1, <3>1 DEF Events
  <2> HIDE DEF over, e
  <2>4. /\ call' \in [Attempts -> Calls]
        /\ call'[a] = over
        /\ \A b \in Attempts \ {a} : call'[b] = call[b]
    BY <1>1, <2>1, <2>2, UpdateFacts DEF TypeOK
  <2>5. auditLog' \in {auditLog, auditLog \cup {e}} /\ auditFailures' \in Nat
    BY <1>1, <2>1 DEF WriteAudit, TypeOK
  <2>6. TypeOK'
    BY <1>1, <1>3, <2>3, <2>4, <2>5 DEF TypeOK
  <2>7. ASSUME NEW b \in Attempts
        PROVE  ChecksRecorded(b)' /\ SentOnly(b)'
    <3>1. CASE b # a
      BY <1>3, <2>4, <3>1 DEF IInv, ChecksRecorded, SentOnly, Approved
    <3>2. CASE b = a
      BY <1>1, <1>3, <1>4, <2>2, <2>4, <3>2
      DEF IInv, ChecksRecorded, SentOnly, Approved, Stages
    <3>3. QED
      BY <3>1, <3>2
  <2>8. LogInv'
    BY <1>1, <1>3, <2>2, <2>3, <2>4, <2>5 DEF IInv, LogInv, TypeOK, Events
  <2>9. QED
    BY <2>6, <2>7, <2>8 DEF IInv
<1>7. QED
  BY <1>5, <1>6

(* The order goes to the client: no check failed, so every gate is open.    *)
LEMMA SubmitIInv ==
    ASSUME IInv, NEW a \in Attempts, Submit(a)
    PROVE  IInv'
<1> DEFINE c == [call[a] EXCEPT !.pc = "sent"]
<1>1. TypeOK /\ call[a] \in Calls /\ call[a].pc = "confirm"
  BY DEF IInv, TypeOK, Submit
<1>2. /\ c \in Calls /\ c.pc = "sent" /\ c.req = call[a].req
      /\ c.failures = call[a].failures /\ c.outcome = call[a].outcome
  BY <1>1 DEF Calls
<1>3. call' = [call EXCEPT ![a] = c]
  BY Zenon DEF Submit
<1> HIDE DEF c
<1>4. /\ call' \in [Attempts -> Calls]
      /\ call'[a] = c
      /\ \A b \in Attempts \ {a} : call'[b] = call[b]
  BY <1>1, <1>2, <1>3, UpdateFacts DEF TypeOK
<1>5. /\ wire' \in [Attempts -> BOOLEAN]
      /\ \A b \in Attempts \ {a} : wire'[b] = wire[b]
  BY <1>1, UpdateFacts DEF TypeOK, Submit
<1>6. /\ orders' = orders /\ mods' = mods /\ auditLog' = auditLog
      /\ UNCHANGED <<killSwitch, day, toggles, modCount, auditFailures, crashes>>
      /\ sinceKill' \in Nat
  BY <1>1 DEF Submit, Environment, TypeOK
<1>7. TypeOK'
  BY <1>1, <1>4, <1>5, <1>6 DEF TypeOK
<1>8. RequireConfirmation => HasConfirm
  BY DEF Submit, ConfirmAnswers
<1>9. Approved(a) /\ call[a].outcome = "none" /\ a \in LiveAttempts
  BY <1>1, <1>8 DEF IInv, ChecksRecorded, LogInv, Approved, Stages, Submit
<1>10. ASSUME NEW b \in Attempts
       PROVE  ChecksRecorded(b)' /\ SentOnly(b)'
  <2>1. CASE b # a
    BY <1>4, <1>5, <1>6, <2>1 DEF IInv, ChecksRecorded, SentOnly, Approved
  <2>2. CASE b = a
    <3>1. call'[b].req = call[b].req /\ call'[b].failures = call[b].failures
          /\ call'[b].pc = "sent" /\ call'[b].outcome = "none"
      BY <1>2, <1>4, <1>9, <2>2
    <3>2. Approved(b)'
      BY <1>9, <2>2, <3>1 DEF Approved
    <3>3. QED
      BY <1>6, <1>9, <2>2, <3>1, <3>2 DEF IInv, ChecksRecorded, SentOnly, Stages
  <2>3. QED
    BY <2>1, <2>2
<1>11. LogInv'
  BY <1>1, <1>2, <1>4, <1>6 DEF IInv, LogInv, TypeOK, Events
<1>12. QED
  BY <1>7, <1>10, <1>11 DEF IInv

(* The exchange takes the order of an approved call.                        *)
LEMMA AcceptIInv ==
    ASSUME IInv, NEW a \in Attempts, Accept(a)
    PROVE  IInv'
<1> DEFINE o == [side |-> call[a].req.side, count |-> call[a].req.count,
                 price |-> call[a].req.price, day |-> day, late |-> call[a].pc = "done",
                 amended |-> FALSE, cancelled |-> FALSE]
<1>1. TypeOK /\ call[a] \in Calls /\ day \in Nat /\ orders[a] = NoOrder /\ wire[a]
  BY DEF IInv, TypeOK, Accept
<1>2. call[a].req \in Requests
  BY <1>1 DEF Calls
<1>3. o \in Orders /\ ~o.amended
  <2>1. (call[a].pc = "done") \in BOOLEAN
    OBVIOUS
  <2>2. QED
    BY <1>1, <1>2, <2>1, ExecutorAssumption DEF Orders
<1>4. /\ o.side = call[a].req.side /\ o.count = call[a].req.count
      /\ o.price = call[a].req.price
  OBVIOUS
<1>5. orders' = [orders EXCEPT ![a] = o] /\ wire' = [wire EXCEPT ![a] = FALSE]
  BY Zenon DEF Accept
<1> HIDE DEF o
<1>6. /\ orders' \in [Attempts -> Orders \cup {NoOrder}]
      /\ orders'[a] = o
      /\ \A b \in Attempts \ {a} : orders'[b] = orders[b]
  BY <1>1, <1>3, <1>5, UpdateFacts DEF TypeOK
<1>7. /\ wire' \in [Attempts -> BOOLEAN]
      /\ ~wire'[a]
      /\ \A b \in Attempts \ {a} : wire'[b] = wire[b]
  BY <1>1, <1>5, UpdateFacts DEF TypeOK
<1>8. /\ call' = call /\ mods' = mods /\ auditLog' = auditLog
      /\ UNCHANGED <<killSwitch, day, sinceKill, toggles, modCount, auditFailures, crashes>>
  BY DEF Accept, Environment
<1>9. TypeOK'
  BY <1>1, <1>6, <1>7, <1>8 DEF TypeOK
<1>10. ASSUME NEW b \in Attempts
       PROVE  ChecksRecorded(b)' /\ SentOnly(b)'
  <2>1. CASE b # a
    BY <1>6, <1>7, <1>8, <2>1 DEF IInv, ChecksRecorded, SentOnly, Approved
  <2>2. CASE b = a
    BY <1>1, <1>3, <1>4, <1>6, <1>7, <1>8, <2>2, ExecutorAssumption
    DEF IInv, ChecksRecorded, SentOnly, Approved
  <2>3. QED
    BY <2>1, <2>2
<1>11. LogInv'
  BY <1>1, <1>3, <1>6, <1>8, ExecutorAssumption DEF IInv, LogInv, TypeOK, Events
<1>12. QED
  BY <1>9, <1>10, <1>11 DEF IInv

(* A cancel or amend request is only ever sent for an order there is.       *)
LEMMA ModifyIInv ==
    ASSUME IInv, NEW a \in Attempts, CancelOrder(a) \/ AmendOrder(a)
    PROVE  IInv'
<1>1. PICK mod \in Mods : Modify(a, mod)
  <2>1. CASE CancelOrder(a)
    BY <2>1 DEF CancelOrder, Mods
  <2>2. CASE AmendOrder(a)
    <3>1. PICK m \in Amendments :
             Modify(a, [kind |-> "amend", count |-> m.count, price |-> m.price])
      BY <2>2 DEF AmendOrder
    <3>2. m.count \in Nat /\ m.price \in Nat
      BY ExecutorAssumption
    <3>3. QED
      BY <3>1, <3>2 DEF Mods
  <2>3. QED
    BY <2>1, <2>2
<1>2. /\ mods' \in [Attempts -> Mods \cup {NoMod}]
      /\ \A b \in Attempts \ {a} : mods'[b] = mods[b]
  BY <1>1, UpdateFacts DEF IInv, TypeOK, Modify
<1>3. /\ UNCHANGED <<killSwitch, day, toggles, crashes, call, auditLog, auditFailures,
                     wire, orders, sinceKill>>
      /\ modCount' = modCount + 1 /\ orders[a] # NoOrder
  BY <1>1 DEF Modify
<1>4. TypeOK'
  BY <1>2, <1>3 DEF IInv, TypeOK
<1>5. ASSUME NEW b \in Attempts
      PROVE  ChecksRecorded(b)' /\ SentOnly(b)'
  BY <1>2, <1>3 DEF IInv, ChecksRecorded, SentOnly, Approved
<1>6. LogInv'
  BY <1>3 DEF IInv, LogInv
<1>7. QED
  BY <1>4, <1>5, <1>6 DEF IInv

(* The exchange applies it: the order stays, cancelled or marked amended.   *)
LEMMA ApplyModIInv ==
    ASSUME IInv, NEW a \in Attempts, ApplyMod(a)
    PROVE  IInv'
<1> DEFINE cancelled == [orders[a] EXCEPT !.cancelled = TRUE]
           amended == [orders[a] EXCEPT !.amended = TRUE, !.count = mods[a].count,
                                        !.price = mods[a].price]
<1>1. TypeOK /\ mods[a] \in Mods
  BY DEF IInv, TypeOK, ApplyMod
<1>2. orders[a] # NoOrder /\ orders[a] \in Orders
  BY <1>1 DEF IInv, TypeOK, SentOnly, ApplyMod
<1>3. orders' \in {orders, [orders EXCEPT ![a] = cancelled], [orders EXCEPT ![a] = amended]}
  BY Zenon DEF ApplyMod
<1>4. /\ cancelled \in Orders /\ cancelled.amended = orders[a].amended
      /\ cancelled.side = orders[a].side /\ cancelled.count = orders[a].count
      /\ cancelled.price = orders[a].price
  BY <1>2 DEF Orders
<1>5. amended \in Orders /\ amended.amended
  <2>1. mods[a].count \in Int /\ mods[a].price \in Int
    BY <1>1 DEF Mods
  <2>2. QED
    BY <1>2, <2>1 DEF Orders
<1>6. mods' \in [Attempts -> Mods \cup {NoMod}] /\ mods'[a] = NoMod
      /\ \A b \in Attempts \ {a} : mods'[b] = mods[b]
  BY <1>1, UpdateFacts DEF TypeOK, ApplyMod
<1>7. /\ UNCHANGED <<killSwitch, day, toggles, crashes, modCount, call, auditLog,
                     auditFailures, wire, sinceKill>>
  BY DEF ApplyMod
<1> HIDE DEF cancelled, amended
<1>8. /\ orders' \in [Attempts -> Orders \cup {NoOrder}]
      /\ orders'[a] # NoOrder
      /\ orders'[a] \in {orders[a], cancelled, amended}
      /\ \A b \in Attempts \ {a} : orders'[b] = orders[b]
  <2>1. ASSUME NEW o \in Orders, orders' = [orders EXCEPT ![a] = o]
        PROVE  /\ orders' \in [Attempts -> Orders \cup {NoOrder}]
               /\ orders'[a] = o /\ o # NoOrder
               /\ \A b \in Attempts \ {a} : orders'[b] = orders[b]
    BY <1>1, <2>1, UpdateFacts, ExecutorAssumption DEF TypeOK
  <2>2. CASE orders' = orders
    BY <1>1, <1>2, <2>2 DEF TypeOK
  <2>3. CASE orders' = [orders EXCEPT ![a] = cancelled]
    BY <1>4, <2>1, <2>3
  <2>4. CASE orders' = [orders EXCEPT ![a] = amended]
    BY <1>5, <2>1, <2>4
  <2>5. QED
    BY <1>3, <2>2, <2>3, <2>4
<1>9. TypeOK'
  BY <1>1, <1>6, <1>7, <1>8 DEF TypeOK
<1>10. ASSUME NEW b \in Attempts
       PROVE  ChecksRecorded(b)' /\ SentOnly(b)'
  <2>1. CASE b # a
    BY <1>6, <1>7, <1>8, <2>1 DEF IInv, ChecksRecorded, SentOnly, Approved
  <2>2. CASE b = a
    BY <1>2, <1>4, <1>5, <1>6, <1>7, <1>8, <2>2
    DEF IInv, ChecksRecorded, SentOnly, Approved
  <2>3. QED
    BY <2>1, <2>2
<1>11. LogInv'
  BY <1>1, <1>7, <1>8 DEF IInv, LogInv, TypeOK, Events
<1>12. QED
  BY <1>9, <1>10, <1>11 DEF IInv

LEMMA EnvironmentIInv ==
    ASSUME IInv, ToggleKillSwitch \/ Midnight \/ UNCHANGED vars
    PROVE  IInv'
<1>1. CASE ToggleKillSwitch
  <2>1. UNCHANGED <<day, call, auditLog, auditFailures, wire, orders, mods, modCount, crashes>>
    BY <1>1 DEF ToggleKillSwitch
  <2>2. killSwitch' \in BOOLEAN /\ sinceKill' \in Nat /\ toggles' \in Nat
    BY <1>1 DEF IInv, TypeOK, ToggleKillSwitch
  <2>3. TypeOK'
    BY <2>1, <2>2 DEF IInv, TypeOK
  <2>4. QED
    BY <2>1, <2>3 DEF IInv, ChecksRecorded, SentOnly, LogInv, Approved
<1>2. CASE Midnight \/ UNCHANGED vars
  <2>1. UNCHANGED <<killSwitch, call, auditLog, auditFailures, wire, orders, mods, modCount,
                    sinceKill, toggles, crashes>>
    BY <1>2 DEF Midnight, vars
  <2>2. day' \in Nat
    BY <1>2 DEF IInv, TypeOK, Midnight, vars
  <2>3. TypeOK'
    BY <2>1, <2>2 DEF IInv, TypeOK
  <2>4. QED
    BY <2>1, <2>3 DEF IInv, ChecksRecorded, SentOnly, LogInv, Approved
<1>3. QED
  BY <1>1, <1>2

LEMMA Inductive == IInv /\ [Next]_vars => IInv'
<1> SUFFICES ASSUME IInv, [Next]_vars PROVE IInv'
  OBVIOUS
<1>1. CASE ToggleKillSwitch \/ Midnight \/ UNCHANGED vars
  BY <1>1, EnvironmentIInv
<1>2. ASSUME NEW a \in Attempts, NEW r \in Requests, Begin(a, r)
      PROVE  IInv'
  BY <1>2, BeginIInv
<1>3. ASSUME NEW a \in Attempts, CallStep(a)
      PROVE  IInv'
  BY <1>3, SyncChecksIInv, ProviderChecksIInv, RefuseIInv, SubmitIInv, EscapeIInv,
     RespondIInv, FailIInv
  DEF CallStep
<1>4. ASSUME NEW a \in Attempts, Crash(a) \/ Accept(a) \/ CancelOrder(a) \/ AmendOrder(a)
                                  \/ ApplyMod(a)
      PROVE  IInv'
  BY <1>4, CrashIInv, AcceptIInv, ModifyIInv, ApplyModIInv
<1>5. QED
  BY <1>1, <1>2, <1>3, <1>4 DEF Next

LEMMA AlwaysIInv == Spec => []IInv
  BY InitIInv, Inductive, PTL DEF Spec

-----------------------------------------------------------------------------
(* Every variable keeps its type in every run of create_order, cancel_order *)
(* and amend_order calls.                                                   *)
THEOREM TypeCorrect == Spec => []TypeOK
<1>1. IInv => TypeOK
  BY DEF IInv
<1>2. QED
  BY <1>1, AlwaysIInv, PTL

(* What reaches the exchange passed every check run_live_checks makes, and  *)
(* is what the caller of create_order asked for until it is amended.        *)
THEOREM OnlyApprovedOrdersArePlaced == Spec => []PlacedOrderWasApproved
<1>1. IInv => PlacedOrderWasApproved
  BY DEF IInv, SentOnly, Approved, PlacedOrderWasApproved
<1>2. QED
  BY <1>1, AlwaysIInv, PTL

(* The events the finally block of create_order writes are true of what the *)
(* exchange did and of what it may still do.                                *)
THEOREM AuditIsTrue == Spec => []AuditAgreesWithExchange
<1>1. IInv => AuditAgreesWithExchange
  BY DEF IInv, SentOnly, LogInv, TypeOK, Events, AuditAgreesWithExchange
<1>2. QED
  BY <1>1, AlwaysIInv, PTL

(* Dry-run mode, check_production_gating and a missing confirm callback     *)
(* each keep everything from the exchange.                                  *)
THEOREM GatesHold == Spec => []GatedExecutorIsInert
<1>1. IInv => GatedExecutorIsInert
  BY DEF IInv, SentOnly, Approved, GatedExecutorIsInert
<1>2. QED
  BY <1>1, AlwaysIInv, PTL

-----------------------------------------------------------------------------
(* The contract of the client.                                              *)

(* A call that waits for the client has its order on the wire or placed.    *)
SentIsOut(a) == call[a].pc = "sent" => wire[a] \/ orders[a] # NoOrder

(* The state OrderSubmission sees, call by call.                            *)
Taken(a) == IF orders[a] = NoOrder THEN 0 ELSE 1
Seen(a) == <<SubmissionStatus(a), wire[a], Taken(a)>>

(* The steps OrderSubmission allows one call, and the one that leaves it.   *)
OneStep(a) ==
    \/ Seen(a)' = Seen(a)
    \/ SubmissionStatus(a) = "idle" /\ Seen(a)' = <<"open", TRUE, Taken(a)>>
    \/ wire[a] /\ Taken(a) = 0 /\ Seen(a)' = <<SubmissionStatus(a), FALSE, 1>>
    \/ SubmissionStatus(a) = "open" /\ Taken(a) = 1 /\ Seen(a)' = <<"ok", wire[a], Taken(a)>>
    \/ /\ SubmissionStatus(a) = "open"
       /\ \E still \in {FALSE, wire[a]} : Seen(a)' = <<"failed", still, Taken(a)>>

(* A call no step of which is taken stays as it is.                         *)
Same(b) == call'[b] = call[b] /\ wire'[b] = wire[b] /\ orders'[b] = orders[b]

LEMMA SameSeen ==
    ASSUME NEW b \in Attempts, Same(b)
    PROVE  Seen(b)' = Seen(b)
  BY DEF Same, Seen, SubmissionStatus, Taken

LEMMA OneStepIsNext ==
    ASSUME IInv, IInv', NEW a \in Attempts, OneStep(a), \A b \in Attempts \ {a} : Same(b)
    PROVE  [Submission!Next]_(Submission!vars)
<1> DEFINE S == [b \in Attempts |-> SubmissionStatus(b)]
           P == [b \in Attempts |-> Taken(b)]
<1>1. /\ S' = [S EXCEPT ![a] = SubmissionStatus(a)']
      /\ wire' = [wire EXCEPT ![a] = wire'[a]]
      /\ P' = [P EXCEPT ![a] = Taken(a)']
  <2>1. \A b \in Attempts \ {a} : /\ SubmissionStatus(b)' = SubmissionStatus(b)
                                  /\ wire'[b] = wire[b] /\ Taken(b)' = Taken(b)
    BY SameSeen DEF Seen
  <2>2. wire \in [Attempts -> BOOLEAN] /\ wire' \in [Attempts -> BOOLEAN]
    BY DEF IInv, TypeOK
  <2>3. QED
    BY <2>1, <2>2
<1>2. /\ S[a] = SubmissionStatus(a) /\ P[a] = Taken(a)
      /\ S = [S EXCEPT ![a] = S[a]] /\ P = [P EXCEPT ![a] = P[a]]
      /\ wire = [wire EXCEPT ![a] = wire[a]]
  BY DEF IInv, TypeOK
<1>3. Submission!vars = <<S, wire, P>> /\ Submission!vars' = <<S', wire', P'>>
  BY DEF Submission!vars, Taken
<1>4. /\ Submission!Open(a) <=> S[a] = "idle" /\ S' = [S EXCEPT ![a] = "open"]
                                /\ wire' = [wire EXCEPT ![a] = TRUE] /\ P' = P
      /\ Submission!Place(a) <=> wire[a] /\ P[a] = 0 /\ P' = [P EXCEPT ![a] = 1]
                                 /\ wire' = [wire EXCEPT ![a] = FALSE] /\ S' = S
      /\ Submission!Answer(a) <=> S[a] = "open" /\ P[a] = 1 /\ S' = [S EXCEPT ![a] = "ok"]
                                  /\ wire' = wire /\ P' = P
      /\ Submission!Fail(a) <=> S[a] = "open" /\ S' = [S EXCEPT ![a] = "failed"]
                                /\ (\E still \in {FALSE, wire[a]} : wire' = [wire EXCEPT ![a] = still])
                                /\ P' = P
  BY DEF Submission!Open, Submission!Place, Submission!Answer, Submission!Fail, Taken
<1> HIDE DEF S, P
<1>5. CASE Seen(a)' = Seen(a)
  <2>1. <<S', wire', P'>> = <<S, wire, P>>
    BY <1>1, <1>2, <1>5 DEF Seen
  <2>2. QED
    BY <1>3, <2>1
<1>6. CASE SubmissionStatus(a) = "idle" /\ Seen(a)' = <<"open", TRUE, Taken(a)>>
  <2>1. /\ S' = [S EXCEPT ![a] = "open"] /\ wire' = [wire EXCEPT ![a] = TRUE]
        /\ P' = [P EXCEPT ![a] = Taken(a)]
    BY <1>1, <1>6 DEF Seen
  <2>2. S[a] = "idle" /\ P' = P
    BY <1>2, <1>6, <2>1, Zenon
  <2>3. Submission!Open(a)
    BY <1>4, <2>1, <2>2, Zenon
  <2>4. QED
    BY <2>3 DEF Submission!Next
<1>7. CASE wire[a] /\ Taken(a) = 0 /\ Seen(a)' = <<SubmissionStatus(a), FALSE, 1>>
  <2>1. /\ S' = [S EXCEPT ![a] = SubmissionStatus(a)] /\ wire' = [wire EXCEPT ![a] = FALSE]
        /\ P' = [P EXCEPT ![a] = 1]
    BY <1>1, <1>7 DEF Seen
  <2>2. P[a] = 0 /\ S' = S
    BY <1>2, <1>7, <2>1, Zenon
  <2>3. Submission!Place(a)
    BY <1>4, <1>7, <2>1, <2>2, Zenon
  <2>4. QED
    BY <2>3 DEF Submission!Next
<1>8. CASE SubmissionStatus(a) = "open" /\ Taken(a) = 1 /\ Seen(a)' = <<"ok", wire[a], Taken(a)>>
  <2>1. /\ S' = [S EXCEPT ![a] = "ok"] /\ wire' = [wire EXCEPT ![a] = wire[a]]
        /\ P' = [P EXCEPT ![a] = Taken(a)]
    BY <1>1, <1>8 DEF Seen
  <2>2. S[a] = "open" /\ P[a] = 1 /\ wire' = wire /\ P' = P
    BY <1>2, <1>8, <2>1, Zenon
  <2>3. Submission!Answer(a)
    BY <1>4, <2>1, <2>2, Zenon
  <2>4. QED
    BY <2>3 DEF Submission!Next
<1>9. ASSUME SubmissionStatus(a) = "open",
             NEW still \in {FALSE, wire[a]}, Seen(a)' = <<"failed", still, Taken(a)>>
      PROVE  [Submission!Next]_(Submission!vars)
  <2>1. /\ S' = [S EXCEPT ![a] = "failed"] /\ wire' = [wire EXCEPT ![a] = still]
        /\ P' = [P EXCEPT ![a] = Taken(a)]
    BY <1>1, <1>9 DEF Seen
  <2>2. S[a] = "open" /\ P' = P
    BY <1>2, <1>9, <2>1, Zenon
  <2>3. Submission!Fail(a)
    BY <1>4, <2>1, <2>2, Zenon
  <2>4. QED
    BY <2>3 DEF Submission!Next
<1>10. QED
  BY <1>5, <1>6, <1>7, <1>8, <1>9 DEF OneStep

-----------------------------------------------------------------------------
(* A step of the call alone, before the client or without it: whatever the  *)
(* call has on the wire or on the books stays.                              *)
LEMMA CallMoves ==
    ASSUME IInv, NEW a \in Attempts, NEW c \in Calls, call' = [call EXCEPT ![a] = c],
           wire' = wire, orders' = orders
    PROVE  /\ call'[a] = c /\ wire'[a] = wire[a] /\ orders'[a] = orders[a]
           /\ Taken(a)' = Taken(a)
           /\ \A b \in Attempts \ {a} : Same(b)
  BY DEF IInv, TypeOK, Same, Taken

(* In the checks, and outside them after a refusal, nothing is out.         *)
LEMMA NothingOut ==
    ASSUME IInv, NEW a \in Attempts, call[a].pc \in Stages \cup {"idle"}
    PROVE  /\ ~wire[a] /\ orders[a] = NoOrder /\ call[a].outcome = "none"
           /\ SubmissionStatus(a) = "idle"
<1>1. call[a].pc \notin {"sent", "done"}
  BY DEF Stages
<1>2. call[a].outcome = "none"
  BY <1>1 DEF IInv, LogInv
<1>3. ~wire[a] /\ orders[a] = NoOrder
  BY <1>1 DEF IInv, SentOnly
<1>4. QED
  BY <1>1, <1>2, <1>3 DEF SubmissionStatus

LEMMA QuietStep ==
    ASSUME IInv, NEW a \in Attempts, call[a].pc \in Stages \cup {"idle"},
           NEW c \in Calls, call' = [call EXCEPT ![a] = c], c.pc # "sent",
           c.outcome \in {"none", "simulated", "refused", "escaped", "crashed"},
           wire' = wire, orders' = orders
    PROVE  OneStep(a) /\ SentIsOut(a)' /\ \A b \in Attempts \ {a} : Same(b)
<1>1. /\ call'[a] = c /\ wire'[a] = wire[a] /\ orders'[a] = orders[a]
      /\ Taken(a)' = Taken(a)
      /\ \A b \in Attempts \ {a} : Same(b)
  BY CallMoves
<1>2. SubmissionStatus(a)' = "idle" /\ SubmissionStatus(a) = "idle"
  BY <1>1, NothingOut DEF SubmissionStatus
<1>3. QED
  BY <1>1, <1>2 DEF OneStep, Seen, SentIsOut

LEMMA AdvanceSeen ==
    ASSUME IInv, NEW a \in Attempts, NEW s \in Stages, NEW t \in Stages,
           NEW fails \in SUBSET FailureCodes, Advance(a, s, t, fails)
    PROVE  OneStep(a) /\ SentIsOut(a)' /\ \A b \in Attempts \ {a} : Same(b)
<1> DEFINE c == [call[a] EXCEPT !.pc = t, !.failures = call[a].failures \cup fails]
<1>1. call[a] \in Calls /\ call[a].pc = s /\ wire' = wire /\ orders' = orders
  BY DEF IInv, TypeOK, Advance
<1>2. call' = [call EXCEPT ![a] = c]
  BY Zenon DEF Advance
<1>3. c \in Calls /\ c.pc = t /\ c.outcome = call[a].outcome
  BY <1>1 DEF Calls
<1>4. t # "sent" /\ call[a].outcome = "none"
  BY <1>1, NothingOut DEF Stages
<1> HIDE DEF c
<1>5. QED
  BY <1>1, <1>2, <1>3, <1>4, QuietStep

LEMMA SyncChecksSeen ==
    ASSUME IInv, NEW a \in Attempts, SyncChecks(a)
    PROVE  OneStep(a) /\ SentIsOut(a)' /\ \A b \in Attempts \ {a} : Same(b)
<1> DEFINE c == [call[a] EXCEPT !.pc = "loss", !.checkDay = day,
                                !.failures = call[a].failures \cup SyncFailures]
<1>1. /\ call[a] \in Calls /\ call[a].pc = "sync" /\ day \in Nat
      /\ wire' = wire /\ orders' = orders
  BY DEF IInv, TypeOK, SyncChecks
<1>2. call' = [call EXCEPT ![a] = c]
  BY Zenon DEF SyncChecks
<1>3. c \in Calls /\ c.pc = "loss" /\ c.outcome = call[a].outcome
  BY <1>1, SyncFailuresFacts DEF Calls, Stages
<1>4. call[a].outcome = "none" /\ call[a].pc \in Stages
  BY <1>1, NothingOut DEF Stages
<1> HIDE DEF c
<1>5. QED
  BY <1>1, <1>2, <1>3, <1>4, QuietStep

LEMMA RefuseSeen ==
    ASSUME IInv, NEW a \in Attempts, Refuse(a)
    PROVE  OneStep(a) /\ SentIsOut(a)' /\ \A b \in Attempts \ {a} : Same(b)
<1>1. PICK answer \in ConfirmAnswers :
         call' = [call EXCEPT ![a] = [@ EXCEPT !.pc = "done",
                                               !.failures = call[a].failures \cup answer,
                                               !.outcome = "refused"]]
  BY DEF Refuse
<1> DEFINE fails == call[a].failures \cup answer
           c == [call[a] EXCEPT !.pc = "done", !.failures = fails, !.outcome = "refused"]
<1>2. /\ call[a] \in Calls /\ call[a].pc = "confirm" /\ wire' = wire /\ orders' = orders
  BY DEF IInv, TypeOK, Refuse
<1>3. fails \in SUBSET FailureCodes
  BY <1>2 DEF Calls, ConfirmAnswers, FailureCodes
<1>4. call' = [call EXCEPT ![a] = c]
  BY <1>1, Zenon
<1> HIDE DEF fails
<1>5. c \in Calls /\ c.pc = "done" /\ c.outcome = "refused"
  BY <1>2, <1>3 DEF Calls, Outcomes
<1> HIDE DEF c
<1>6. call[a].pc \in Stages
  BY <1>2 DEF Stages
<1>7. QED
  BY <1>2, <1>4, <1>5, <1>6, QuietStep

LEMMA BeginSeen ==
    ASSUME IInv, NEW a \in Attempts, NEW r \in Requests, Begin(a, r)
    PROVE  OneStep(a) /\ SentIsOut(a)' /\ \A b \in Attempts \ {a} : Same(b)
<1> DEFINE fails == CommonFailures(r)
           started == [Idle EXCEPT !.req = r, !.now = day, !.failures = fails]
           live == [started EXCEPT !.pc = "sync"]
           over == [started EXCEPT !.pc = "done",
                                   !.outcome = IF fails = {} THEN "simulated" ELSE "refused"]
<1>1. call[a].pc = "idle" /\ day \in Nat /\ wire' = wire /\ orders' = orders
  BY DEF IInv, TypeOK, Begin
<1>2. call' = [call EXCEPT ![a] = live] \/ call' = [call EXCEPT ![a] = over]
  BY Zenon DEF Begin
<1>3. fails \in SUBSET FailureCodes
  BY CommonFailuresAreCodes
<1> HIDE DEF fails
<1>4. live \in Calls /\ live.pc = "sync" /\ live.outcome = "none"
  BY <1>1, <1>3, IdleIsACall DEF Calls, Stages
<1>5. over \in Calls /\ over.pc = "done" /\ over.outcome \in {"simulated", "refused"}
  BY <1>1, <1>3, IdleIsACall DEF Calls, Outcomes
<1> HIDE DEF live, over
<1>6. QED
  BY <1>1, <1>2, <1>4, <1>5, QuietStep

(* The ends of a call that was in the checks or with the client.            *)
LEMMA EndFacts ==
    ASSUME IInv, NEW a \in Attempts, NEW outcome \in Outcomes, call' = End(a, outcome)
    PROVE  \E c \in Calls : /\ call' = [call EXCEPT ![a] = c]
                            /\ c.pc = "done" /\ c.outcome = outcome
<1> DEFINE c == [call[a] EXCEPT !.pc = "done", !.outcome = outcome]
<1>1. call' = [call EXCEPT ![a] = c]
  BY Zenon DEF End
<1>2. call[a] \in Calls
  BY DEF IInv, TypeOK
<1>3. c \in Calls /\ c.pc = "done" /\ c.outcome = outcome
  BY <1>2 DEF Calls
<1> HIDE DEF c
<1>4. QED
  BY <1>1, <1>3

LEMMA EscapeSeen ==
    ASSUME IInv, NEW a \in Attempts, Escape(a)
    PROVE  OneStep(a) /\ SentIsOut(a)' /\ \A b \in Attempts \ {a} : Same(b)
<1>1. call[a].pc \in Stages /\ call' = End(a, "escaped") /\ wire' = wire /\ orders' = orders
  BY DEF Escape, MayEscape, Stages
<1>2. PICK c \in Calls : call' = [call EXCEPT ![a] = c] /\ c.pc = "done" /\ c.outcome = "escaped"
  BY <1>1, EndFacts DEF Outcomes
<1>3. QED
  BY <1>1, <1>2, QuietStep

(* The call leaves the client with its order out: an answer or a failure.   *)
LEMMA ClientEnds ==
    ASSUME IInv, NEW a \in Attempts, call[a].pc = "sent", SentIsOut(a),
           NEW c \in Calls, call' = [call EXCEPT ![a] = c], c.pc = "done",
           orders' = orders, wire' \in [Attempts -> BOOLEAN],
           wire' = [wire EXCEPT ![a] = wire'[a]], wire'[a] \in {FALSE, wire[a]},
           \/ c.outcome = "ok" /\ orders[a] # NoOrder /\ wire'[a] = wire[a]
           \/ c.outcome = "error"
           \/ c.outcome = "crashed" /\ wire'[a] = wire[a]
    PROVE  OneStep(a) /\ SentIsOut(a)' /\ \A b \in Attempts \ {a} : Same(b)
<1>1. call'[a] = c /\ Taken(a)' = Taken(a) /\ \A b \in Attempts \ {a} : Same(b)
  BY DEF IInv, TypeOK, Same, Taken
<1>2. SubmissionStatus(a) = "open"
  BY DEF SubmissionStatus
<1>3. CASE c.outcome = "ok" /\ orders[a] # NoOrder /\ wire'[a] = wire[a]
  <2>1. SubmissionStatus(a)' = "ok" /\ Taken(a) = 1
    BY <1>1, <1>3 DEF SubmissionStatus, Taken
  <2>2. QED
    BY <1>1, <1>2, <1>3, <2>1 DEF OneStep, Seen, SentIsOut
<1>4. CASE c.outcome = "error" \/ (c.outcome = "crashed" /\ wire'[a] = wire[a])
  <2>1. SubmissionStatus(a)' = "failed"
    BY <1>1, <1>4 DEF SubmissionStatus, SentIsOut
  <2>2. Seen(a)' = <<"failed", wire'[a], Taken(a)>>
    BY <1>1, <2>1 DEF Seen
  <2>3. QED
    BY <1>1, <1>2, <2>2 DEF OneStep, SentIsOut
<1>5. QED
  BY <1>3, <1>4

LEMMA RespondSeen ==
    ASSUME IInv, NEW a \in Attempts, SentIsOut(a), Respond(a)
    PROVE  OneStep(a) /\ SentIsOut(a)' /\ \A b \in Attempts \ {a} : Same(b)
<1>1. /\ call[a].pc = "sent" /\ orders[a] # NoOrder /\ call' = End(a, "ok")
      /\ wire' = wire /\ orders' = orders
  BY DEF Respond
<1>2. PICK c \in Calls : call' = [call EXCEPT ![a] = c] /\ c.pc = "done" /\ c.outcome = "ok"
  BY <1>1, EndFacts DEF Outcomes
<1>3. wire' \in [Attempts -> BOOLEAN] /\ wire' = [wire EXCEPT ![a] = wire'[a]]
  BY <1>1 DEF IInv, TypeOK
<1>4. QED
  BY <1>1, <1>2, <1>3, ClientEnds

LEMMA FailSeen ==
    ASSUME IInv, NEW a \in Attempts, SentIsOut(a), Fail(a)
    PROVE  OneStep(a) /\ SentIsOut(a)' /\ \A b \in Attempts \ {a} : Same(b)
<1>1. call[a].pc = "sent" /\ call' = End(a, "error") /\ orders' = orders
  BY DEF Fail
<1>2. PICK c \in Calls : call' = [call EXCEPT ![a] = c] /\ c.pc = "done" /\ c.outcome = "error"
  BY <1>1, EndFacts DEF Outcomes
<1>3. PICK still \in {FALSE, wire[a]} : wire' = [wire EXCEPT ![a] = still]
  BY DEF Fail
<1>4. /\ wire' \in [Attempts -> BOOLEAN] /\ wire'[a] = still
      /\ wire' = [wire EXCEPT ![a] = wire'[a]]
  BY <1>3 DEF IInv, TypeOK
<1>5. QED
  BY <1>1, <1>2, <1>3, <1>4, ClientEnds

LEMMA CrashSeen ==
    ASSUME IInv, NEW a \in Attempts, SentIsOut(a), Crash(a)
    PROVE  OneStep(a) /\ SentIsOut(a)' /\ \A b \in Attempts \ {a} : Same(b)
<1>1. /\ call[a].pc \in Stages \cup {"sent"} /\ call' = End(a, "crashed")
      /\ wire' = wire /\ orders' = orders
  BY DEF Crash, Running
<1>2. PICK c \in Calls : call' = [call EXCEPT ![a] = c] /\ c.pc = "done" /\ c.outcome = "crashed"
  BY <1>1, EndFacts DEF Outcomes
<1>3. wire' \in [Attempts -> BOOLEAN] /\ wire' = [wire EXCEPT ![a] = wire'[a]]
  BY <1>1 DEF IInv, TypeOK
<1>4. QED
  BY <1>1, <1>2, <1>3, ClientEnds, QuietStep

LEMMA SubmitSeen ==
    ASSUME IInv, NEW a \in Attempts, Submit(a)
    PROVE  OneStep(a) /\ SentIsOut(a)' /\ \A b \in Attempts \ {a} : Same(b)
<1> DEFINE c == [call[a] EXCEPT !.pc = "sent"]
<1>1. call[a] \in Calls /\ call[a].pc \in Stages /\ orders' = orders
  BY DEF IInv, TypeOK, Submit, Stages
<1>2. call' = [call EXCEPT ![a] = c] /\ wire' = [wire EXCEPT ![a] = TRUE]
  BY Zenon DEF Submit
<1>3. c.pc = "sent"
  BY <1>1 DEF Calls
<1> HIDE DEF c
<1>4. /\ call'[a] = c /\ wire'[a] = TRUE /\ Taken(a)' = Taken(a)
      /\ \A b \in Attempts \ {a} : Same(b)
  BY <1>1, <1>2 DEF IInv, TypeOK, Same, Taken
<1>5. SubmissionStatus(a) = "idle" /\ SubmissionStatus(a)' = "open"
  BY <1>1, <1>3, <1>4, NothingOut DEF SubmissionStatus
<1>6. QED
  BY <1>4, <1>5 DEF OneStep, Seen, SentIsOut

(* The exchange takes the order of a call, whatever became of the call.     *)
LEMMA AcceptSeen ==
    ASSUME IInv, IInv', NEW a \in Attempts, Accept(a)
    PROVE  OneStep(a) /\ SentIsOut(a)' /\ \A b \in Attempts \ {a} : Same(b)
<1> DEFINE o == [side |-> call[a].req.side, count |-> call[a].req.count,
                 price |-> call[a].req.price, day |-> day, late |-> call[a].pc = "done",
                 amended |-> FALSE, cancelled |-> FALSE]
<1>1. /\ wire[a] /\ orders[a] = NoOrder /\ call' = call
      /\ wire' = [wire EXCEPT ![a] = FALSE]
  BY DEF Accept
<1>2. orders' = [orders EXCEPT ![a] = o]
  BY Zenon DEF Accept
<1>3. o # NoOrder
  <2>1. call[a].req \in Requests /\ day \in Nat
    BY DEF IInv, TypeOK, Calls
  <2>2. (call[a].pc = "done") \in BOOLEAN
    OBVIOUS
  <2>3. o \in Orders
    BY <2>1, <2>2, ExecutorAssumption DEF Orders
  <2>4. QED
    BY <2>3, ExecutorAssumption
<1> HIDE DEF o
<1>4. /\ orders'[a] # NoOrder /\ wire'[a] = FALSE
      /\ \A b \in Attempts \ {a} : Same(b)
  BY <1>1, <1>2, <1>3 DEF IInv, TypeOK, Same
<1>5. SubmissionStatus(a)' = SubmissionStatus(a)
  BY <1>1, <1>4 DEF SubmissionStatus
<1>6. QED
  BY <1>1, <1>4, <1>5 DEF OneStep, Seen, Taken, SentIsOut

LEMMA ModifySeen ==
    ASSUME IInv, NEW a \in Attempts, CancelOrder(a) \/ AmendOrder(a)
    PROVE  \A b \in Attempts : Same(b)
  BY DEF CancelOrder, AmendOrder, Modify, Same

(* A cancelled or amended order is still the order that was placed.         *)
LEMMA ApplyModSeen ==
    ASSUME IInv, IInv', NEW a \in Attempts, ApplyMod(a)
    PROVE  OneStep(a) /\ SentIsOut(a)' /\ \A b \in Attempts \ {a} : Same(b)
<1>1. mods[a] \in Mods /\ orders[a] # NoOrder /\ orders[a] \in Orders
  BY DEF IInv, TypeOK, SentOnly, ApplyMod
<1>2. call' = call /\ wire' = wire
  BY DEF ApplyMod
<1> DEFINE cancelled == [orders[a] EXCEPT !.cancelled = TRUE]
           amended == [orders[a] EXCEPT !.amended = TRUE, !.count = mods[a].count,
                                        !.price = mods[a].price]
<1>3. orders' \in {orders, [orders EXCEPT ![a] = cancelled], [orders EXCEPT ![a] = amended]}
  BY Zenon DEF ApplyMod
<1>4. cancelled \in Orders
  BY <1>1 DEF Orders
<1>5. amended \in Orders
  <2>1. mods[a].count \in Int /\ mods[a].price \in Int
    BY <1>1 DEF Mods
  <2>2. QED
    BY <1>1, <2>1 DEF Orders
<1> HIDE DEF cancelled, amended
<1>6. orders'[a] # NoOrder /\ \A b \in Attempts \ {a} : orders'[b] = orders[b]
  BY <1>1, <1>3, <1>4, <1>5, ExecutorAssumption DEF IInv, TypeOK
<1>7. Seen(a)' = Seen(a)
  BY <1>1, <1>2, <1>6 DEF Seen, SubmissionStatus, Taken
<1>8. QED
  BY <1>2, <1>6, <1>7 DEF OneStep, Same, SentIsOut

-----------------------------------------------------------------------------
(* The invariant with what a call at the client has out.                    *)
RInv == IInv /\ \A a \in Attempts : SentIsOut(a)

LEMMA InitRInv == Init => RInv /\ Submission!Init
<1> SUFFICES ASSUME Init PROVE RInv /\ Submission!Init
  OBVIOUS
<1>1. IInv
  BY InitIInv
<1>2. ASSUME NEW a \in Attempts
      PROVE  SentIsOut(a) /\ SubmissionStatus(a) = "idle"
  BY IdleIsACall DEF Init, SentIsOut, SubmissionStatus
<1>3. Submission!Init
  BY <1>2 DEF Init, Submission!Init
<1>4. QED
  BY <1>1, <1>2, <1>3 DEF RInv

LEMMA NextRInv == RInv /\ [Next]_vars => RInv' /\ [Submission!Next]_(Submission!vars)
<1> SUFFICES ASSUME RInv, [Next]_vars PROVE RInv' /\ [Submission!Next]_(Submission!vars)
  OBVIOUS
<1>1. IInv /\ IInv' /\ \A a \in Attempts : SentIsOut(a)
  BY Inductive DEF RInv
<1>2. ASSUME NEW b \in Attempts, Same(b)
      PROVE  SentIsOut(b)'
  BY <1>1, <1>2 DEF SentIsOut, Same
<1>3. ASSUME NEW a \in Attempts, OneStep(a), SentIsOut(a)', \A b \in Attempts \ {a} : Same(b)
      PROVE  RInv' /\ [Submission!Next]_(Submission!vars)
  BY <1>1, <1>2, <1>3, OneStepIsNext DEF RInv
<1>4. ASSUME \A b \in Attempts : Same(b)
      PROVE  RInv' /\ [Submission!Next]_(Submission!vars)
  <2>1. RInv'
    BY <1>1, <1>2, <1>4 DEF RInv
  <2>2. \A b \in Attempts : /\ SubmissionStatus(b)' = SubmissionStatus(b)
                            /\ (orders'[b] = NoOrder <=> orders[b] = NoOrder)
    BY <1>4 DEF Same, SubmissionStatus
  <2>3. wire' = wire
    BY <1>1, <1>4 DEF IInv, TypeOK, Same
  <2>4. UNCHANGED Submission!vars
    BY <2>2, <2>3 DEF Submission!vars
  <2>5. QED
    BY <2>1, <2>4
<1>5. CASE ToggleKillSwitch \/ Midnight \/ UNCHANGED vars
  <2>1. \A b \in Attempts : Same(b)
    BY <1>5 DEF ToggleKillSwitch, Midnight, vars, Same
  <2>2. QED
    BY <1>4, <2>1
<1>6. ASSUME NEW a \in Attempts, NEW r \in Requests, Begin(a, r)
      PROVE  RInv' /\ [Submission!Next]_(Submission!vars)
  BY <1>1, <1>3, <1>6, BeginSeen
<1>7. ASSUME NEW a \in Attempts, CallStep(a)
      PROVE  RInv' /\ [Submission!Next]_(Submission!vars)
  <2>1. CASE CheckLoss(a) \/ CheckSpend(a) \/ CheckPosition(a) \/ CheckBook(a) \/ CheckGrade(a)
    <3>1. PICK s \in Stages, t \in Stages, fails \in SUBSET FailureCodes : Advance(a, s, t, fails)
      BY <2>1, ProviderCheckAdvances
    <3>2. QED
      BY <1>1, <1>3, <3>1, AdvanceSeen
  <2>2. QED
    BY <1>1, <1>3, <1>7, <2>1, SyncChecksSeen, RefuseSeen, SubmitSeen, EscapeSeen, RespondSeen,
       FailSeen
    DEF CallStep
<1>8. ASSUME NEW a \in Attempts, Crash(a) \/ Accept(a) \/ ApplyMod(a)
      PROVE  RInv' /\ [Submission!Next]_(Submission!vars)
  BY <1>1, <1>3, <1>8, CrashSeen, AcceptSeen, ApplyModSeen
<1>9. ASSUME NEW a \in Attempts, CancelOrder(a) \/ AmendOrder(a)
      PROVE  RInv' /\ [Submission!Next]_(Submission!vars)
  BY <1>1, <1>4, <1>9, ModifySeen
<1>10. QED
  BY <1>5, <1>6, <1>7, <1>8, <1>9 DEF Next

(* create_order hands each order over once and believes the client only     *)
(* when it answers, through crashes, late acceptance and amendments.        *)
THEOREM ImplementsOrderSubmission == Spec => ImplementsSubmission
  BY InitRInv, NextRInv, PTL DEF Spec, ImplementsSubmission, Submission!Spec

-----------------------------------------------------------------------------
(* What is traced and how far the limits are overrun.                       *)

Out(a) == wire[a] \/ orders[a] # NoOrder

(* The events of a call whose order got out.                                *)
Traced(a) ==
    auditFailures = 0 /\ call[a].pc = "done" /\ Out(a) /\ call[a].outcome # "crashed" =>
        \E e \in auditLog : e.attempt = a /\ e.passed /\ e.day = call[a].now

-----------------------------------------------------------------------------
(* The steps of one call, as far as the limits are concerned.               *)
Starts(a) ==
    /\ call[a].pc = "idle" /\ Cardinality(Running) < MaxConcurrent
    /\ a \in LiveAttempts => call'[a].pc = "sync"
    /\ a \notin LiveAttempts => call'[a].pc = "done"

Syncs(a) ==
    /\ call[a].pc = "sync" /\ call'[a].pc = "loss" /\ call'[a].checkDay = day
    /\ call'[a].failures = call[a].failures \cup SyncFailures
    /\ UNCHANGED <<day, auditLog>>

Moves(a) ==
    /\ call[a].pc \in Stages \ {"sync"} /\ call'[a].pc \in (Stages \ {"sync"}) \cup {"sent"}
    /\ call[a].failures \subseteq call'[a].failures
    /\ call'[a].checkDay = call[a].checkDay
    /\ UNCHANGED auditLog

Ends(a) ==
    /\ call[a].pc \in Stages \cup {"sent"} /\ call'[a].pc = "done"
    /\ call[a].failures \subseteq call'[a].failures
    /\ call'[a].checkDay = call[a].checkDay
    /\ call[a].pc = "sync" => UNCHANGED auditLog

(* The log only grows, by events of the call that takes the step.           *)
LogGrows(a) ==
    \/ UNCHANGED auditLog
    \/ \E e \in Events : /\ e.attempt = a /\ (a \in LiveAttempts => e.mode = "live")
                         /\ auditLog' = auditLog \cup {e}

StepOf(a) ==
    /\ Starts(a) \/ Syncs(a) \/ Moves(a) \/ Ends(a)
    /\ LogGrows(a)
    /\ \A b \in Attempts \ {a} : call'[b] = call[b]

AllStay == UNCHANGED auditLog /\ \A b \in Attempts : call'[b] = call[b]

LEMMA AdvanceIsStep ==
    ASSUME IInv, NEW a \in Attempts, NEW s \in Stages \ {"sync"}, NEW t \in Stages \ {"sync"},
           NEW fails \in SUBSET FailureCodes, Advance(a, s, t, fails)
    PROVE  StepOf(a)
<1> DEFINE c == [call[a] EXCEPT !.pc = t, !.failures = call[a].failures \cup fails]
<1>1. call[a] \in Calls /\ call[a].pc = s /\ auditLog' = auditLog
  BY DEF IInv, TypeOK, Advance
<1>2. call' = [call EXCEPT ![a] = c]
  BY Zenon DEF Advance
<1>3. /\ c.pc = t /\ c.failures = call[a].failures \cup fails
      /\ c.checkDay = call[a].checkDay
  BY <1>1 DEF Calls
<1> HIDE DEF c
<1>4. call'[a] = c /\ \A b \in Attempts \ {a} : call'[b] = call[b]
  BY <1>2 DEF IInv, TypeOK
<1>5. Moves(a)
  BY <1>1, <1>3, <1>4 DEF Moves
<1>6. QED
  BY <1>1, <1>4, <1>5 DEF StepOf, LogGrows

LEMMA SyncChecksIsStep ==
    ASSUME IInv, NEW a \in Attempts, SyncChecks(a)
    PROVE  StepOf(a)
<1> DEFINE c == [call[a] EXCEPT !.pc = "loss", !.checkDay = day,
                                !.failures = call[a].failures \cup SyncFailures]
<1>1. call[a] \in Calls /\ call[a].pc = "sync" /\ auditLog' = auditLog /\ day' = day
  BY DEF IInv, TypeOK, SyncChecks, Environment
<1>2. call' = [call EXCEPT ![a] = c]
  BY Zenon DEF SyncChecks
<1>3. /\ c.pc = "loss" /\ c.failures = call[a].failures \cup SyncFailures
      /\ c.checkDay = day
  BY <1>1 DEF Calls
<1> HIDE DEF c
<1>4. call'[a] = c /\ \A b \in Attempts \ {a} : call'[b] = call[b]
  BY <1>2 DEF IInv, TypeOK
<1>5. Syncs(a)
  BY <1>1, <1>3, <1>4 DEF Syncs
<1>6. QED
  BY <1>1, <1>4, <1>5 DEF StepOf, LogGrows

LEMMA BeginIsStep ==
    ASSUME IInv, NEW a \in Attempts, NEW r \in Requests, Begin(a, r)
    PROVE  StepOf(a)
<1> DEFINE fails == CommonFailures(r)
           started == [Idle EXCEPT !.req = r, !.now = day, !.failures = fails]
           live == [started EXCEPT !.pc = "sync"]
           over == [started EXCEPT !.pc = "done",
                                   !.outcome = IF fails = {} THEN "simulated" ELSE "refused"]
           e == [attempt |-> a, mode |-> "dry_run", day |-> day,
                 passed |-> fails = {}, order |-> fails = {}]
<1>1. /\ call[a].pc = "idle" /\ day \in Nat /\ Cardinality(Running) < MaxConcurrent
  BY DEF IInv, TypeOK, Begin
<1>2. /\ a \in LiveAttempts => call' = [call EXCEPT ![a] = live] /\ auditLog' = auditLog
      /\ a \notin LiveAttempts => call' = [call EXCEPT ![a] = over] /\ WriteAudit(e)
  BY Zenon DEF Begin
<1>3. (fails = {}) \in BOOLEAN
  OBVIOUS
<1>4. e \in Events /\ e.attempt = a
  BY <1>1, <1>3 DEF Events
<1> HIDE DEF fails
<1>5. live.pc = "sync" /\ over.pc = "done"
  BY IdleIsACall DEF Calls
<1> HIDE DEF live, over, e
<1>6. /\ a \in LiveAttempts => call'[a] = live
      /\ a \notin LiveAttempts => call'[a] = over
      /\ \A b \in Attempts \ {a} : call'[b] = call[b]
  BY <1>2 DEF IInv, TypeOK
<1>7. LogGrows(a)
  BY <1>2, <1>4 DEF WriteAudit, LogGrows
<1>8. Starts(a)
  BY <1>1, <1>5, <1>6 DEF Starts
<1>9. QED
  BY <1>6, <1>7, <1>8 DEF StepOf

(* A record that ends a call, with the failures it had or more.             *)
LEMMA EndIsStep ==
    ASSUME IInv, NEW a \in Attempts, call[a].pc \in Stages \cup {"sent"},
           NEW c, call' = [call EXCEPT ![a] = c], c.pc = "done",
           call[a].failures \subseteq c.failures, c.checkDay = call[a].checkDay,
           LogGrows(a), call[a].pc = "sync" => UNCHANGED auditLog
    PROVE  StepOf(a)
<1>1. call'[a] = c /\ \A b \in Attempts \ {a} : call'[b] = call[b]
  BY DEF IInv, TypeOK
<1>2. Ends(a)
  BY <1>1 DEF Ends
<1>3. QED
  BY <1>1, <1>2 DEF StepOf

LEMMA EndKeeps ==
    ASSUME IInv, NEW a \in Attempts, NEW outcome, call' = End(a, outcome)
    PROVE  \E c : /\ call' = [call EXCEPT ![a] = c]
                  /\ c.pc = "done" /\ c.failures = call[a].failures
                  /\ c.checkDay = call[a].checkDay /\ c.now = call[a].now
                  /\ c.outcome = outcome
<1> DEFINE c == [call[a] EXCEPT !.pc = "done", !.outcome = outcome]
<1>1. call' = [call EXCEPT ![a] = c]
  BY Zenon DEF End
<1>2. call[a] \in Calls
  BY DEF IInv, TypeOK
<1>3. /\ c.pc = "done" /\ c.failures = call[a].failures /\ c.checkDay = call[a].checkDay
      /\ c.now = call[a].now /\ c.outcome = outcome
  BY <1>2 DEF Calls
<1> HIDE DEF c
<1>4. QED
  BY <1>1, <1>3

LEMMA AuditGrows ==
    ASSUME IInv, NEW a \in Attempts, NEW fails, NEW id \in BOOLEAN, WriteAudit(Event(a, fails, id))
    PROVE  LogGrows(a)
<1> DEFINE e == Event(a, fails, id)
<1>1. e \in Events /\ e.attempt = a /\ (a \in LiveAttempts => e.mode = "live")
  <2>1. a \in LiveAttempts => e.mode = "live"
    BY DEF Event
  <2>2. QED
    BY <2>1, EventFacts DEF IInv
<1>2. auditLog' = auditLog \cup {e} \/ auditLog' = auditLog
  BY DEF WriteAudit
<1> HIDE DEF e
<1>3. QED
  BY <1>1, <1>2 DEF LogGrows

LEMMA RefuseIsStep ==
    ASSUME IInv, NEW a \in Attempts, Refuse(a)
    PROVE  StepOf(a)
<1>1. PICK answer \in ConfirmAnswers :
         /\ call' = [call EXCEPT ![a] = [@ EXCEPT !.pc = "done",
                                                  !.failures = call[a].failures \cup answer,
                                                  !.outcome = "refused"]]
         /\ WriteAudit(Event(a, call[a].failures \cup answer, FALSE))
  BY DEF Refuse
<1> DEFINE c == [call[a] EXCEPT !.pc = "done", !.failures = call[a].failures \cup answer,
                                !.outcome = "refused"]
<1>2. call[a] \in Calls /\ call[a].pc = "confirm"
  BY DEF IInv, TypeOK, Refuse
<1>3. call' = [call EXCEPT ![a] = c]
  BY <1>1, Zenon
<1>4. /\ c.pc = "done" /\ call[a].failures \subseteq c.failures
      /\ c.checkDay = call[a].checkDay
  BY <1>2 DEF Calls
<1> HIDE DEF c
<1>5. LogGrows(a)
  BY <1>1, AuditGrows
<1>6. call[a].pc \in Stages /\ call[a].pc # "sync"
  BY <1>2 DEF Stages
<1>7. QED
  BY <1>3, <1>4, <1>5, <1>6, EndIsStep

LEMMA SubmitIsStep ==
    ASSUME IInv, NEW a \in Attempts, Submit(a)
    PROVE  StepOf(a)
<1> DEFINE c == [call[a] EXCEPT !.pc = "sent"]
<1>1. call[a] \in Calls /\ call[a].pc = "confirm" /\ auditLog' = auditLog
  BY DEF IInv, TypeOK, Submit
<1>2. call' = [call EXCEPT ![a] = c]
  BY Zenon DEF Submit
<1>3. c.pc = "sent" /\ c.failures = call[a].failures /\ c.checkDay = call[a].checkDay
  BY <1>1 DEF Calls
<1> HIDE DEF c
<1>4. call'[a] = c /\ \A b \in Attempts \ {a} : call'[b] = call[b]
  BY <1>2 DEF IInv, TypeOK
<1>5. Moves(a)
  BY <1>1, <1>3, <1>4 DEF Moves, Stages
<1>6. QED
  BY <1>1, <1>4, <1>5 DEF StepOf, LogGrows

LEMMA ClientEndIsStep ==
    ASSUME IInv, NEW a \in Attempts, Escape(a) \/ Crash(a) \/ Respond(a) \/ Fail(a)
    PROVE  StepOf(a)
<1>1. CASE Escape(a)
  <2>1. /\ call[a].pc \in Stages \ {"sync"} /\ auditLog' = auditLog /\ call' = End(a, "escaped")
    BY <1>1 DEF Escape, MayEscape, Stages
  <2>2. QED
    BY <2>1, EndKeeps, EndIsStep DEF LogGrows
<1>2. CASE Crash(a)
  <2>1. call[a].pc \in Stages \cup {"sent"} /\ auditLog' = auditLog /\ call' = End(a, "crashed")
    BY <1>2 DEF Crash, Running
  <2>2. QED
    BY <2>1, EndKeeps, EndIsStep DEF LogGrows
<1>3. CASE Respond(a)
  <2>1. call[a].pc = "sent" /\ call' = End(a, "ok") /\ LogGrows(a)
    BY <1>3, AuditGrows DEF Respond
  <2>2. QED
    BY <2>1, EndKeeps, EndIsStep
<1>4. CASE Fail(a)
  <2>1. call[a].pc = "sent" /\ call' = End(a, "error") /\ LogGrows(a)
    BY <1>4, AuditGrows DEF Fail
  <2>2. QED
    BY <2>1, EndKeeps, EndIsStep
<1>5. QED
  BY <1>1, <1>2, <1>3, <1>4

LEMMA NextIsStep ==
    ASSUME IInv, [Next]_vars
    PROVE  AllStay \/ \E a \in Attempts : StepOf(a)
<1>1. CASE ToggleKillSwitch \/ Midnight \/ UNCHANGED vars
  BY <1>1 DEF ToggleKillSwitch, Midnight, vars, AllStay
<1>2. ASSUME NEW a \in Attempts, NEW r \in Requests, Begin(a, r)
      PROVE  StepOf(a)
  BY <1>2, BeginIsStep
<1>3. ASSUME NEW a \in Attempts, CallStep(a)
      PROVE  StepOf(a)
  <2>1. CASE CheckLoss(a) \/ CheckSpend(a) \/ CheckPosition(a) \/ CheckBook(a) \/ CheckGrade(a)
    BY <2>1, ProviderCheckAdvances, AdvanceIsStep
  <2>2. QED
    BY <1>3, <2>1, SyncChecksIsStep, RefuseIsStep, SubmitIsStep, ClientEndIsStep DEF CallStep
<1>4. ASSUME NEW a \in Attempts, Crash(a)
      PROVE  StepOf(a)
  BY <1>4, ClientEndIsStep
<1>5. ASSUME NEW a \in Attempts, Accept(a) \/ CancelOrder(a) \/ AmendOrder(a) \/ ApplyMod(a)
      PROVE  AllStay
  BY <1>5 DEF Accept, CancelOrder, AmendOrder, Modify, ApplyMod, AllStay
<1>6. QED
  BY <1>1, <1>2, <1>3, <1>4, <1>5 DEF Next

-----------------------------------------------------------------------------
(* Only so many calls run at a time, finitely many ever started, and the    *)
(* events of live calls are live events.                                    *)
Begun == {a \in Attempts : call[a].pc # "idle"}

Overlap ==
    /\ IsFiniteSet(Running) /\ Cardinality(Running) <= MaxConcurrent
    /\ IsFiniteSet(auditLog) /\ IsFiniteSet(Begun)
    /\ \A e \in auditLog : e.attempt \in LiveAttempts => e.mode = "live"

LEMMA InitOverlap == Init => Overlap
<1> SUFFICES ASSUME Init PROVE Overlap
  OBVIOUS
<1>1. Running = {} /\ auditLog = {} /\ Begun = {}
  BY IdleIsACall DEF Init, Running, Begun, Stages
<1>2. QED
  BY <1>1, FS_EmptySet, ExecutorAssumption DEF Overlap

LEMMA NextOverlap == IInv /\ Overlap /\ [Next]_vars => Overlap'
<1> SUFFICES ASSUME IInv, Overlap, [Next]_vars PROVE Overlap'
  OBVIOUS
<1>1. MaxConcurrent \in Nat /\ Cardinality(Running) \in Nat
  BY ExecutorAssumption, FS_CardinalityType DEF Overlap
<1>2. CASE AllStay
  <2>1. Running' = Running /\ auditLog' = auditLog /\ Begun' = Begun
    BY <1>2 DEF AllStay, Running, Begun
  <2>2. QED
    BY <2>1 DEF Overlap
<1>3. ASSUME NEW a \in Attempts, StepOf(a)
      PROVE  Overlap'
  <2>1. /\ IsFiniteSet(auditLog') /\ IsFiniteSet(Begun')
        /\ \A e \in auditLog' : e.attempt \in LiveAttempts => e.mode = "live"
    <3>1. ASSUME UNCHANGED auditLog
          PROVE  /\ IsFiniteSet(auditLog')
                 /\ \A e \in auditLog' : e.attempt \in LiveAttempts => e.mode = "live"
      BY <3>1 DEF Overlap
    <3>2. ASSUME NEW e \in Events, e.attempt = a, a \in LiveAttempts => e.mode = "live",
                 auditLog' = auditLog \cup {e}
          PROVE  /\ IsFiniteSet(auditLog')
                 /\ \A f \in auditLog' : f.attempt \in LiveAttempts => f.mode = "live"
      <4>1. IsFiniteSet(auditLog \cup {e})
        BY FS_AddElement DEF Overlap
      <4>2. QED
        BY <3>2, <4>1 DEF Overlap
    <3>3. Begun' \in SUBSET (Begun \cup {a})
      BY <1>3 DEF StepOf, Begun
    <3>4. IsFiniteSet(Begun \cup {a})
      BY FS_AddElement DEF Overlap
    <3>5. IsFiniteSet(Begun')
      BY <3>3, <3>4, FS_Subset
    <3>6. /\ IsFiniteSet(auditLog')
          /\ \A e \in auditLog' : e.attempt \in LiveAttempts => e.mode = "live"
      <4>1. LogGrows(a)
        BY <1>3 DEF StepOf
      <4>2. QED
        BY <3>1, <3>2, <4>1, Zenon DEF LogGrows
    <3>7. QED
      BY <3>5, <3>6
  <2>2. \A b \in Attempts \ {a} : b \in Running' <=> b \in Running
    BY <1>3 DEF StepOf, Running
  <2>3. CASE Starts(a)
    <3>1. Cardinality(Running) < MaxConcurrent
      BY <2>3 DEF Starts
    <3>2. Running' \in SUBSET (Running \cup {a})
      BY <2>2 DEF Running
    <3>3. /\ IsFiniteSet(Running \cup {a})
          /\ Cardinality(Running \cup {a}) \in Nat
          /\ Cardinality(Running \cup {a}) <= Cardinality(Running) + 1
      <4> DEFINE R == Running
      <4>1. IsFiniteSet(R) /\ Cardinality(R) \in Nat
        BY <1>1 DEF Overlap
      <4> HIDE DEF R
      <4>2. /\ IsFiniteSet(R \cup {a})
            /\ Cardinality(R \cup {a}) = IF a \in R THEN Cardinality(R) ELSE Cardinality(R) + 1
        BY <4>1, FS_AddElement
      <4>3. Cardinality(R \cup {a}) \in Nat /\ Cardinality(R \cup {a}) <= Cardinality(R) + 1
        BY <4>1, <4>2
      <4>4. QED
        BY <4>2, <4>3 DEF R
    <3>4. /\ IsFiniteSet(Running') /\ Cardinality(Running') \in Nat
          /\ Cardinality(Running') <= Cardinality(Running \cup {a})
      BY <3>2, <3>3, FS_Subset, FS_CardinalityType
    <3>5. QED
      BY <1>1, <2>1, <3>1, <3>3, <3>4 DEF Overlap
  <2>4. CASE Syncs(a) \/ Moves(a) \/ Ends(a)
    <3>1. a \in Running
      BY <2>4 DEF Syncs, Moves, Ends, Running, Stages
    <3>2. Running' \in SUBSET Running
      BY <2>2, <3>1 DEF Running
    <3>3. /\ IsFiniteSet(Running') /\ Cardinality(Running') \in Nat
          /\ Cardinality(Running') <= Cardinality(Running)
      BY <3>2, FS_Subset, FS_CardinalityType DEF Overlap
    <3>4. QED
      BY <1>1, <2>1, <3>3 DEF Overlap
  <2>5. QED
    BY <1>3, <2>3, <2>4 DEF StepOf
<1>4. QED
  BY <1>2, <1>3, NextIsStep

-----------------------------------------------------------------------------
(* The orders the limit of day d has let pass and not lost sight of.        *)
LiveEvents(d) == {e \in auditLog : e.mode = "live" /\ e.day = d}

Counted(d) ==
    {a \in Attempts \cap LiveAttempts :
        /\ call[a].pc \notin {"idle", "sync"}
        /\ call[a].failures = {} /\ call[a].checkDay = d
        /\ call[a].pc = "done" => \E e \in LiveEvents(d) : e.attempt = a}

DayKept(d) ==
    IsFiniteSet(Counted(d)) /\ Cardinality(Counted(d)) <= MaxOrdersPerDay + (MaxConcurrent - 1)

DaysKept == MaxOrdersPerDay > 0 => \A d \in Nat : DayKept(d)

(* The calls that own an event are no more than the events.                 *)
LEMMA OwnersBounded ==
    ASSUME IInv, Overlap, NEW d
    PROVE  LET owners == {e.attempt : e \in LiveEvents(d)}
           IN  /\ IsFiniteSet(owners) /\ IsFiniteSet(LiveEvents(d))
               /\ Cardinality(owners) <= Cardinality(LiveEvents(d))
<1> DEFINE owners == {e.attempt : e \in LiveEvents(d)}
           f == [e \in LiveEvents(d) |-> e.attempt]
<1>1. IsFiniteSet(LiveEvents(d))
  BY FS_Subset DEF Overlap, LiveEvents
<1>2. f \in Surjection(LiveEvents(d), owners)
  BY DEF Surjection
<1>3. QED
  BY <1>1, <1>2, FS_Surjection

(* Only the synchronous checks make a call count.                           *)
LEMMA CountedShrinks ==
    ASSUME IInv, NEW a \in Attempts, StepOf(a), NEW d, ~(Syncs(a) /\ day = d)
    PROVE  Counted(d)' \subseteq Counted(d)
<1> SUFFICES ASSUME NEW b \in Counted(d)'
             PROVE  b \in Counted(d)
  OBVIOUS
<1>1. /\ b \in Attempts \cap LiveAttempts
      /\ call'[b].pc \notin {"idle", "sync"}
      /\ call'[b].failures = {} /\ call'[b].checkDay = d
      /\ call'[b].pc = "done" => \E e \in LiveEvents(d)' : e.attempt = b
  BY DEF Counted
<1>2. CASE b # a
  <2>1. call'[b] = call[b]
    BY <1>1, <1>2 DEF StepOf
  <2>2. \A e \in LiveEvents(d)' : e.attempt = b => e \in LiveEvents(d)
    BY <1>2 DEF StepOf, LogGrows, LiveEvents
  <2>3. QED
    BY <1>1, <2>1, <2>2 DEF Counted
<1>3. CASE b = a
  <2>1. ~Starts(a)
    BY <1>1, <1>3 DEF Starts, StepOf
  <2>2. ~Syncs(a)
    BY <1>1, <1>3 DEF Syncs
  <2>3. CASE Moves(a)
    BY <1>1, <1>3, <2>3 DEF Moves, Counted, Stages
  <2>4. CASE Ends(a)
    <3>1. call[a].pc # "sync"
      <4>1. call[a].pc = "sync" => LiveEvents(d)' = LiveEvents(d)
        BY <2>4 DEF Ends, LiveEvents
      <4>2. call[a].pc = "sync" => ~\E e \in LiveEvents(d) : e.attempt = a
        BY DEF IInv, LogInv, LiveEvents
      <4>3. QED
        BY <1>1, <1>3, <2>4, <4>1, <4>2 DEF Ends
    <3>2. QED
      BY <1>1, <1>3, <2>4, <3>1 DEF Ends, Counted, Stages
  <2>5. QED
    BY <2>1, <2>2, <2>3, <2>4 DEF StepOf
<1>4. QED
  BY <1>2, <1>3

(* At the moment of the check: fewer events than the limit, and the calls   *)
(* that are running.                                                        *)
LEMMA CheckedDay ==
    ASSUME IInv, Overlap, Overlap', MaxOrdersPerDay > 0, DayKept(day),
           call' \in [Attempts -> Calls], NEW a \in Attempts, StepOf(a), Syncs(a)
    PROVE  DayKept(day)'
<1>1. /\ MaxOrdersPerDay \in Int /\ MaxConcurrent \in Nat \ {0} /\ day' = day
      /\ auditLog' = auditLog
  BY ExecutorAssumption DEF Syncs
<1>2. CASE LiveOrdersOn(day) >= MaxOrdersPerDay
  <2>1. call'[a].failures # {}
    BY <1>2 DEF Syncs, SyncFailures
  <2>2. Counted(day)' \in SUBSET Counted(day)
    <3> SUFFICES ASSUME NEW b \in Counted(day)'
                 PROVE  b \in Counted(day)
      OBVIOUS
    <3>1. b # a
      BY <2>1 DEF Counted
    <3>2. call'[b] = call[b] /\ b \in Attempts
      BY <3>1 DEF StepOf, Counted
    <3>3. QED
      BY <1>1, <3>2 DEF Counted, LiveEvents
  <2>3. QED
    BY <1>1, <2>2, FS_Subset, FS_CardinalityType DEF DayKept
<1>3. CASE ~(LiveOrdersOn(day) >= MaxOrdersPerDay)
  <2> DEFINE owners == {e.attempt : e \in LiveEvents(day)}
  <2>1. /\ IsFiniteSet(owners) /\ Cardinality(owners) \in Nat
        /\ Cardinality(LiveEvents(day)) \in Nat
        /\ Cardinality(owners) <= Cardinality(LiveEvents(day))
    BY OwnersBounded, FS_CardinalityType
  <2>2. Cardinality(LiveEvents(day)) = LiveOrdersOn(day)
    BY DEF LiveOrdersOn, LiveEvents
  <2>3. Cardinality(owners) <= MaxOrdersPerDay - 1
    BY <1>1, <1>3, <2>1, <2>2
  <2>4. /\ IsFiniteSet(Running') /\ Cardinality(Running') <= MaxConcurrent
        /\ Cardinality(Running') \in Nat
    BY FS_CardinalityType DEF Overlap
  <2>5. LiveEvents(day)' = LiveEvents(day)
    BY <1>1 DEF LiveEvents
  <2>6. Counted(day)' \in SUBSET (Running' \cup owners)
    <3> SUFFICES ASSUME NEW b \in Counted(day)'
                 PROVE  b \in Running' \cup owners
      OBVIOUS
    <3>1. b \in Attempts /\ call'[b] \in Calls
      BY DEF Counted
    <3>2. call'[b].pc = "done" => b \in owners
      BY <2>5 DEF Counted
    <3>3. call'[b].pc \notin {"idle", "done"} => b \in Running'
      BY <3>1 DEF Running, Calls
    <3>4. call'[b].pc # "idle"
      BY DEF Counted
    <3>5. QED
      BY <3>2, <3>3, <3>4
  <2> HIDE DEF owners
  <2>7. /\ IsFiniteSet(Running' \cup owners)
        /\ Cardinality(Running' \cup owners)
              = Cardinality(Running') + Cardinality(owners) - Cardinality(Running' \cap owners)
    BY <2>1, <2>4, FS_Union
  <2>8. Cardinality(Running' \cap owners) \in Nat
    <3>1. IsFiniteSet(Running' \cap owners)
      BY <2>1, FS_Subset
    <3>2. QED
      BY <3>1, FS_CardinalityType
  <2>9. /\ IsFiniteSet(Counted(day)') /\ Cardinality(Counted(day)') \in Nat
        /\ Cardinality(Counted(day)') <= Cardinality(Running' \cup owners)
    BY <2>6, <2>7, FS_Subset, FS_CardinalityType
  <2>10. Cardinality(Counted(day)') <= MaxOrdersPerDay + (MaxConcurrent - 1)
    BY <1>1, <2>1, <2>3, <2>4, <2>7, <2>8, <2>9
  <2>11. QED
    BY <1>1, <2>9, <2>10 DEF DayKept, Counted
<1>4. QED
  BY <1>2, <1>3

LEMMA InitDays == Init => DaysKept
<1> SUFFICES ASSUME Init, MaxOrdersPerDay > 0, NEW d \in Nat
             PROVE  DayKept(d)
  BY DEF DaysKept
<1>1. Counted(d) = {}
  BY IdleIsACall DEF Init, Counted
<1>2. IsFiniteSet(Counted(d)) /\ Cardinality(Counted(d)) = 0
  BY <1>1, FS_EmptySet
<1>3. QED
  BY <1>2, ExecutorAssumption DEF DayKept

LEMMA NextDays == IInv /\ IInv' /\ Overlap /\ Overlap' /\ DaysKept /\ [Next]_vars => DaysKept'
<1> SUFFICES ASSUME IInv, IInv', Overlap, Overlap', DaysKept, [Next]_vars,
                    MaxOrdersPerDay > 0, NEW d \in Nat
             PROVE  (DayKept(d))'
  BY DEF DaysKept
<1>1. DayKept(d) /\ MaxOrdersPerDay \in Int /\ MaxConcurrent \in Nat
  BY ExecutorAssumption DEF DaysKept
<1>2. ASSUME Counted(d)' \subseteq Counted(d)
      PROVE  (DayKept(d))'
  <2>1. Counted(d)' \in SUBSET Counted(d)
    BY <1>2
  <2>2. IsFiniteSet(Counted(d)) /\ Cardinality(Counted(d)) \in Nat
    BY <1>1, FS_CardinalityType DEF DayKept
  <2>3. /\ IsFiniteSet(Counted(d)') /\ Cardinality(Counted(d)') \in Nat
        /\ Cardinality(Counted(d)') <= Cardinality(Counted(d))
    BY <2>1, <2>2, FS_Subset, FS_CardinalityType
  <2>4. QED
    BY <1>1, <2>2, <2>3 DEF DayKept
<1>3. CASE AllStay
  <2>1. Counted(d)' \subseteq Counted(d)
    BY <1>3 DEF AllStay, Counted, LiveEvents
  <2>2. QED
    BY <1>2, <2>1
<1>4. ASSUME NEW a \in Attempts, StepOf(a)
      PROVE  (DayKept(d))'
  <2>1. CASE ~(Syncs(a) /\ day = d)
    BY <1>2, <1>4, <2>1, CountedShrinks
  <2>2. CASE Syncs(a) /\ day = d
    <3>1. DayKept(day)'
      BY <1>1, <1>4, <2>2, CheckedDay DEF IInv, TypeOK
    <3>2. day' = d
      BY <2>2 DEF Syncs
    <3>3. QED
      BY <3>1, <3>2 DEF DayKept, Counted, LiveEvents
  <2>3. QED
    BY <2>1, <2>2
<1>5. QED
  BY <1>3, <1>4, NextIsStep

-----------------------------------------------------------------------------
(* The calls that may still hand over an order the kill switch does not     *)
(* stop: they were checked and found in order.                              *)
Past == {a \in Attempts : call[a].pc \in Stages \ {"sync"} /\ call[a].failures = {}}

Leak ==
    /\ IsFiniteSet(Past)
    /\ ~killSwitch => sinceKill = 0
    /\ killSwitch => sinceKill + Cardinality(Past) <= MaxConcurrent

LEMMA InitLeak == Init => Leak
<1> SUFFICES ASSUME Init PROVE Leak
  OBVIOUS
<1>1. Past = {}
  BY IdleIsACall DEF Init, Past, Stages
<1>2. QED
  BY <1>1, FS_EmptySet DEF Init, Leak

LEMMA PastRuns ==
    ASSUME Overlap
    PROVE  /\ IsFiniteSet(Past) /\ Cardinality(Past) \in Nat
           /\ Cardinality(Past) <= MaxConcurrent
<1>1. Past \in SUBSET Running
  BY DEF Past, Running
<1>2. /\ IsFiniteSet(Past) /\ Cardinality(Past) \in Nat /\ Cardinality(Running) \in Nat
      /\ Cardinality(Past) <= Cardinality(Running)
  BY <1>1, FS_Subset, FS_CardinalityType DEF Overlap
<1>3. QED
  BY <1>2, ExecutorAssumption DEF Overlap

LEMMA PastRunsNext ==
    ASSUME Overlap'
    PROVE  /\ IsFiniteSet(Past') /\ Cardinality(Past') \in Nat
           /\ Cardinality(Past') <= MaxConcurrent
<1>1. Past' \in SUBSET Running'
  BY DEF Past, Running
<1>2. /\ IsFiniteSet(Past') /\ Cardinality(Past') \in Nat /\ Cardinality(Running') \in Nat
      /\ Cardinality(Past') <= Cardinality(Running')
  BY <1>1, FS_Subset, FS_CardinalityType DEF Overlap
<1>3. QED
  BY <1>2, ExecutorAssumption DEF Overlap

(* While the switch is on, nobody new gets past the check.                  *)
LEMMA PastShrinks ==
    ASSUME IInv, killSwitch, AllStay \/ \E a \in Attempts : StepOf(a)
    PROVE  Past' \subseteq Past
<1>1. CASE AllStay
  BY <1>1 DEF AllStay, Past
<1>2. ASSUME NEW a \in Attempts, StepOf(a), NEW b \in Past'
      PROVE  b \in Past
  <2>1. CASE b # a
    BY <1>2, <2>1 DEF StepOf, Past
  <2>2. CASE b = a
    <3>1. ~Starts(a) /\ ~Ends(a)
      BY <1>2, <2>2 DEF Starts, Ends, Past, Stages, StepOf
    <3>2. Syncs(a) => "kill_switch_enabled" \in call'[a].failures
      BY DEF Syncs, SyncFailures
    <3>3. ~Syncs(a)
      BY <1>2, <2>2, <3>2 DEF Past
    <3>4. Moves(a)
      BY <1>2, <3>1, <3>3 DEF StepOf
    <3>5. QED
      BY <1>2, <2>2, <3>4 DEF Moves, Past
  <2>3. QED
    BY <2>1, <2>2
<1>3. QED
  BY <1>1, <1>2

LEMMA NextLeak == IInv /\ Overlap /\ Overlap' /\ Leak /\ [Next]_vars => Leak'
<1> SUFFICES ASSUME IInv, Overlap, Overlap', Leak, [Next]_vars PROVE Leak'
  OBVIOUS
<1>1. /\ IsFiniteSet(Past') /\ Cardinality(Past') \in Nat
      /\ Cardinality(Past') <= MaxConcurrent
      /\ IsFiniteSet(Past) /\ Cardinality(Past) \in Nat
      /\ MaxConcurrent \in Nat /\ sinceKill \in Nat /\ killSwitch \in BOOLEAN
  BY PastRuns, PastRunsNext, ExecutorAssumption DEF IInv, TypeOK
<1>2. CASE ToggleKillSwitch
  BY <1>1, <1>2 DEF ToggleKillSwitch, Leak
<1>3. ASSUME NEW a \in Attempts, Submit(a)
      PROVE  Leak'
  <2>1. killSwitch' = killSwitch /\ sinceKill' = IF killSwitch THEN sinceKill + 1 ELSE sinceKill
    BY <1>3 DEF Submit, Environment
  <2>2. CASE killSwitch
    <3>1. Past' \subseteq Past
      BY <1>3, <2>2, PastShrinks, SubmitIsStep
    <3>2. a \in Past
      BY <1>3 DEF Submit, Past, Stages
    <3>3. a \notin Past'
      <4>1. call'[a].pc = "sent"
        BY <1>3 DEF Submit, IInv, TypeOK, Calls
      <4>2. QED
        BY <4>1 DEF Past, Stages
    <3>4. Past' \in SUBSET (Past \ {a})
      BY <3>1, <3>3
    <3>5. IsFiniteSet(Past \ {a}) /\ Cardinality(Past \ {a}) = Cardinality(Past) - 1
      BY <1>1, <3>2, FS_RemoveElement
    <3>6. Cardinality(Past') <= Cardinality(Past \ {a})
      BY <3>4, <3>5, FS_Subset
    <3>7. QED
      BY <1>1, <2>1, <2>2, <3>5, <3>6 DEF Leak
  <2>3. CASE ~killSwitch
    BY <1>1, <2>1, <2>3 DEF Leak
  <2>4. QED
    BY <1>1, <2>2, <2>3
<1>4. CASE killSwitch' = killSwitch /\ sinceKill' = sinceKill
  <2>1. CASE killSwitch
    <3>1. Past' \in SUBSET Past
      BY <2>1, NextIsStep, PastShrinks
    <3>2. Cardinality(Past') <= Cardinality(Past)
      BY <1>1, <3>1, FS_Subset
    <3>3. QED
      BY <1>1, <1>4, <2>1, <3>2 DEF Leak
  <2>2. CASE ~killSwitch
    BY <1>1, <1>4, <2>2 DEF Leak
  <2>3. QED
    BY <1>1, <2>1, <2>2
<1>5. ASSUME NEW a \in Attempts, CallStep(a), ~Submit(a)
      PROVE  killSwitch' = killSwitch /\ sinceKill' = sinceKill
  <2>1. CASE CheckLoss(a) \/ CheckSpend(a) \/ CheckPosition(a) \/ CheckBook(a) \/ CheckGrade(a)
    BY <2>1, ProviderCheckAdvances DEF Advance, Environment
  <2>2. CASE SyncChecks(a) \/ Refuse(a) \/ Escape(a) \/ Respond(a) \/ Fail(a)
    BY <2>2 DEF SyncChecks, Refuse, Escape, Respond, Fail, Environment
  <2>3. QED
    BY <1>5, <2>1, <2>2 DEF CallStep
<1>6. ASSUME NEW a \in Attempts,
             (\E r \in Requests : Begin(a, r)) \/ Crash(a) \/ Accept(a) \/ CancelOrder(a)
                \/ AmendOrder(a) \/ ApplyMod(a)
      PROVE  killSwitch' = killSwitch /\ sinceKill' = sinceKill
  BY <1>6 DEF Begin, Crash, Accept, CancelOrder, AmendOrder, Modify, ApplyMod, Environment
<1>7. Midnight \/ UNCHANGED vars => killSwitch' = killSwitch /\ sinceKill' = sinceKill
  BY DEF Midnight, vars
<1>8. QED
  BY <1>2, <1>3, <1>4, <1>5, <1>6, <1>7 DEF Next

-----------------------------------------------------------------------------
(* The orders that got out have their events.                               *)
TracesKept == \A a \in Attempts : Traced(a)

(* Nothing of the call is out before it is handed to the client.            *)
LEMMA InsideNothingOut ==
    ASSUME IInv, NEW a \in Attempts, call[a].pc \in Stages \cup {"idle"}
    PROVE  ~Out(a)
<1>1. call[a].pc \notin {"sent", "done"}
  BY DEF Stages
<1>2. QED
  BY <1>1 DEF IInv, SentOnly, Out

(* A call that stays keeps its trace: the log grows, failures of its writes *)
(* are never forgotten.                                                     *)
LEMMA TraceStays ==
    ASSUME NEW b, Traced(b), call'[b] = call[b], Out(b)' => Out(b),
           auditLog \subseteq auditLog', auditFailures' = 0 => auditFailures = 0
    PROVE  Traced(b)'
  BY DEF Traced

LEMMA LogIsKept ==
    ASSUME IInv, [Next]_vars
    PROVE  auditLog \subseteq auditLog' /\ (auditFailures' = 0 => auditFailures = 0)
<1>1. auditFailures \in Nat
  BY DEF IInv, TypeOK
<1>2. ASSUME NEW e, WriteAudit(e)
      PROVE  auditLog \subseteq auditLog' /\ (auditFailures' = 0 => auditFailures = 0)
  BY <1>1, <1>2 DEF WriteAudit
<1>3. ASSUME NEW a \in Attempts, NEW r \in Requests, Begin(a, r)
      PROVE  auditLog \subseteq auditLog' /\ (auditFailures' = 0 => auditFailures = 0)
  BY <1>2, <1>3 DEF Begin
<1>4. ASSUME NEW a \in Attempts, CallStep(a)
      PROVE  auditLog \subseteq auditLog' /\ (auditFailures' = 0 => auditFailures = 0)
  <2>1. CASE CheckLoss(a) \/ CheckSpend(a) \/ CheckPosition(a) \/ CheckBook(a) \/ CheckGrade(a)
    BY <2>1, ProviderCheckAdvances DEF Advance
  <2>2. CASE SyncChecks(a) \/ Submit(a) \/ Escape(a)
    BY <2>2 DEF SyncChecks, Submit, Escape
  <2>3. CASE Refuse(a) \/ Respond(a) \/ Fail(a)
    BY <1>2, <2>3 DEF Refuse, Respond, Fail
  <2>4. QED
    BY <1>4, <2>1, <2>2, <2>3 DEF CallStep
<1>5. ASSUME NEW a \in Attempts, Crash(a) \/ Accept(a) \/ CancelOrder(a) \/ AmendOrder(a)
                                  \/ ApplyMod(a)
      PROVE  auditLog \subseteq auditLog' /\ (auditFailures' = 0 => auditFailures = 0)
  BY <1>5 DEF Crash, Accept, CancelOrder, AmendOrder, Modify, ApplyMod
<1>6. CASE ToggleKillSwitch \/ Midnight \/ UNCHANGED vars
  BY <1>6 DEF ToggleKillSwitch, Midnight, vars
<1>7. QED
  BY <1>3, <1>4, <1>5, <1>6 DEF Next

(* The answer of the client, or its failure, is written with the event.     *)
LEMMA ClientEndTraced ==
    ASSUME IInv, NEW a \in Attempts, NEW id \in BOOLEAN, NEW outcome, call' = End(a, outcome),
           WriteAudit(Event(a, {}, id))
    PROVE  Traced(a)'
<1> DEFINE e == Event(a, {}, id)
<1>1. e.attempt = a /\ e.passed /\ e.day = call[a].now
  BY DEF Event
<1>2. auditLog' = auditLog \cup {e} \/ auditFailures' = auditFailures + 1
  BY DEF WriteAudit
<1> HIDE DEF e
<1>3. call'[a].now = call[a].now
  BY EndKeeps DEF IInv, TypeOK
<1>4. auditFailures \in Nat
  BY DEF IInv, TypeOK
<1>5. auditFailures' = 0 => e \in auditLog'
  BY <1>2, <1>4
<1>6. QED
  BY <1>1, <1>3, <1>5 DEF Traced

LEMMA NextTraces == IInv /\ TracesKept /\ [Next]_vars => TracesKept'
<1> SUFFICES ASSUME IInv, TracesKept, [Next]_vars PROVE TracesKept'
  OBVIOUS
<1>1. auditLog \subseteq auditLog' /\ (auditFailures' = 0 => auditFailures = 0)
  BY LogIsKept
<1>2. ASSUME \A b \in Attempts : call'[b] = call[b] /\ (Out(b)' => Out(b))
      PROVE  TracesKept'
  BY <1>1, <1>2, TraceStays DEF TracesKept
<1>3. ASSUME NEW a \in Attempts, StepOf(a), Traced(a)',
             \A b \in Attempts \ {a} : Out(b)' => Out(b)
      PROVE  TracesKept'
  BY <1>1, <1>3, TraceStays DEF TracesKept, StepOf
<1>4. ASSUME NEW a \in Attempts, StepOf(a), call[a].pc \in Stages \cup {"idle"},
             wire' = wire, orders' = orders
      PROVE  TracesKept'
  <2>1. ~Out(a)' /\ \A b \in Attempts \ {a} : Out(b)' => Out(b)
    BY <1>4, InsideNothingOut DEF Out
  <2>2. Traced(a)'
    BY <2>1 DEF Traced
  <2>3. QED
    BY <1>3, <1>4, <2>1, <2>2
<1>5. CASE ToggleKillSwitch \/ Midnight \/ UNCHANGED vars
  BY <1>2, <1>5 DEF ToggleKillSwitch, Midnight, vars, Out
<1>6. ASSUME NEW a \in Attempts, NEW r \in Requests, Begin(a, r)
      PROVE  TracesKept'
  BY <1>4, <1>6, BeginIsStep DEF Begin
<1>7. ASSUME NEW a \in Attempts, CallStep(a)
      PROVE  TracesKept'
  <2>1. CASE CheckLoss(a) \/ CheckSpend(a) \/ CheckPosition(a) \/ CheckBook(a) \/ CheckGrade(a)
    <3>1. PICK s \in Stages \ {"sync"}, t \in Stages \ {"sync"}, fails \in SUBSET FailureCodes :
             Advance(a, s, t, fails)
      BY <2>1, ProviderCheckAdvances
    <3>2. QED
      BY <1>4, <3>1, AdvanceIsStep DEF Advance
  <2>2. CASE SyncChecks(a)
    BY <1>4, <2>2, SyncChecksIsStep DEF SyncChecks, Stages
  <2>3. CASE Refuse(a)
    BY <1>4, <2>3, RefuseIsStep DEF Refuse, Stages
  <2>4. CASE Escape(a)
    BY <1>4, <2>4, ClientEndIsStep DEF Escape, MayEscape, Stages
  <2>5. CASE Submit(a)
    <3>1. call'[a].pc = "sent"
      BY <2>5 DEF Submit, IInv, TypeOK, Calls
    <3>2. \A b \in Attempts \ {a} : Out(b)' => Out(b)
      BY <2>5 DEF Submit, IInv, TypeOK, Out
    <3>3. QED
      BY <1>3, <2>5, <3>1, <3>2, SubmitIsStep DEF Traced
  <2>6. CASE Respond(a)
    <3>1. Traced(a)' /\ \A b \in Attempts \ {a} : Out(b)' => Out(b)
      BY <2>6, ClientEndTraced DEF Respond, Out
    <3>2. QED
      BY <1>3, <2>6, <3>1, ClientEndIsStep
  <2>7. CASE Fail(a)
    <3>1. Traced(a)'
      BY <2>7, ClientEndTraced DEF Fail
    <3>2. \A b \in Attempts \ {a} : Out(b)' => Out(b)
      BY <2>7 DEF Fail, IInv, TypeOK, Out
    <3>3. QED
      BY <1>3, <2>7, <3>1, <3>2, ClientEndIsStep
  <2>8. QED
    BY <1>7, <2>1, <2>2, <2>3, <2>4, <2>5, <2>6, <2>7 DEF CallStep
<1>8. ASSUME NEW a \in Attempts, Crash(a)
      PROVE  TracesKept'
  <2>1. Traced(a)' /\ \A b \in Attempts \ {a} : Out(b)' => Out(b)
    <3>1. call'[a].outcome = "crashed"
      BY <1>8 DEF Crash, End, IInv, TypeOK, Calls
    <3>2. QED
      BY <1>8, <3>1 DEF Crash, Out, Traced
  <2>2. QED
    BY <1>3, <1>8, <2>1, ClientEndIsStep
<1>9. ASSUME NEW a \in Attempts, Accept(a)
      PROVE  TracesKept'
  <2>1. \A b \in Attempts : call'[b] = call[b] /\ (Out(b)' => Out(b))
    BY <1>9 DEF Accept, IInv, TypeOK, Out
  <2>2. QED
    BY <1>2, <2>1
<1>10. ASSUME NEW a \in Attempts, CancelOrder(a) \/ AmendOrder(a)
       PROVE  TracesKept'
  BY <1>2, <1>10 DEF CancelOrder, AmendOrder, Modify, Out
<1>11. ASSUME NEW a \in Attempts, ApplyMod(a)
       PROVE  TracesKept'
  <2>1. orders[a] # NoOrder /\ call' = call /\ wire' = wire
    BY <1>11 DEF IInv, SentOnly, ApplyMod
  <2>2. \A b \in Attempts \ {a} : orders'[b] = orders[b]
    BY <1>11 DEF IInv, TypeOK, ApplyMod
  <2>3. \A b \in Attempts : call'[b] = call[b] /\ (Out(b)' => Out(b))
    BY <2>1, <2>2 DEF Out
  <2>4. QED
    BY <1>2, <2>3
<1>12. QED
  BY <1>5, <1>6, <1>7, <1>8, <1>9, <1>10, <1>11 DEF Next

-----------------------------------------------------------------------------
(* The inductive invariant.                                                 *)
LInv == IInv /\ Overlap /\ DaysKept /\ Leak /\ TracesKept

LEMMA InitLInv == Init => LInv
<1>1. Init => TracesKept
  BY IdleIsACall DEF Init, TracesKept, Traced
<1>2. QED
  BY <1>1, InitIInv, InitOverlap, InitDays, InitLeak DEF LInv

LEMMA NextLInv == LInv /\ [Next]_vars => LInv'
  BY Inductive, NextOverlap, NextDays, NextLeak, NextTraces DEF LInv

LEMMA AlwaysLInv == Spec => []LInv
  BY InitLInv, NextLInv, PTL DEF Spec

(* Once the call of an order is over, the audit log holds its event with    *)
(* passed checks (the finally block of create_order), unless a write failed *)
(* or the process died.                                                     *)
THEOREM OrdersAreTraced == Spec => []NoUntracedOrder
<1>1. LInv => NoUntracedOrder
  BY DEF LInv, TracesKept, Traced, Out, NoUntracedOrder, Ended
<1>2. QED
  BY <1>1, AlwaysLInv, PTL

(* After the kill switch goes on, only calls already past its check         *)
(* (check_kill_switch) still hand over an order.                            *)
THEOREM KillSwitchLeaksLittle == Spec => []KillSwitchLeakBounded
<1>1. LInv => KillSwitchLeakBounded
  <2> SUFFICES ASSUME LInv PROVE sinceKill <= MaxConcurrent
    BY DEF KillSwitchLeakBounded
  <2>1. /\ Cardinality(Past) \in Nat /\ sinceKill \in Nat /\ MaxConcurrent \in Nat
        /\ killSwitch \in BOOLEAN
    BY PastRuns, ExecutorAssumption DEF LInv, IInv, TypeOK
  <2>2. QED
    BY <2>1 DEF LInv, Leak
<1>2. QED
  BY <1>1, AlwaysLInv, PTL

(* check_daily_order_limit reads the log long before the event is written:  *)
(* a day's orders exceed the limit by no more than the calls that overlap   *)
(* one of them, and those whose event did not reach the log of that day.    *)
THEOREM DailyLimitHolds == Spec => []DailyLimitOverrunBounded
<1>1. LInv => DailyLimitOverrunBounded
  <2> SUFFICES ASSUME LInv, MaxOrdersPerDay > 0, NEW d \in 0..day
               PROVE  Cardinality({a \in Placed : call[a].checkDay = d})
                        <= MaxOrdersPerDay + (MaxConcurrent - 1) + Cardinality(Untraced(d))
    BY DEF DailyLimitOverrunBounded
  <2> DEFINE placed == {a \in Placed : call[a].checkDay = d}
             untraced == Untraced(d)
             counted == Counted(d)
  <2>1. placed \in SUBSET (counted \cup untraced)
    <3> SUFFICES ASSUME NEW a \in placed, a \notin untraced
                 PROVE  a \in counted
      OBVIOUS
    <3>1. a \in Attempts /\ orders[a] # NoOrder /\ call[a].checkDay = d
      BY DEF Placed
    <3>2. /\ call[a].pc \in {"sent", "done"} /\ a \in LiveAttempts /\ call[a].failures = {}
      BY <3>1 DEF LInv, IInv, SentOnly, Approved
    <3>3. call[a].pc = "done" => \E e \in auditLog : e.attempt = a /\ e.day = d
      BY <3>1 DEF Untraced, Placed
    <3>4. \A e \in auditLog : e.attempt = a => e.mode = "live"
      BY <3>2 DEF LInv, Overlap
    <3>5. QED
      BY <3>1, <3>2, <3>3, <3>4 DEF Counted, LiveEvents
  <2>2. /\ IsFiniteSet(counted) /\ Cardinality(counted) \in Nat
        /\ Cardinality(counted) <= MaxOrdersPerDay + (MaxConcurrent - 1)
    BY FS_CardinalityType DEF LInv, IInv, TypeOK, DaysKept, DayKept
  <2>3. IsFiniteSet(untraced) /\ Cardinality(untraced) \in Nat
    <3>1. untraced \in SUBSET Begun
      BY DEF Untraced, Begun, Placed
    <3>2. QED
      BY <3>1, FS_Subset, FS_CardinalityType DEF LInv, Overlap
  <2> HIDE DEF placed, untraced, counted
  <2>4. /\ IsFiniteSet(counted \cup untraced)
        /\ Cardinality(counted \cup untraced)
              = Cardinality(counted) + Cardinality(untraced) - Cardinality(counted \cap untraced)
    BY <2>2, <2>3, FS_Union
  <2>5. Cardinality(counted \cap untraced) \in Nat
    <3>1. IsFiniteSet(counted \cap untraced)
      BY <2>2, FS_Subset
    <3>2. QED
      BY <3>1, FS_CardinalityType
  <2>6. Cardinality(placed) <= Cardinality(counted \cup untraced) /\ Cardinality(placed) \in Nat
    BY <2>1, <2>4, FS_Subset, FS_CardinalityType
  <2>7. Cardinality(placed) <= MaxOrdersPerDay + (MaxConcurrent - 1) + Cardinality(untraced)
    BY <2>2, <2>3, <2>4, <2>5, <2>6, ExecutorAssumption
  <2>8. QED
    BY <2>7 DEF placed, untraced
<1>2. QED
  BY <1>1, AlwaysLInv, PTL

-----------------------------------------------------------------------------
(* The library's induction theorems take an operator; these take a set.     *)
LEMMA LeastNatural == ASSUME NEW S \in SUBSET Nat, S # {} PROVE \E n \in S : \A m \in S : n <= m
<1> DEFINE R == OpToRel(<, Nat)
<1>1. IsWellFoundedOn(R, Nat)
  BY NatLessThanWellFounded
<1>2. \A x, y \in Nat : x < y => <<x, y>> \in R
  BY DEF OpToRel
<1> HIDE DEF R
<1>3. PICK x \in S : \A y \in S : ~(<<y, x>> \in R)
  BY <1>1, WFMin
<1>4. \A m \in S : ~(m < x)
  BY <1>2, <1>3
<1>5. \A m \in S : x <= m
  BY <1>4
<1>6. QED
  BY <1>5

LEMMA NaturalInduction == ASSUME NEW S \in SUBSET Nat, 0 \in S, \A n \in S : n + 1 \in S PROVE S = Nat
<1> SUFFICES ASSUME Nat \ S # {} PROVE FALSE
  OBVIOUS
<1>1. PICK n \in Nat \ S : \A m \in Nat \ S : n <= m
  BY LeastNatural
<1>2. n # 0 /\ n - 1 \in Nat /\ n - 1 < n
  OBVIOUS
<1>3. n - 1 \in S
  BY <1>1, <1>2
<1>4. (n - 1) + 1 = n
  OBVIOUS
<1>5. QED
  BY <1>3, <1>4, <1>1

(* A property of sets that an element more preserves holds of every finite  *)
(* set.                                                                    *)
LEMMA SetInduction ==
    ASSUME NEW S, IsFiniteSet(S), NEW Good \in SUBSET SUBSET S, {} \in Good,
           \A t \in Good : \A x \in S \ t : t \cup {x} \in Good
    PROVE  S \in Good
<1> DEFINE N == {n \in Nat : \A s \in SUBSET S : Cardinality(s) = n => s \in Good}
<1>1. 0 \in N
  <2> SUFFICES ASSUME NEW s \in SUBSET S, Cardinality(s) = 0 PROVE s \in Good
    OBVIOUS
  <2>1. IsFiniteSet(s)
    BY FS_Subset
  <2>2. QED
    BY <2>1, FS_EmptySet
<1>2. ASSUME NEW n \in N PROVE n + 1 \in N
  <2> SUFFICES ASSUME NEW s \in SUBSET S, Cardinality(s) = n + 1 PROVE s \in Good
    OBVIOUS
  <2>1. IsFiniteSet(s)
    BY FS_Subset
  <2>2. s # {}
    BY <2>1, FS_EmptySet
  <2>3. PICK x \in s : TRUE
    BY <2>2
  <2>4. Cardinality(s \ {x}) = n
    <3>1. Cardinality(s \ {x}) = Cardinality(s) - 1
      BY <2>1, FS_RemoveElement
    <3>2. QED
      BY <3>1
  <2>5. s \ {x} \in SUBSET S /\ x \in S \ (s \ {x}) /\ (s \ {x}) \cup {x} = s
    OBVIOUS
  <2>6. s \ {x} \in Good
    BY <2>4, <2>5
  <2>7. QED
    BY <2>5, <2>6
<1>3. N \in SUBSET Nat
  OBVIOUS
<1> HIDE DEF N
<1>4. N = Nat
  BY <1>1, <1>2, <1>3, NaturalInduction
<1>5. Cardinality(S) \in Nat
  BY FS_CardinalityType
<1>6. QED
  BY <1>4, <1>5 DEF N

(* g computes a fold over the subsets of S: c chooses the element a set      *)
(* loses, F adds what it is worth.  On a finite set there is such a g.       *)
Solves(g, S, base, F, c) ==
    g = [s \in SUBSET S |-> IF s = {} THEN base ELSE F[<<c[s], g[s \ {c[s]}]>>]]

LEMMA FoldExists ==
    ASSUME NEW S, IsFiniteSet(S), NEW T, NEW base \in T, NEW F \in [S \X T -> T],
           NEW c, \A s \in SUBSET S : s # {} => c[s] \in s
    PROVE  \E g \in [SUBSET S -> T] : Solves(g, S, base, F, c)
<1> DEFINE Sub(n) == {s \in SUBSET S : Cardinality(s) <= n}
           Eq(g, n) == g = [s \in Sub(n) |-> IF s = {} THEN base ELSE F[<<c[s], g[s \ {c[s]}]>>]]
           N == {n \in Nat : \E g \in [Sub(n) -> T] : Eq(g, n)}
<1>1. \A s \in SUBSET S : IsFiniteSet(s) /\ Cardinality(s) \in Nat
  BY FS_Subset, FS_CardinalityType
<1>2. 0 \in N
  <2>1. \A s \in Sub(0) : s = {}
    <3> SUFFICES ASSUME NEW s \in SUBSET S, Cardinality(s) <= 0 PROVE s = {}
      OBVIOUS
    <3>1. QED
      BY <1>1, FS_EmptySet
  <2> DEFINE g == [s \in Sub(0) |-> base]
  <2>2. g \in [Sub(0) -> T] /\ Eq(g, 0)
    BY <2>1
  <2>3. QED
    BY <2>2
<1>3. ASSUME NEW n \in N PROVE n + 1 \in N
  <2>1. PICK g \in [Sub(n) -> T] : Eq(g, n)
    OBVIOUS
  <2> DEFINE h == [s \in Sub(n + 1) |-> IF s = {} THEN base ELSE F[<<c[s], g[s \ {c[s]}]>>]]
  <2>2. \A s \in Sub(n + 1) : s # {} => c[s] \in s /\ c[s] \in S /\ s \ {c[s]} \in Sub(n)
    <3> SUFFICES ASSUME NEW s \in SUBSET S, Cardinality(s) <= n + 1, s # {}
                 PROVE  c[s] \in s /\ s \ {c[s]} \in SUBSET S /\ Cardinality(s \ {c[s]}) <= n
      OBVIOUS
    <3>1. c[s] \in s
      OBVIOUS
    <3>2. Cardinality(s \ {c[s]}) = Cardinality(s) - 1
      BY <3>1, <1>1, FS_RemoveElement
    <3>3. QED
      BY <3>1, <3>2, <1>1
  <2>3. \A s \in Sub(n) : s \in Sub(n + 1)
    BY <1>1
  <2>4. h \in [Sub(n + 1) -> T]
    BY <2>2
  <2>5. \A s \in Sub(n) : h[s] = g[s]
    BY <2>1, <2>3
  <2>6. Eq(h, n + 1)
    <3> SUFFICES ASSUME NEW s \in Sub(n + 1), s # {}
                 PROVE  h[s] = F[<<c[s], h[s \ {c[s]}]>>]
      BY <2>4
    <3> HIDE DEF Sub
    <3>1. QED
      BY <2>2, <2>5
  <2>7. n + 1 \in Nat
    OBVIOUS
  <2> HIDE DEF h, Sub, Eq
  <2>8. \E x \in [Sub(n + 1) -> T] : Eq(x, n + 1)
    BY <2>4, <2>6
  <2>9. QED
    BY <2>7, <2>8
<1>4. N \in SUBSET Nat
  OBVIOUS
<1> HIDE DEF N
<1>5. N = Nat
  BY <1>2, <1>3, <1>4, NaturalInduction
<1>6. PICK g \in [Sub(Cardinality(S)) -> T] : Eq(g, Cardinality(S))
  BY <1>1, <1>5 DEF N
<1>7. Sub(Cardinality(S)) = SUBSET S
  BY <1>1, FS_Subset
<1> HIDE DEF Sub
<1>8. QED
  BY <1>6, <1>7, ZenonT(60) DEF Solves

-----------------------------------------------------------------------------
(* Sums over a set: SumFunctionOnSet is defined, adds up, and is monotonic. *)
SumStep(fun, s, g) ==
    IF s = {} THEN 0 ELSE fun[CHOOSE x \in s : TRUE] + g[s \ {CHOOSE x \in s : TRUE}]

SumIter(fun, S) == CHOOSE g : g = [s \in SUBSET S |-> SumStep(fun, s, g)]

LEMMA SumUnfolds ==
    ASSUME NEW fun, NEW S
    PROVE  SumFunctionOnSet(fun, S) = SumIter(fun, S)[S]
  BY DEF SumFunctionOnSet, FoldFunctionOnSet, MapThenFoldSet, SumIter, SumStep

LEMMA SumIterDefined ==
    ASSUME NEW S, IsFiniteSet(S), NEW fun, \A x \in S : fun[x] \in Int
    PROVE  SumIter(fun, S) = [s \in SUBSET S |-> SumStep(fun, s, SumIter(fun, S))]
<1> DEFINE c == [s \in SUBSET S |-> CHOOSE x \in s : TRUE]
           F == [p \in S \X Int |-> fun[p[1]] + p[2]]
<1>1. \A s \in SUBSET S : s # {} => c[s] \in s
  OBVIOUS
<1>2. F \in [S \X Int -> Int] /\ \A x \in S, n \in Int : F[<<x, n>>] = fun[x] + n
  OBVIOUS
<1>3. \A s \in SUBSET S : c[s] = CHOOSE x \in s : TRUE
  OBVIOUS
<1>4. 0 \in Int
  OBVIOUS
<1> HIDE DEF c, F
<1>5. PICK g \in [SUBSET S -> Int] : Solves(g, S, 0, F, c)
  BY <1>1, <1>2, <1>4, FoldExists
<1>6. g = [s \in SUBSET S |-> SumStep(fun, s, g)]
  <2> SUFFICES ASSUME NEW s \in SUBSET S PROVE g[s] = SumStep(fun, s, g)
    OBVIOUS
  <2>1. CASE s = {}
    BY <1>5, <2>1 DEF Solves, SumStep
  <2>2. CASE s # {}
    <3>1. c[s] \in S /\ s \ {c[s]} \in SUBSET S
      BY <1>1, <2>2
    <3>2. g[s] = F[<<c[s], g[s \ {c[s]}]>>]
      BY <1>5, <2>2 DEF Solves
    <3>3. g[s] = fun[c[s]] + g[s \ {c[s]}]
      BY <3>1, <3>2, <1>2
    <3>4. QED
      BY <3>3, <2>2, <1>3 DEF SumStep
  <2>3. QED
    BY <2>1, <2>2
<1>7. QED
  BY <1>6 DEF SumIter

(* Whoever satisfies the defining equation on the subsets of a set agrees   *)
(* with the sum on each of them.                                            *)
LEMMA SumOfSubset ==
    ASSUME NEW S, IsFiniteSet(S), NEW fun, \A x \in S : fun[x] \in Int,
           NEW s \in SUBSET S
    PROVE  SumIter(fun, S)[s] = SumFunctionOnSet(fun, s)
<1>1. \A t \in SUBSET S : IsFiniteSet(t) /\ Cardinality(t) \in Nat
  BY FS_Subset, FS_CardinalityType
<1>2. /\ \A u \in SUBSET s : SumIter(fun, s)[u] = SumStep(fun, u, SumIter(fun, s))
      /\ \A u \in SUBSET S : SumIter(fun, S)[u] = SumStep(fun, u, SumIter(fun, S))
  <2>1. \A t \in SUBSET S : SumIter(fun, t) = [u \in SUBSET t |-> SumStep(fun, u, SumIter(fun, t))]
    BY <1>1, SumIterDefined
  <2>2. SumIter(fun, s) = [u \in SUBSET s |-> SumStep(fun, u, SumIter(fun, s))]
    BY <2>1
  <2>3. SumIter(fun, S) = [u \in SUBSET S |-> SumStep(fun, u, SumIter(fun, S))]
    BY <2>1
  <2>4. QED
    BY <2>2, <2>3
<1> DEFINE N == {n \in Nat : \A u \in SUBSET s : Cardinality(u) = n => SumIter(fun, s)[u] = SumIter(fun, S)[u]}
<1>3. 0 \in N
  <2> SUFFICES ASSUME NEW u \in SUBSET s, Cardinality(u) = 0
               PROVE  SumIter(fun, s)[u] = SumIter(fun, S)[u]
    OBVIOUS
  <2>1. u = {}
    BY <1>1, FS_EmptySet
  <2>2. QED
    BY <1>2, <2>1 DEF SumStep
<1>4. ASSUME NEW n \in N PROVE n + 1 \in N
  <2> SUFFICES ASSUME NEW u \in SUBSET s, Cardinality(u) = n + 1
               PROVE  SumIter(fun, s)[u] = SumIter(fun, S)[u]
    OBVIOUS
  <2>1. u # {}
    <3> SUFFICES ASSUME u = {} PROVE FALSE
      OBVIOUS
    <3>1. n \in Nat /\ Cardinality({}) = 0
      BY FS_EmptySet
    <3>2. QED
      BY <3>1
  <2>2. PICK x \in u : x = CHOOSE y \in u : TRUE
    BY <2>1
  <2>3. Cardinality(u \ {x}) = Cardinality(u) - 1
    BY <1>1, FS_RemoveElement
  <2>4. u \ {x} \in SUBSET s /\ Cardinality(u \ {x}) = n
    BY <2>3
  <2>5. SumIter(fun, s)[u \ {x}] = SumIter(fun, S)[u \ {x}]
    BY <2>4
  <2>6. SumIter(fun, s)[u] = fun[x] + SumIter(fun, s)[u \ {x}]
    BY <1>2, <2>1, <2>2 DEF SumStep
  <2>7. SumIter(fun, S)[u] = fun[x] + SumIter(fun, S)[u \ {x}]
    BY <1>2, <2>1, <2>2, ZenonT(60) DEF SumStep
  <2>8. QED
    BY <2>5, <2>6, <2>7
<1>5. N \in SUBSET Nat
  OBVIOUS
<1> HIDE DEF N
<1>6. N = Nat
  BY <1>3, <1>4, <1>5, NaturalInduction
<1>7. SumIter(fun, s)[s] = SumIter(fun, S)[s]
  BY <1>1, <1>6 DEF N
<1>8. QED
  BY <1>7, SumUnfolds

LEMMA SumEmpty == ASSUME NEW fun PROVE SumFunctionOnSet(fun, {}) = 0
<1>1. SumIter(fun, {}) = [s \in SUBSET {} |-> SumStep(fun, s, SumIter(fun, {}))]
  BY SumIterDefined, FS_EmptySet
<1>2. QED
  BY <1>1, SumUnfolds DEF SumStep

(* The sum without the element the definition chooses.                      *)
LEMMA SumChosen ==
    ASSUME NEW S, IsFiniteSet(S), S # {}, NEW fun, \A x \in S : fun[x] \in Int
    PROVE  \E x \in S : SumFunctionOnSet(fun, S) = fun[x] + SumFunctionOnSet(fun, S \ {x})
<1>1. PICK x \in S : x = CHOOSE y \in S : TRUE
  OBVIOUS
<1>2. SumIter(fun, S) = [s \in SUBSET S |-> SumStep(fun, s, SumIter(fun, S))]
  BY SumIterDefined
<1>3. SumIter(fun, S)[S] = fun[x] + SumIter(fun, S)[S \ {x}]
  BY <1>1, <1>2 DEF SumStep
<1>4. SumIter(fun, S)[S \ {x}] = SumFunctionOnSet(fun, S \ {x})
  BY SumOfSubset
<1>5. QED
  BY <1>3, <1>4, SumUnfolds

LEMMA SumInt ==
    ASSUME NEW S, IsFiniteSet(S), NEW fun, \A x \in S : fun[x] \in Int
    PROVE  SumFunctionOnSet(fun, S) \in Int
<1> DEFINE N == {n \in Nat : \A u \in SUBSET S : Cardinality(u) = n => SumFunctionOnSet(fun, u) \in Int}
<1>1. \A t \in SUBSET S : IsFiniteSet(t) /\ Cardinality(t) \in Nat
  BY FS_Subset, FS_CardinalityType
<1>2. 0 \in N
  <2> SUFFICES ASSUME NEW u \in SUBSET S, Cardinality(u) = 0 PROVE SumFunctionOnSet(fun, u) \in Int
    OBVIOUS
  <2>1. u = {}
    BY <1>1, FS_EmptySet
  <2>2. QED
    BY <2>1, SumEmpty
<1>3. ASSUME NEW n \in N PROVE n + 1 \in N
  <2> SUFFICES ASSUME NEW u \in SUBSET S, Cardinality(u) = n + 1 PROVE SumFunctionOnSet(fun, u) \in Int
    OBVIOUS
  <2>1. u # {}
    <3> SUFFICES ASSUME u = {} PROVE FALSE
      OBVIOUS
    <3>1. n \in Nat /\ Cardinality({}) = 0
      BY FS_EmptySet
    <3>2. QED
      BY <3>1
  <2>2. PICK x \in u : SumFunctionOnSet(fun, u) = fun[x] + SumFunctionOnSet(fun, u \ {x})
    BY <1>1, <2>1, SumChosen
  <2>3. Cardinality(u \ {x}) = Cardinality(u) - 1
    BY <1>1, FS_RemoveElement
  <2>4. u \ {x} \in SUBSET S /\ Cardinality(u \ {x}) = n
    BY <2>3
  <2>5. SumFunctionOnSet(fun, u \ {x}) \in Int
    BY <2>4
  <2>6. QED
    BY <2>2, <2>5
<1>4. N \in SUBSET Nat
  OBVIOUS
<1> HIDE DEF N
<1>5. N = Nat
  BY <1>2, <1>3, <1>4, NaturalInduction
<1>6. QED
  BY <1>1, <1>5 DEF N

(* ... and without any other one.                                           *)
LEMMA SumWithout ==
    ASSUME NEW S, IsFiniteSet(S), NEW fun, \A x \in S : fun[x] \in Int, NEW z \in S
    PROVE  SumFunctionOnSet(fun, S) = fun[z] + SumFunctionOnSet(fun, S \ {z})
<1> DEFINE Sum(u) == SumFunctionOnSet(fun, u)
           N == {n \in Nat : \A u \in SUBSET S : Cardinality(u) = n =>
                                \A y \in u : Sum(u) = fun[y] + Sum(u \ {y})}
<1>1. \A t \in SUBSET S : IsFiniteSet(t) /\ Cardinality(t) \in Nat
  BY FS_Subset, FS_CardinalityType
<1>2. \A t \in SUBSET S : Sum(t) \in Int
  BY <1>1, SumInt
<1>3. 0 \in N
  BY <1>1, FS_EmptySet
<1>4. ASSUME NEW n \in N PROVE n + 1 \in N
  <2> SUFFICES ASSUME NEW u \in SUBSET S, Cardinality(u) = n + 1, NEW y \in u
               PROVE  Sum(u) = fun[y] + Sum(u \ {y})
    OBVIOUS
  <2>1. PICK x \in u : Sum(u) = fun[x] + Sum(u \ {x})
    BY <1>1, SumChosen
  <2>2. CASE x = y
    BY <2>1, <2>2
  <2>3. CASE x # y
    <3>1. Cardinality(u \ {x}) = Cardinality(u) - 1 /\ Cardinality(u \ {y}) = Cardinality(u) - 1
      BY <1>1, FS_RemoveElement
    <3>2. Cardinality(u \ {x}) = n /\ Cardinality(u \ {y}) = n
      BY <3>1
    <3>3. Sum(u \ {x}) = fun[y] + Sum((u \ {x}) \ {y})
      BY <3>2, <2>3
    <3>4. Sum(u \ {y}) = fun[x] + Sum((u \ {y}) \ {x})
      BY <3>2, <2>3
    <3>5. (u \ {x}) \ {y} = (u \ {y}) \ {x}
      OBVIOUS
    <3>6. Sum((u \ {x}) \ {y}) \in Int /\ fun[x] \in Int /\ fun[y] \in Int
      BY <1>2
    <3> DEFINE r == Sum((u \ {x}) \ {y})
    <3>7. Sum(u) = fun[x] + (fun[y] + r) /\ Sum(u \ {y}) = fun[x] + r /\ r \in Int
      BY <2>1, <3>3, <3>4, <3>5, <3>6
    <3>8. fun[x] \in Int /\ fun[y] \in Int
      BY <3>6
    <3> HIDE DEF r, Sum
    <3>9. QED
      BY <3>7, <3>8
  <2>4. QED
    BY <2>2, <2>3
<1>5. N \in SUBSET Nat
  OBVIOUS
<1> HIDE DEF N
<1>6. N = Nat
  BY <1>3, <1>4, <1>5, NaturalInduction
<1>7. QED
  BY <1>1, <1>6 DEF N

LEMMA SumSame ==
    ASSUME NEW S, IsFiniteSet(S), NEW f, NEW g, \A x \in S : f[x] \in Int /\ g[x] = f[x]
    PROVE  SumFunctionOnSet(g, S) = SumFunctionOnSet(f, S)
<1> DEFINE Good == {u \in SUBSET S : SumFunctionOnSet(g, u) = SumFunctionOnSet(f, u)}
<1>1. {} \in Good
  BY SumEmpty
<1>2. ASSUME NEW u \in Good, NEW x \in S \ u
      PROVE  u \cup {x} \in Good
  <2>1. IsFiniteSet(u \cup {x}) /\ (u \cup {x}) \ {x} = u
    BY FS_Subset
  <2>2. SumFunctionOnSet(f, u \cup {x}) = f[x] + SumFunctionOnSet(f, u)
    BY <2>1, SumWithout
  <2>3. SumFunctionOnSet(g, u \cup {x}) = g[x] + SumFunctionOnSet(g, u)
    BY <2>1, SumWithout
  <2>4. QED
    BY <2>2, <2>3
<1>3. Good \in SUBSET SUBSET S
  OBVIOUS
<1> HIDE DEF Good
<1>4. S \in Good
  BY <1>1, <1>2, <1>3, SetInduction
<1>5. QED
  BY <1>4 DEF Good

LEMMA SumAdd ==
    ASSUME NEW S, IsFiniteSet(S), NEW f, NEW x, x \notin S, \A y \in S \cup {x} : f[y] \in Int
    PROVE  SumFunctionOnSet(f, S \cup {x}) = f[x] + SumFunctionOnSet(f, S)
<1>1. IsFiniteSet(S \cup {x}) /\ (S \cup {x}) \ {x} = S /\ x \in S \cup {x}
  BY FS_AddElement
<1>2. QED
  BY <1>1, SumWithout

LEMMA SumUnion ==
    ASSUME NEW S, IsFiniteSet(S), NEW R, IsFiniteSet(R), S \cap R = {},
           NEW f, \A x \in S \cup R : f[x] \in Int
    PROVE  SumFunctionOnSet(f, S \cup R) = SumFunctionOnSet(f, S) + SumFunctionOnSet(f, R)
<1> DEFINE Sum(u) == SumFunctionOnSet(f, u)
           Good == {u \in SUBSET R : Sum(S \cup u) = Sum(S) + Sum(u)}
<1>1. \A u \in SUBSET R : IsFiniteSet(u) /\ IsFiniteSet(S \cup u)
  BY FS_Subset, FS_Union
<1>2. {} \in Good
  <2>1. Sum(S) \in Int /\ Sum({}) = 0 /\ S \cup {} = S
    BY SumInt, SumEmpty
  <2>2. QED
    BY <2>1
<1>3. ASSUME NEW u \in Good, NEW x \in R \ u
      PROVE  u \cup {x} \in Good
  <2>1. Sum(u \cup {x}) = f[x] + Sum(u)
    BY <1>1, SumAdd
  <2>2. Sum((S \cup u) \cup {x}) = f[x] + Sum(S \cup u)
    BY <1>1, SumAdd
  <2>3. Sum(S) \in Int /\ Sum(u) \in Int /\ f[x] \in Int
    BY <1>1, SumInt
  <2>4. (S \cup u) \cup {x} = S \cup (u \cup {x})
    OBVIOUS
  <2>5. Sum(S \cup u) = Sum(S) + Sum(u) /\ u \cup {x} \in SUBSET R
    OBVIOUS
  <2>6. Sum(S \cup (u \cup {x})) = Sum(S) + Sum(u \cup {x})
    <3> DEFINE A == Sum(S)  B == Sum(u)  C == Sum(S \cup u)
    <3>1. Sum(S \cup (u \cup {x})) = f[x] + C /\ Sum(u \cup {x}) = f[x] + B /\ C = A + B
      BY <2>1, <2>2, <2>4, <2>5
    <3>2. A \in Int /\ B \in Int /\ f[x] \in Int
      BY <2>3
    <3> HIDE DEF A, B, C, Sum
    <3>3. f[x] + (A + B) = A + (f[x] + B)
      BY <3>2
    <3>4. Sum(S \cup (u \cup {x})) = A + Sum(u \cup {x})
      BY <3>1, <3>3
    <3>5. QED
      BY <3>4 DEF A
  <2>7. QED
    BY <2>5, <2>6
<1>4. Good \in SUBSET SUBSET R
  OBVIOUS
<1> HIDE DEF Good
<1>5. R \in Good
  BY <1>2, <1>3, <1>4, SetInduction
<1>6. QED
  BY <1>5 DEF Good

LEMMA SumNat ==
    ASSUME NEW S, IsFiniteSet(S), NEW f, \A x \in S : f[x] \in Nat
    PROVE  SumFunctionOnSet(f, S) \in Nat
<1> DEFINE Good == {u \in SUBSET S : SumFunctionOnSet(f, u) \in Nat}
<1>1. {} \in Good
  BY SumEmpty
<1>2. ASSUME NEW u \in Good, NEW x \in S \ u
      PROVE  u \cup {x} \in Good
  <2>1. SumFunctionOnSet(f, u \cup {x}) = f[x] + SumFunctionOnSet(f, u)
    <3>1. IsFiniteSet(u) /\ \A y \in u \cup {x} : f[y] \in Int
      BY FS_Subset
    <3>2. QED
      BY <3>1, SumAdd
  <2>2. QED
    BY <2>1
<1>3. Good \in SUBSET SUBSET S
  OBVIOUS
<1> HIDE DEF Good
<1>4. S \in Good
  BY <1>1, <1>2, <1>3, SetInduction
<1>5. QED
  BY <1>4 DEF Good

LEMMA SumSubset ==
    ASSUME NEW S, IsFiniteSet(S), NEW f, \A x \in S : f[x] \in Nat, NEW R \in SUBSET S
    PROVE  SumFunctionOnSet(f, R) <= SumFunctionOnSet(f, S)
<1>1. IsFiniteSet(R) /\ IsFiniteSet(S \ R) /\ R \cup (S \ R) = S /\ R \cap (S \ R) = {}
  BY FS_Subset
<1>2. SumFunctionOnSet(f, R \cup (S \ R)) = SumFunctionOnSet(f, R) + SumFunctionOnSet(f, S \ R)
  <2>1. \A x \in R \cup (S \ R) : f[x] \in Int
    OBVIOUS
  <2>2. QED
    BY <1>1, <2>1, SumUnion
<1>3. SumFunctionOnSet(f, R) \in Nat /\ SumFunctionOnSet(f, S \ R) \in Nat
  BY <1>1, SumNat
<1>4. SumFunctionOnSet(f, S) = SumFunctionOnSet(f, R) + SumFunctionOnSet(f, S \ R)
  BY <1>1, <1>2
<1>5. QED
  BY <1>3, <1>4

LEMMA SumBound ==
    ASSUME NEW S, IsFiniteSet(S), NEW b \in Nat, NEW f, \A x \in S : f[x] \in Nat /\ f[x] <= b
    PROVE  SumFunctionOnSet(f, S) <= b * Cardinality(S)
<1> DEFINE Good == {u \in SUBSET S : SumFunctionOnSet(f, u) <= b * Cardinality(u)}
<1>1. {} \in Good
  BY SumEmpty, FS_EmptySet
<1>2. ASSUME NEW u \in Good, NEW x \in S \ u
      PROVE  u \cup {x} \in Good
  <2>1. IsFiniteSet(u) /\ x \notin u /\ \A y \in u \cup {x} : f[y] \in Nat /\ f[y] \in Int
    BY FS_Subset
  <2>2. SumFunctionOnSet(f, u \cup {x}) = f[x] + SumFunctionOnSet(f, u)
    BY <2>1, SumAdd
  <2>3. Cardinality(u \cup {x}) = Cardinality(u) + 1 /\ Cardinality(u) \in Nat
    BY <2>1, FS_AddElement, FS_CardinalityType
  <2>4. SumFunctionOnSet(f, u) \in Nat
    BY <2>1, SumNat
  <2>5. b * (Cardinality(u) + 1) = b * Cardinality(u) + b
    BY <2>3
  <2>6. f[x] <= b /\ f[x] \in Nat /\ SumFunctionOnSet(f, u) <= b * Cardinality(u)
        /\ b * Cardinality(u) \in Nat
    BY <2>3
  <2>7. SumFunctionOnSet(f, u \cup {x}) <= b * Cardinality(u \cup {x})
    BY <2>2, <2>3, <2>4, <2>5, <2>6
  <2>8. QED
    BY <2>7
<1>3. Good \in SUBSET SUBSET S
  OBVIOUS
<1> HIDE DEF Good
<1>4. S \in Good
  BY <1>1, <1>2, <1>3, SetInduction
<1>5. QED
  BY <1>4 DEF Good

-----------------------------------------------------------------------------
(* What a call may add to the spend.                                        *)
Cost == [a \in Attempts |-> Risk(call[a].req)]

(* The calls the spend check has let pass, also when they are over and      *)
(* their order is on its way or placed.                                     *)
Cleared ==
    {a \in Attempts :
        \/ /\ call[a].pc \in {"position", "book", "grade", "confirm", "sent"}
           /\ call[a].failures = {}
        \/ Out(a)}

Pending == {a \in Cleared : call[a].pc # "done" /\ orders[a] = NoOrder}

PlacedInTime(d) == {a \in Placed : orders[a].day = d /\ ~orders[a].late}

(* What day d has spent, or may still spend while its calls run.            *)
InTime(d) == PlacedInTime(d) \cup IF d = day THEN Pending ELSE {}

SpendLimit == MaxNotional + MaxOrderRisk * (MaxConcurrent - 1)

SpendKept ==
    "budget" \in Providers =>
        /\ \A a \in Cleared : Cost[a] <= MaxNotional
        /\ \A a \in Placed : orders[a].day <= day
        /\ \A d \in 0..day : InTime(d) # {} => SumFunctionOnSet(Cost, InTime(d)) <= SpendLimit

(* A request that passes the common checks risks something, and no more     *)
(* than the cap.                                                            *)
LEMMA RiskFacts ==
    ASSUME NEW r \in Requests, CommonFailures(r) = {}
    PROVE  Risk(r) \in Nat \ {0} /\ Risk(r) <= MaxOrderRisk /\ MaxOrderRisk \in Nat
<1>1. r.count \in Int /\ r.price \in Int /\ MaxOrderRisk \in Int
  BY ExecutorAssumption
<1>2. r.price \in 1..99 /\ ~(r.count <= 0) /\ ~(Risk(r) > MaxOrderRisk)
  <2>1. /\ "price_out_of_bounds" \notin CommonFailures(r)
        /\ "count_not_positive" \notin CommonFailures(r)
        /\ "max_order_risk_exceeded" \notin CommonFailures(r)
    OBVIOUS
  <2>2. QED
    BY <2>1 DEF CommonFailures
<1> DEFINE worse == IF r.price >= 100 - r.price THEN r.price ELSE 100 - r.price
<1>3. worse \in Nat \ {0} /\ r.count \in Nat \ {0}
  BY <1>1, <1>2
<1>4. Risk(r) = r.count * worse
  BY DEF Risk
<1> HIDE DEF worse
<1>5. \A m, n \in Nat \ {0} : m * n \in Nat \ {0}
  OBVIOUS
<1>6. Risk(r) \in Nat \ {0}
  BY <1>3, <1>4, <1>5
<1>7. QED
  BY <1>1, <1>2, <1>6

ClearedSound ==
    \A a \in Cleared :
        /\ a \in Attempts /\ call[a].pc # "idle"
        /\ Cost[a] \in Nat \ {0} /\ Cost[a] <= MaxOrderRisk /\ MaxOrderRisk \in Nat
        /\ a \in Pending => a \in Running

LEMMA ClearedFacts == IInv => ClearedSound
<1> SUFFICES ASSUME IInv, NEW a \in Cleared
             PROVE  /\ a \in Attempts /\ call[a].pc # "idle"
                    /\ Cost[a] \in Nat \ {0} /\ Cost[a] <= MaxOrderRisk
                    /\ MaxOrderRisk \in Nat
                    /\ a \in Pending => a \in Running
  BY DEF ClearedSound
<1>1. a \in Attempts /\ call[a] \in Calls /\ call[a].req \in Requests
  BY DEF Cleared, IInv, TypeOK, Calls
<1>2. call[a].pc # "idle" /\ CommonFailures(call[a].req) = {}
  BY <1>1 DEF Cleared, IInv, ChecksRecorded, SentOnly, Approved, Stages, Out
<1>3. Cost[a] = Risk(call[a].req)
  BY <1>1 DEF Cost
<1>4. a \in Pending => a \in Running
  BY <1>1 DEF Pending, Cleared, Running, Stages, IInv, SentOnly, Out
<1>5. QED
  BY <1>1, <1>2, <1>3, <1>4, RiskFacts

LEMMA ClearedFactsNext == IInv' => ClearedSound'
  BY ClearedFacts, PTL

LEMMA RiskType == \A r \in Requests : Risk(r) \in Int
<1> SUFFICES ASSUME NEW r \in Requests PROVE Risk(r) \in Int
  OBVIOUS
<1>1. r.count \in Int /\ r.price \in Int /\ 100 - r.price \in Int
  BY ExecutorAssumption
<1>2. \A m, n \in Int : m * n \in Int
  OBVIOUS
<1>3. QED
  BY <1>1, <1>2 DEF Risk

LEMMA ClearedFinite ==
    ASSUME IInv, Overlap
    PROVE  /\ IsFiniteSet(Cleared) /\ IsFiniteSet(Placed) /\ Placed \subseteq Cleared
           /\ \A d : InTime(d) \subseteq Cleared /\ IsFiniteSet(InTime(d))
<1>1. Placed \subseteq Cleared /\ \A d : InTime(d) \subseteq Cleared
  BY DEF Placed, Cleared, Out, InTime, PlacedInTime, Pending
<1>2. Cleared \in SUBSET Begun
  BY ClearedFacts DEF ClearedSound, Begun
<1>3. IsFiniteSet(Cleared)
  BY <1>2, FS_Subset DEF Overlap
<1>4. QED
  BY <1>1, <1>3, FS_Subset

(* A limit on a sum is one on the sum of fewer.                             *)
LEMMA LimitOnPart ==
    ASSUME NEW S, IsFiniteSet(S), NEW R \in SUBSET S, NEW f, NEW g,
           \A x \in S : f[x] \in Nat, \A x \in R : g[x] = f[x], NEW b \in Int,
           S # {} => SumFunctionOnSet(f, S) <= b
    PROVE  R # {} => SumFunctionOnSet(g, R) <= b
<1>1. IsFiniteSet(R)
  BY FS_Subset
<1>2. SumFunctionOnSet(g, R) = SumFunctionOnSet(f, R)
  <2>1. \A x \in R : f[x] \in Int /\ g[x] = f[x]
    OBVIOUS
  <2>2. QED
    BY <1>1, <2>1, SumSame
<1>3. SumFunctionOnSet(f, R) <= SumFunctionOnSet(f, S)
  BY SumSubset
<1>4. SumFunctionOnSet(f, R) \in Nat /\ SumFunctionOnSet(f, S) \in Nat
  BY <1>1, SumNat
<1>5. QED
  BY <1>2, <1>3, <1>4

LEMMA SpendLimitType == SpendLimit \in Int /\ MaxNotional \in Int
<1>1. MaxNotional \in Int /\ MaxOrderRisk \in Int /\ MaxConcurrent - 1 \in Int
  BY ExecutorAssumption
<1>2. \A m, n \in Int : m * n \in Int
  OBVIOUS
<1>3. QED
  BY <1>1, <1>2 DEF SpendLimit

(* What a step does to a call that it does not clear: it was cleared, and   *)
(* an order it has now was there, comes late, or was pending.               *)
Quiet(b) ==
    b \in Cleared' =>
        /\ b \in Cleared /\ call'[b].req = call[b].req
        /\ b \in Pending' => b \in Pending
        /\ orders'[b] # NoOrder =>
              /\ orders'[b].day <= day
              /\ \/ /\ orders[b] # NoOrder
                    /\ orders'[b].day = orders[b].day /\ orders'[b].late = orders[b].late
                 \/ orders'[b].late
                 \/ b \in Pending /\ orders'[b].day = day

LEMMA QuietKeepsSpend ==
    ASSUME IInv, Overlap, SpendKept, day' = day, \A b \in Attempts : Quiet(b)
    PROVE  SpendKept'
<1> SUFFICES ASSUME "budget" \in Providers
             PROVE  /\ \A a \in Cleared' : Cost'[a] <= MaxNotional
                    /\ \A a \in Placed' : orders'[a].day <= day
                    /\ \A d \in 0..day : InTime(d)' # {} =>
                          SumFunctionOnSet(Cost', InTime(d)') <= SpendLimit
  BY DEF SpendKept, SpendLimit
<1>1. \A a \in Cleared' : a \in Attempts /\ a \in Cleared /\ Cost'[a] = Cost[a]
  BY DEF Cleared, Quiet, Cost
<1>2. \A d : InTime(d)' \subseteq InTime(d) \cap Cleared'
  <2> SUFFICES ASSUME NEW d, NEW b \in InTime(d)'
               PROVE  b \in InTime(d) /\ b \in Cleared'
    OBVIOUS
  <2>1. CASE b \in PlacedInTime(d)'
    <3>1. b \in Attempts /\ orders'[b] # NoOrder /\ orders'[b].day = d /\ ~orders'[b].late
      BY <2>1 DEF PlacedInTime, Placed
    <3>2. b \in Cleared'
      BY <3>1 DEF Cleared, Out
    <3>3. QED
      BY <3>1, <3>2 DEF Quiet, InTime, PlacedInTime, Placed
  <2>2. CASE d = day /\ b \in Pending'
    <3>1. b \in Cleared' /\ b \in Attempts
      BY <2>2 DEF Pending, Cleared
    <3>2. QED
      BY <2>2, <3>1 DEF Quiet, InTime
  <2>3. QED
    BY <2>1, <2>2 DEF InTime
<1>3. \A a \in Placed' : orders'[a].day <= day
  BY DEF Placed, Cleared, Quiet, Out
<1>4. ASSUME NEW d \in 0..day
      PROVE  InTime(d)' # {} => SumFunctionOnSet(Cost', InTime(d)') <= SpendLimit
  <2>1. IsFiniteSet(InTime(d)) /\ \A x \in InTime(d) : Cost[x] \in Nat
    BY ClearedFinite, ClearedFacts DEF ClearedSound
  <2>2. InTime(d)' \in SUBSET InTime(d) /\ \A x \in InTime(d)' : Cost'[x] = Cost[x]
    BY <1>1, <1>2
  <2>3. InTime(d) # {} => SumFunctionOnSet(Cost, InTime(d)) <= SpendLimit
    BY DEF SpendKept
  <2>4. QED
    BY <2>1, <2>2, <2>3, SpendLimitType, LimitOnPart
<1>5. QED
  BY <1>1, <1>3, <1>4 DEF SpendKept

(* The check itself: the spend it reads and the calls that overlap.         *)
LEMMA ClearingKeepsSpend ==
    ASSUME IInv, IInv', Overlap, Overlap', SpendKept, day' = day, orders' = orders,
           NEW a \in Attempts, a \in Pending', \A b \in Attempts \ {a} : Quiet(b),
           call'[a].req = call[a].req,
           DailySpend(day) + Risk(call[a].req) <= MaxNotional
    PROVE  SpendKept'
<1> SUFFICES ASSUME "budget" \in Providers
             PROVE  SpendKept'
  BY DEF SpendKept
<1> DEFINE others == Pending' \ {a}
           before == PlacedInTime(day)
<1>1. /\ a \in Cleared' /\ Cost'[a] = Risk(call[a].req) /\ a \in Running'
      /\ Cost'[a] \in Nat \ {0} /\ Cost'[a] <= MaxOrderRisk /\ MaxOrderRisk \in Nat
  <2>1. a \in Cleared'
    BY DEF Pending
  <2>2. Cost'[a] = Risk(call[a].req)
    BY DEF Cost
  <2>3. /\ a \in Running'
        /\ Cost'[a] \in Nat \ {0} /\ Cost'[a] <= MaxOrderRisk /\ MaxOrderRisk \in Nat
    BY <2>1, ClearedFactsNext DEF ClearedSound
  <2>4. QED
    BY <2>1, <2>2, <2>3
<1>2. /\ IsFiniteSet(Placed) /\ IsFiniteSet(Cleared)
      /\ \A b \in Placed : b \in Cleared /\ Cost[b] \in Nat
  BY ClearedFinite, ClearedFacts DEF ClearedSound
<1>3. \A b \in Cleared' : b # a => b \in Cleared /\ Cost'[b] = Cost[b]
  BY DEF Cleared, Quiet, Cost
<1>4. a \notin Placed /\ Placed' = Placed
  BY DEF Pending, Placed
(* What is placed is what the check read, or less.                          *)
<1>5. SumFunctionOnSet(Cost, before) <= DailySpend(day) /\ SumFunctionOnSet(Cost, before) \in Nat
      /\ DailySpend(day) \in Nat
  <2> DEFINE today == {b \in Placed : orders[b].day = day}
  <2>1. IsFiniteSet(today) /\ before \in SUBSET today /\ \A b \in today : Cost[b] \in Nat
    BY <1>2, FS_Subset DEF PlacedInTime
  <2>2. DailySpend(day) = SumFunctionOnSet(Cost, today)
    BY DEF DailySpend, Cost
  <2>3. IsFiniteSet(before) /\ \A b \in before : Cost[b] \in Nat
    BY <2>1, FS_Subset
  <2> HIDE DEF today, before
  <2>4. QED
    BY <2>1, <2>2, <2>3, SumSubset, SumNat
<1>6. SumFunctionOnSet(Cost', before) = SumFunctionOnSet(Cost, before) /\ IsFiniteSet(before)
  <2>1. IsFiniteSet(before)
    BY <1>2, FS_Subset DEF PlacedInTime
  <2>2. \A b \in before : Cost[b] \in Int /\ Cost'[b] = Cost[b]
    <3>1. \A b \in before : b \in Placed /\ b \in Cleared' /\ b # a
      BY <1>4 DEF PlacedInTime, Placed, Cleared, Out
    <3>2. QED
      BY <1>2, <1>3, <3>1
  <2> HIDE DEF before
  <2>3. QED
    BY <2>1, <2>2, SumSame
(* The others that are pending run at the same time.                        *)
<1>7. /\ IsFiniteSet(others)
      /\ SumFunctionOnSet(Cost', others) \in Nat
      /\ SumFunctionOnSet(Cost', others) <= MaxOrderRisk * (MaxConcurrent - 1)
  <2>1. \A b \in others : b \in Running' /\ Cost'[b] \in Nat /\ Cost'[b] <= MaxOrderRisk
    BY ClearedFactsNext DEF ClearedSound, Pending
  <2>2. /\ IsFiniteSet(Running') /\ Cardinality(Running') <= MaxConcurrent
        /\ Cardinality(Running') \in Nat
    BY FS_CardinalityType DEF Overlap
  <2>3. IsFiniteSet(Running' \ {a}) /\ Cardinality(Running' \ {a}) = Cardinality(Running') - 1
    BY <1>1, <2>2, FS_RemoveElement
  <2>4. others \in SUBSET (Running' \ {a})
    BY <2>1
  <2> HIDE DEF others
  <2>5. /\ IsFiniteSet(others) /\ Cardinality(others) \in Nat
        /\ Cardinality(others) <= Cardinality(Running' \ {a})
    BY <2>3, <2>4, FS_Subset, FS_CardinalityType
  <2>6. SumFunctionOnSet(Cost', others) <= MaxOrderRisk * Cardinality(others)
    BY <1>1, <2>1, <2>5, SumBound
  <2>7. SumFunctionOnSet(Cost', others) \in Nat
    BY <2>1, <2>5, SumNat
  <2>8. MaxConcurrent - 1 \in Nat /\ Cardinality(others) <= MaxConcurrent - 1
    BY <2>2, <2>3, <2>5, ExecutorAssumption
  <2>9. \A m, n, k \in Nat : m <= n => k * m <= k * n /\ k * m \in Nat /\ k * n \in Nat
    OBVIOUS
  <2>10. /\ MaxOrderRisk * Cardinality(others) <= MaxOrderRisk * (MaxConcurrent - 1)
         /\ MaxOrderRisk * Cardinality(others) \in Nat
         /\ MaxOrderRisk * (MaxConcurrent - 1) \in Nat
    BY <1>1, <2>5, <2>8, <2>9
  <2>11. QED
    BY <2>5, <2>6, <2>7, <2>10
<1>8. InTime(day)' = (before \cup others) \cup {a}
  BY <1>4 DEF InTime, PlacedInTime
<1>9. SumFunctionOnSet(Cost', InTime(day)') <= SpendLimit
  <2> DEFINE rest == before \cup others
  <2>1. before \cap others = {} /\ a \notin rest
    BY <1>4 DEF PlacedInTime, Placed, Pending
  <2>2. /\ \A b \in before : Cost'[b] \in Nat
        /\ \A b \in others : Cost'[b] \in Nat
    <3>1. \A b \in before : b \in Cleared'
      BY <1>4 DEF PlacedInTime, Placed, Cleared, Out
    <3>2. QED
      BY <3>1, ClearedFactsNext DEF ClearedSound, Pending
  <2> HIDE DEF before, others
  <2>3. SumFunctionOnSet(Cost', rest)
            = SumFunctionOnSet(Cost', before) + SumFunctionOnSet(Cost', others)
    BY <1>6, <1>7, <2>1, <2>2, SumUnion
  <2>4. IsFiniteSet(rest) /\ \A b \in rest \cup {a} : Cost'[b] \in Int
    <3>1. IsFiniteSet(rest)
      BY <1>6, <1>7, FS_Union
    <3>2. Cost'[a] \in Int
      BY <1>1
    <3>3. QED
      BY <2>2, <3>1, <3>2
  <2> HIDE DEF rest
  <2>5. SumFunctionOnSet(Cost', rest \cup {a}) = Cost'[a] + SumFunctionOnSet(Cost', rest)
    BY <2>1, <2>4, SumAdd
  <2>6. InTime(day)' = rest \cup {a}
    BY <1>8 DEF rest
  <2> DEFINE room == MaxOrderRisk * (MaxConcurrent - 1)
             sBefore == SumFunctionOnSet(Cost', before)
             sOthers == SumFunctionOnSet(Cost', others)
  <2>7. room \in Int /\ MaxNotional \in Int
    <3>1. MaxConcurrent - 1 \in Int
      BY ExecutorAssumption
    <3>2. \A m, n \in Int : m * n \in Int
      OBVIOUS
    <3>3. QED
      BY <1>1, <3>1, <3>2, SpendLimitType
  <2>8. /\ sBefore \in Nat /\ sOthers \in Nat /\ Cost'[a] \in Nat /\ DailySpend(day) \in Nat
        /\ sBefore <= DailySpend(day) /\ sOthers <= room
        /\ DailySpend(day) + Cost'[a] <= MaxNotional
    BY <1>1, <1>5, <1>6, <1>7
  <2>9. /\ SumFunctionOnSet(Cost', InTime(day)') = Cost'[a] + (sBefore + sOthers)
        /\ SpendLimit = MaxNotional + room
    BY <2>3, <2>5, <2>6 DEF SpendLimit
  <2> HIDE DEF room, sBefore, sOthers
  <2>10. QED
    BY <2>7, <2>8, <2>9
<1>10. \A b \in Cleared' : Cost'[b] <= MaxNotional
  <2>1. Cost'[a] <= MaxNotional
    BY <1>1, <1>5, SpendLimitType
  <2>2. QED
    BY <1>3, <2>1 DEF SpendKept
<1>11. ASSUME NEW d \in 0..day, d # day
       PROVE  InTime(d)' # {} => SumFunctionOnSet(Cost', InTime(d)') <= SpendLimit
  <2>1. InTime(d)' = InTime(d)
    BY <1>4, <1>11 DEF InTime, PlacedInTime
  <2>2. InTime(d) \subseteq Placed /\ \A b \in InTime(d) : b \in Cleared' /\ b # a
    BY <1>4, <1>11 DEF InTime, PlacedInTime, Placed, Cleared, Out
  <2>3. \A b \in InTime(d) : Cost'[b] = Cost[b] /\ Cost[b] \in Nat
    BY <1>2, <1>3, <2>2
  <2>4. IsFiniteSet(InTime(d)) /\ (InTime(d) # {} => SumFunctionOnSet(Cost, InTime(d)) <= SpendLimit)
    BY ClearedFinite DEF SpendKept
  <2>5. QED
    BY <2>1, <2>3, <2>4, SpendLimitType, LimitOnPart
<1>12. \A b \in Placed' : orders'[b].day <= day
  BY <1>4 DEF SpendKept
<1>13. QED
  BY <1>9, <1>10, <1>11, <1>12 DEF SpendKept, SpendLimit

(* A new day starts with what may still be accepted: at most one order of   *)
(* each running call, and the first of them is within the limit by itself.  *)
LEMMA MidnightKeepsSpend ==
    ASSUME IInv, Overlap, SpendKept, Midnight
    PROVE  SpendKept'
<1> SUFFICES ASSUME "budget" \in Providers
             PROVE  SpendKept'
  BY DEF SpendKept
<1>1. /\ day' = day + 1 /\ day \in Nat /\ call' = call /\ orders' = orders /\ wire' = wire
  BY DEF Midnight, IInv, TypeOK
<1>2. /\ Cost' = Cost /\ Cleared' = Cleared /\ Placed' = Placed /\ Pending' = Pending
      /\ \A d : PlacedInTime(d)' = PlacedInTime(d)
  BY <1>1 DEF Cost, Cleared, Out, Placed, Pending, PlacedInTime
<1>3. \A b \in Placed : orders[b].day <= day /\ orders[b].day \in Nat
  BY DEF SpendKept, Placed, IInv, TypeOK, Orders
<1>4. \A b \in Placed' : orders'[b].day <= day'
  BY <1>1, <1>2, <1>3
<1>5. ASSUME NEW d \in 0..day
      PROVE  InTime(d)' # {} => SumFunctionOnSet(Cost, InTime(d)') <= SpendLimit
  <2>1. InTime(d)' \in SUBSET InTime(d)
    BY <1>1, <1>2, <1>5 DEF InTime
  <2>2. IsFiniteSet(InTime(d)) /\ \A x \in InTime(d) : Cost[x] \in Nat
    BY ClearedFinite, ClearedFacts DEF ClearedSound
  <2>3. InTime(d) # {} => SumFunctionOnSet(Cost, InTime(d)) <= SpendLimit
    BY DEF SpendKept
  <2>4. QED
    BY <2>1, <2>2, <2>3, SpendLimitType, LimitOnPart
<1>6. ASSUME NEW d \in Nat, d = day + 1
      PROVE  InTime(d)' = Pending
  <2>1. PlacedInTime(d) = {}
    BY <1>1, <1>3, <1>6 DEF PlacedInTime
  <2>2. QED
    BY <1>1, <1>2, <1>6, <2>1 DEF InTime
<1>7. ASSUME Pending # {}
      PROVE  SumFunctionOnSet(Cost, Pending) <= SpendLimit
  <2>1. PICK a \in Pending : TRUE
    BY <1>7
  <2>2. \A b \in Pending : b \in Running /\ Cost[b] \in Nat /\ Cost[b] <= MaxOrderRisk
                           /\ MaxOrderRisk \in Nat
    BY ClearedFacts DEF ClearedSound, Pending
  <2>3. /\ IsFiniteSet(Running) /\ Cardinality(Running) <= MaxConcurrent
        /\ Cardinality(Running) \in Nat
    BY FS_CardinalityType DEF Overlap
  <2>4. /\ IsFiniteSet(Pending) /\ Cardinality(Pending) <= Cardinality(Running)
    <3>1. Pending \in SUBSET Running
      BY <2>2
    <3>2. QED
      BY <2>3, <3>1, FS_Subset
  <2> DEFINE others == Pending \ {a}
  <2>5. /\ IsFiniteSet(others) /\ Cardinality(others) = Cardinality(Pending) - 1
        /\ Cardinality(Pending) \in Nat /\ Cardinality(others) \in Nat
    BY <2>1, <2>4, FS_RemoveElement, FS_CardinalityType
  <2>6. SumFunctionOnSet(Cost, Pending) = Cost[a] + SumFunctionOnSet(Cost, others)
    <3>1. \A b \in Pending : Cost[b] \in Int
      BY <2>2
    <3>2. QED
      BY <2>1, <2>4, <3>1, SumWithout
  <2>7. \A b \in others : Cost[b] \in Nat /\ Cost[b] <= MaxOrderRisk
    BY <2>2
  <2> HIDE DEF others
  <2>8. SumFunctionOnSet(Cost, others) <= MaxOrderRisk * Cardinality(others)
    BY <2>1, <2>2, <2>5, <2>7, SumBound
  <2>9. SumFunctionOnSet(Cost, others) \in Nat
    BY <2>5, <2>7, SumNat
  <2>10. MaxConcurrent - 1 \in Nat /\ Cardinality(others) <= MaxConcurrent - 1
    BY <2>3, <2>4, <2>5, ExecutorAssumption
  <2>11. \A m, n, k \in Nat : m <= n => k * m <= k * n /\ k * m \in Nat /\ k * n \in Nat
    OBVIOUS
  <2>12. /\ MaxOrderRisk * Cardinality(others) <= MaxOrderRisk * (MaxConcurrent - 1)
         /\ MaxOrderRisk * Cardinality(others) \in Nat
         /\ MaxOrderRisk * (MaxConcurrent - 1) \in Nat
    BY <2>1, <2>2, <2>5, <2>10, <2>11
  <2>13. Cost[a] <= MaxNotional /\ Cost[a] \in Nat /\ MaxNotional \in Int
    BY <2>1, <2>2, SpendLimitType DEF SpendKept, Pending
  <2> DEFINE room == MaxOrderRisk * (MaxConcurrent - 1)
             sOthers == SumFunctionOnSet(Cost, others)
  <2>14. /\ room \in Nat /\ sOthers \in Nat /\ sOthers <= room
         /\ SumFunctionOnSet(Cost, Pending) = Cost[a] + sOthers
         /\ SpendLimit = MaxNotional + room
    BY <2>6, <2>8, <2>9, <2>12 DEF SpendLimit
  <2> HIDE DEF room, sOthers
  <2>15. QED
    BY <2>13, <2>14
<1>8. QED
  <2>1. \A d \in 0..day' : d \in 0..day \/ (d \in Nat /\ d = day + 1)
    BY <1>1
  <2>2. \A a \in Cleared' : Cost'[a] <= MaxNotional
    BY <1>2 DEF SpendKept
  <2>3. \A d \in 0..day' : InTime(d)' # {} => SumFunctionOnSet(Cost', InTime(d)') <= SpendLimit
    BY <1>2, <1>5, <1>6, <1>7, <2>1
  <2>4. QED
    BY <1>4, <2>2, <2>3 DEF SpendKept, SpendLimit

LEMMA InitSpend == Init => SpendKept
<1> SUFFICES ASSUME Init, "budget" \in Providers PROVE SpendKept
  BY DEF SpendKept
<1>1. Cleared = {} /\ Placed = {} /\ \A d : InTime(d) = {}
  BY IdleIsACall DEF Init, Cleared, Out, Placed, InTime, PlacedInTime, Pending
<1>2. QED
  BY <1>1 DEF SpendKept

(* A call that the step leaves alone, and its order but for an amendment.   *)
LEMMA UntouchedIsQuiet ==
    ASSUME SpendKept, "budget" \in Providers, NEW b \in Attempts,
           call'[b] = call[b], wire'[b] => wire[b],
           \/ orders'[b] = orders[b]
           \/ /\ orders[b] # NoOrder /\ orders'[b] # NoOrder
              /\ orders'[b].day = orders[b].day /\ orders'[b].late = orders[b].late
    PROVE  Quiet(b)
<1>1. orders[b] # NoOrder => orders[b].day <= day
  BY DEF SpendKept, Placed
<1>2. Out(b)' => Out(b)
  BY DEF Out
<1>3. QED
  BY <1>1, <1>2 DEF Quiet, Cleared, Pending

(* A step of one call that hands over nothing and finds it cleared, done or *)
(* not past the spend check.                                                *)
LEMMA StepIsQuiet ==
    ASSUME IInv, SpendKept, "budget" \in Providers, NEW a \in Attempts,
           call'[a].req = call[a].req \/ call[a].pc = "idle", orders' = orders,
           call'[a].pc \notin {"sent", "done"} => wire'[a] = wire[a],
           call'[a].pc = "done" => (wire'[a] => wire[a]),
           call[a].pc \in Stages \cup {"idle", "sent"},
           \/ call'[a].pc \in {"sync", "loss", "spend", "done"}
           \/ call'[a].failures # {} /\ call'[a].pc \notin {"sent", "done"}
           \/ call[a].pc \in {"position", "book", "grade", "confirm"} /\ call[a].failures = {}
    PROVE  Quiet(a)
<1>1. call[a].pc # "sent" => ~Out(a)
  BY InsideNothingOut
<1>2. orders[a] # NoOrder => orders[a].day <= day /\ call[a].pc = "sent"
  BY <1>1 DEF SpendKept, Placed, Out
<1>3. CASE call'[a].pc = "done"
  BY <1>1, <1>2, <1>3 DEF Quiet, Cleared, Pending, Out
<1>4. CASE \/ call'[a].pc \in {"sync", "loss", "spend"}
           \/ call'[a].failures # {} /\ call'[a].pc \notin {"sent", "done"}
  <2>1. wire'[a] = wire[a] /\ orders'[a] = orders[a]
    BY <1>4
  <2>2. a \in Cleared' => Out(a)
    BY <1>4, <2>1 DEF Cleared, Out
  <2>3. a \in Cleared' => call[a].pc = "sent"
    BY <1>1, <2>2
  <2>4. QED
    BY <1>2, <1>4, <2>1, <2>2, <2>3 DEF Quiet, Cleared, Pending, Out
<1>5. CASE call[a].pc \in {"position", "book", "grade", "confirm"} /\ call[a].failures = {}
  <2>1. a \in Cleared /\ a \in Pending /\ orders[a] = NoOrder
    BY <1>2, <1>5 DEF Cleared, Pending
  <2>2. QED
    BY <1>5, <2>1 DEF Quiet
<1>6. QED
  BY <1>3, <1>4, <1>5

(* What a check that is done leaves behind: one call has moved on.           *)
AdvanceFacts(a, s, t, fails) ==
    /\ day' = day /\ orders' = orders /\ wire' = wire
    /\ call[a].pc = s /\ call'[a].pc = t /\ call'[a].req = call[a].req
    /\ call'[a].failures = call[a].failures \cup fails
    /\ s \in Stages /\ t \in Stages

LEMMA AdvanceChanges ==
    ASSUME IInv, NEW a \in Attempts, NEW s \in Stages, NEW t \in Stages, NEW fails,
           Advance(a, s, t, fails)
    PROVE  AdvanceFacts(a, s, t, fails)
<1> DEFINE moved == [call[a] EXCEPT !.pc = t, !.failures = call[a].failures \cup fails]
<1>1. call' = [call EXCEPT ![a] = moved]
  BY Zenon DEF Advance
<1>2. call[a] \in Calls /\ call \in [Attempts -> Calls]
  BY DEF IInv, TypeOK
<1>3. moved.pc = t /\ moved.req = call[a].req /\ moved.failures = call[a].failures \cup fails
  BY <1>2 DEF Calls
<1> HIDE DEF moved
<1>4. call'[a] = moved
  BY <1>1, <1>2
<1>5. QED
  BY <1>3, <1>4 DEF AdvanceFacts, Advance, Environment

LEMMA CallStepIsStep ==
    ASSUME IInv, NEW a \in Attempts, CallStep(a)
    PROVE  StepOf(a)
<1>1. CASE CheckLoss(a) \/ CheckSpend(a) \/ CheckPosition(a) \/ CheckBook(a) \/ CheckGrade(a)
  BY <1>1, ProviderCheckAdvances, AdvanceIsStep
<1>2. QED
  BY <1>1, SyncChecksIsStep, RefuseIsStep, SubmitIsStep, ClientEndIsStep DEF CallStep

LEMMA DailySpendType ==
    ASSUME IInv, Overlap
    PROVE  \A d : DailySpend(d) \in Nat
<1> SUFFICES ASSUME NEW d PROVE DailySpend(d) \in Nat
  OBVIOUS
<1> DEFINE today == {b \in Placed : orders[b].day = d}
<1>1. IsFiniteSet(today) /\ \A b \in today : Cost[b] \in Nat
  BY ClearedFinite, ClearedFacts, FS_Subset DEF ClearedSound
<1>2. DailySpend(d) = SumFunctionOnSet(Cost, today)
  BY DEF DailySpend, Cost
<1> HIDE DEF today
<1>3. QED
  BY <1>1, <1>2, SumNat

LEMMA NextSpend ==
    IInv /\ IInv' /\ Overlap /\ Overlap' /\ SpendKept /\ [Next]_vars => SpendKept'
<1> SUFFICES ASSUME IInv, IInv', Overlap, Overlap', SpendKept, [Next]_vars, "budget" \in Providers
             PROVE  SpendKept'
  BY DEF SpendKept
<1>1. CASE Midnight
  BY <1>1, MidnightKeepsSpend
<1>2. CASE ToggleKillSwitch \/ UNCHANGED vars
  <2>1. day' = day /\ \A b \in Attempts : Quiet(b)
    BY <1>2, UntouchedIsQuiet DEF ToggleKillSwitch, vars
  <2>2. QED
    BY <2>1, QuietKeepsSpend
(* The others: what a step of one call does to all of them.                 *)
<1>3. ASSUME NEW a \in Attempts, \A b \in Attempts \ {a} : call'[b] = call[b],
             \A b \in Attempts \ {a} : wire'[b] => wire[b], orders' = orders
      PROVE  \A b \in Attempts \ {a} : Quiet(b)
  BY <1>3, UntouchedIsQuiet
<1>4. ASSUME NEW a \in Attempts, NEW r \in Requests, Begin(a, r)
      PROVE  SpendKept'
  <2>1. /\ day' = day /\ orders' = orders /\ wire' = wire /\ call[a].pc = "idle"
        /\ call'[a].pc \in {"sync", "done"}
    <3>1. day' = day /\ orders' = orders /\ wire' = wire /\ call[a].pc = "idle"
      BY <1>4 DEF Begin, Environment
    <3>2. Starts(a)
      BY <1>4, <3>1, BeginIsStep DEF StepOf, Syncs, Moves, Ends, Stages
    <3>3. QED
      BY <3>1, <3>2 DEF Starts
  <2>2. \A b \in Attempts \ {a} : call'[b] = call[b]
    BY <1>4, BeginIsStep DEF StepOf
  <2>3. Quiet(a)
    BY <2>1, StepIsQuiet
  <2>4. QED
    BY <1>3, <2>1, <2>2, <2>3, QuietKeepsSpend
<1>5. ASSUME NEW a \in Attempts, CallStep(a) \/ Crash(a)
      PROVE  SpendKept'
  <2>1. \A b \in Attempts \ {a} : call'[b] = call[b]
    BY <1>5, CallStepIsStep, ClientEndIsStep DEF StepOf
  <2>2. ASSUME day' = day, orders' = orders, \A b \in Attempts \ {a} : wire'[b] => wire[b],
               Quiet(a)
        PROVE  SpendKept'
    BY <1>3, <2>1, <2>2, QuietKeepsSpend
  <2>3. ASSUME NEW s \in Stages \ {"sync"}, NEW t \in Stages \ {"sync"},
               NEW fails \in SUBSET FailureCodes, Advance(a, s, t, fails),
               t = "spend" \/ s \in {"position", "book", "grade"}
        PROVE  SpendKept'
    <3>1. AdvanceFacts(a, s, t, fails)
      BY <2>3, AdvanceChanges
    <3>2. Quiet(a)
      <4>1. CASE t = "spend"
        BY <3>1, <4>1, StepIsQuiet DEF AdvanceFacts
      <4>2. CASE s \in {"position", "book", "grade"}
        <5>1. call[a].failures = {} \/ (call'[a].failures # {} /\ call'[a].pc \notin {"sent", "done"})
          BY <3>1 DEF AdvanceFacts, Stages
        <5>2. QED
          BY <3>1, <4>2, <5>1, StepIsQuiet DEF AdvanceFacts
      <4>3. QED
        BY <2>3, <4>1, <4>2
    <3>3. QED
      BY <2>2, <3>1, <3>2 DEF AdvanceFacts
  <2>4. CASE CheckLoss(a)
    <3>1. \E fails \in SUBSET FailureCodes : Advance(a, "loss", "spend", fails)
      BY <2>4 DEF CheckLoss, FailureCodes
    <3>2. QED
      BY <2>3, <3>1 DEF Stages
  <2>5. CASE CheckSpend(a)
    <3>1. PICK fails \in SUBSET FailureCodes :
             /\ Advance(a, "spend", "position", fails)
             /\ fails = {} => ~(DailySpend(day) + Risk(call[a].req) > MaxNotional)
      BY <2>5 DEF CheckSpend, FailureCodes
    <3>2. AdvanceFacts(a, "spend", "position", fails)
      BY <3>1, AdvanceChanges DEF Stages
    <3>3. CASE call'[a].failures # {}
      <4>1. Quiet(a)
        BY <3>2, <3>3, StepIsQuiet DEF AdvanceFacts
      <4>2. QED
        BY <2>2, <3>2, <4>1 DEF AdvanceFacts
    <3>4. CASE call'[a].failures = {}
      <4>1. fails = {} /\ ~Out(a)
        BY <3>2, <3>4, InsideNothingOut DEF AdvanceFacts, Stages
      <4>2. DailySpend(day) + Risk(call[a].req) <= MaxNotional
        <5>1. call[a].req \in Requests
          BY DEF IInv, TypeOK, Calls
        <5>2. Risk(call[a].req) \in Int /\ DailySpend(day) \in Int
          BY <5>1, RiskType, DailySpendType
        <5>3. QED
          BY <3>1, <4>1, <5>2, SpendLimitType
      <4>3. a \in Pending'
        BY <3>2, <3>4, <4>1 DEF AdvanceFacts, Pending, Cleared, Out
      <4>4. \A b \in Attempts \ {a} : Quiet(b)
        BY <1>3, <2>1, <3>2 DEF AdvanceFacts
      <4>5. QED
        BY <3>2, <4>2, <4>3, <4>4, ClearingKeepsSpend DEF AdvanceFacts
    <3>5. QED
      BY <3>3, <3>4
  <2>6. CASE CheckPosition(a) \/ CheckBook(a) \/ CheckGrade(a)
    <3>1. PICK s \in Stages \ {"sync"}, t \in Stages \ {"sync"}, fails \in SUBSET FailureCodes :
             Advance(a, s, t, fails)
      BY <2>6, ProviderCheckAdvances
    <3>2. call[a].pc \in {"position", "book", "grade"}
      BY <2>6 DEF CheckPosition, CheckBook, CheckGrade, Advance
    <3>3. s \in {"position", "book", "grade"}
      BY <3>1, <3>2 DEF Advance
    <3>4. QED
      BY <2>3, <3>1, <3>3
  <2>7. CASE SyncChecks(a)
    <3>1. /\ day' = day /\ orders' = orders /\ wire' = wire /\ call[a].pc = "sync"
          /\ call'[a].pc = "loss" /\ call'[a].req = call[a].req
      BY <2>7 DEF SyncChecks, Environment, IInv, TypeOK, Calls
    <3>2. Quiet(a)
      BY <3>1, StepIsQuiet DEF Stages
    <3>3. QED
      BY <2>2, <3>1, <3>2
  <2>8. CASE Submit(a)
    <3>1. /\ day' = day /\ orders' = orders /\ call[a].pc = "confirm" /\ call[a].failures = {}
          /\ call'[a].pc = "sent" /\ call'[a].req = call[a].req
          /\ \A b \in Attempts \ {a} : wire'[b] => wire[b]
      BY <2>8 DEF Submit, Environment, IInv, TypeOK, Calls
    <3>2. Quiet(a)
      BY <3>1, StepIsQuiet DEF Stages
    <3>3. QED
      BY <2>2, <3>1, <3>2
  <2>9. ASSUME day' = day, orders' = orders, \A b \in Attempts : wire'[b] => wire[b],
               call[a].pc \in Stages \cup {"sent"}, call'[a].pc = "done",
               call'[a].req = call[a].req
        PROVE  SpendKept'
    <3>1. Quiet(a)
      BY <2>9, StepIsQuiet
    <3>2. QED
      BY <2>2, <2>9, <3>1
  <2>10. CASE Refuse(a) \/ Escape(a) \/ Respond(a) \/ Fail(a) \/ Crash(a)
    <3>1. call[a].pc \in Stages \cup {"sent"}
      BY <2>10 DEF Refuse, Escape, MayEscape, Respond, Fail, Crash, Running, Stages
    <3>2. call'[a].pc = "done" /\ call'[a].req = call[a].req
      <4>1. call \in [Attempts -> Calls] /\ call[a] \in Calls
        BY DEF IInv, TypeOK
      <4>2. CASE Refuse(a)
        BY <4>1, <4>2 DEF Refuse, Calls
      <4>3. CASE Escape(a) \/ Respond(a) \/ Fail(a) \/ Crash(a)
        <5>1. PICK outcome : call' = End(a, outcome)
          BY <4>3 DEF Escape, Respond, Fail, Crash
        <5> DEFINE c == [call[a] EXCEPT !.pc = "done", !.outcome = outcome]
        <5>2. call' = [call EXCEPT ![a] = c]
          BY <5>1, Zenon DEF End
        <5>3. c.pc = "done" /\ c.req = call[a].req
          BY <4>1 DEF Calls
        <5> HIDE DEF c
        <5>4. QED
          BY <4>1, <5>2, <5>3
      <4>4. QED
        BY <2>10, <4>2, <4>3
    <3>3. day' = day /\ orders' = orders /\ \A b \in Attempts : wire'[b] => wire[b]
      BY <2>10 DEF Refuse, Escape, Respond, Fail, Crash, Environment, IInv, TypeOK
    <3>4. QED
      BY <2>9, <3>1, <3>2, <3>3
  <2>11. QED
    BY <1>5, <2>4, <2>5, <2>6, <2>7, <2>8, <2>10 DEF CallStep
<1>6. ASSUME NEW a \in Attempts, Accept(a)
      PROVE  SpendKept'
  <2>1. /\ day' = day /\ call' = call /\ wire[a] /\ orders[a] = NoOrder
        /\ orders'[a].day = day /\ orders'[a].late = (call[a].pc = "done")
        /\ orders'[a] # NoOrder
    <3>1. /\ day' = day /\ call' = call /\ wire[a] /\ orders[a] = NoOrder
          /\ orders'[a].day = day /\ orders'[a].late = (call[a].pc = "done")
      BY <1>6 DEF Accept, Environment, IInv, TypeOK
    <3>2. orders'[a] # NoOrder
      <4> DEFINE o == [side |-> call[a].req.side, count |-> call[a].req.count,
                       price |-> call[a].req.price, day |-> day, late |-> call[a].pc = "done",
                       amended |-> FALSE, cancelled |-> FALSE]
      <4>1. call[a].req \in Requests /\ day \in Nat /\ (call[a].pc = "done") \in BOOLEAN
        BY DEF IInv, TypeOK, Calls
      <4>2. o \in Orders
        BY <4>1, ExecutorAssumption DEF Orders
      <4>3. orders' = [orders EXCEPT ![a] = o]
        BY <1>6, Zenon DEF Accept
      <4> HIDE DEF o
      <4>4. QED
        BY <4>2, <4>3, ExecutorAssumption DEF IInv, TypeOK
    <3>3. QED
      BY <3>1, <3>2
  <2>2. \A b \in Attempts \ {a} : orders'[b] = orders[b] /\ (wire'[b] => wire[b])
    BY <1>6 DEF Accept, IInv, TypeOK
  <2>3. \A b \in Attempts \ {a} : Quiet(b)
    BY <2>1, <2>2, UntouchedIsQuiet
  <2>4. Quiet(a)
    <3>1. a \in Cleared /\ (call[a].pc # "done" => a \in Pending)
      BY <2>1 DEF Cleared, Out, Pending
    <3>2. a \notin Pending'
      BY <2>1 DEF Pending
    <3>3. day <= day
      BY DEF IInv, TypeOK
    <3>4. QED
      BY <2>1, <3>1, <3>2, <3>3 DEF Quiet
  <2>5. QED
    BY <2>1, <2>3, <2>4, QuietKeepsSpend
<1>7. ASSUME NEW a \in Attempts, CancelOrder(a) \/ AmendOrder(a)
      PROVE  SpendKept'
  <2>1. day' = day /\ call' = call /\ wire' = wire /\ orders' = orders
    BY <1>7 DEF CancelOrder, AmendOrder, Modify
  <2>2. QED
    BY <2>1, UntouchedIsQuiet, QuietKeepsSpend
<1>8. ASSUME NEW a \in Attempts, ApplyMod(a)
      PROVE  SpendKept'
  <2>1. day' = day /\ call' = call /\ wire' = wire
    BY <1>8 DEF ApplyMod
  <2>2. orders[a] # NoOrder /\ orders'[a] # NoOrder
        /\ orders'[a].day = orders[a].day /\ orders'[a].late = orders[a].late
    <3> DEFINE cancelled == [orders[a] EXCEPT !.cancelled = TRUE]
               amended == [orders[a] EXCEPT !.amended = TRUE, !.count = mods[a].count,
                                            !.price = mods[a].price]
    <3>1. orders[a] # NoOrder /\ orders[a] \in Orders /\ mods[a] \in Mods
      BY <1>8 DEF ApplyMod, IInv, TypeOK, SentOnly
    <3>2. orders' \in {orders, [orders EXCEPT ![a] = cancelled], [orders EXCEPT ![a] = amended]}
      BY <1>8, Zenon DEF ApplyMod
    <3>3. /\ cancelled \in Orders
          /\ cancelled.day = orders[a].day /\ cancelled.late = orders[a].late
      BY <3>1 DEF Orders
    <3>4. /\ amended \in Orders
          /\ amended.day = orders[a].day /\ amended.late = orders[a].late
      <4>1. mods[a].count \in Int /\ mods[a].price \in Int
        BY <3>1 DEF Mods
      <4>2. QED
        BY <3>1, <4>1 DEF Orders
    <3> HIDE DEF cancelled, amended
    <3>5. QED
      BY <3>1, <3>2, <3>3, <3>4, ExecutorAssumption DEF IInv, TypeOK
  <2>3. \A b \in Attempts \ {a} : orders'[b] = orders[b]
    BY <1>8 DEF ApplyMod, IInv, TypeOK
  <2>4. \A b \in Attempts : Quiet(b)
    BY <2>1, <2>2, <2>3, UntouchedIsQuiet
  <2>5. QED
    BY <2>1, <2>4, QuietKeepsSpend
<1>9. QED
  BY <1>1, <1>2, <1>4, <1>5, <1>6, <1>7, <1>8 DEF Next

(* For any calls, however they overlap, and any days: a day places at most   *)
(* MaxConcurrent - 1 orders above the daily limit and those that are        *)
(* accepted after their call ended, and spends above the limit at most what *)
(* as many orders may risk (_check_budget_limits).                          *)
THEOREM DailyLimitsHold == Spec => []LimitsHold
<1>1. IInv /\ Overlap /\ SpendKept => NotionalOverrunBounded
  <2> SUFFICES ASSUME IInv, Overlap, SpendKept, "budget" \in Providers, NEW d \in 0..day,
                      DailySpend(d) > 0
               PROVE  DailySpend(d) <= MaxNotional
                        + MaxOrderRisk * ((MaxConcurrent - 1)
                                          + Cardinality({a \in Placed : orders[a].late}))
    BY DEF NotionalOverrunBounded
  <2> DEFINE today == {a \in Placed : orders[a].day = d}
             inTime == PlacedInTime(d)
             late == {a \in Placed : orders[a].late}
             lateToday == {a \in late : orders[a].day = d}
             room == MaxOrderRisk * (MaxConcurrent - 1)
             more == MaxOrderRisk * Cardinality(late)
  <2>1. /\ IsFiniteSet(inTime) /\ IsFiniteSet(late) /\ IsFiniteSet(lateToday)
        /\ \A a \in Placed : a \in Cleared /\ Cost[a] \in Nat \ {0} /\ Cost[a] <= MaxOrderRisk
                             /\ MaxOrderRisk \in Nat /\ Cost[a] <= MaxNotional
    <3>1. /\ IsFiniteSet(Placed) /\ IsFiniteSet(Cleared) /\ Placed \subseteq Cleared
      BY ClearedFinite
    <3>2. inTime \in SUBSET Placed /\ late \in SUBSET Placed /\ lateToday \in SUBSET Placed
      BY DEF PlacedInTime
    <3>3. IsFiniteSet(inTime) /\ IsFiniteSet(late) /\ IsFiniteSet(lateToday)
      BY <3>1, <3>2, FS_Subset
    <3>4. QED
      BY <3>1, <3>3, ClearedFacts DEF ClearedSound, SpendKept
  <2>2. today = inTime \cup lateToday /\ inTime \cap lateToday = {}
    BY DEF PlacedInTime, IInv, TypeOK, Orders, Placed
  <2>3. \A a \in inTime \cup lateToday : a \in Placed
    BY DEF PlacedInTime
  <2>4. DailySpend(d) = SumFunctionOnSet(Cost, today)
    BY DEF DailySpend, Cost
  <2>5. PICK a \in Placed : TRUE
    <3>1. Placed = {} => today = {}
      OBVIOUS
    <3>2. QED
      BY <2>4, <3>1, SumEmpty
  <2>6. /\ MaxOrderRisk \in Nat /\ MaxNotional \in Nat /\ MaxConcurrent - 1 \in Nat
        /\ Cardinality(late) \in Nat
    BY <2>1, <2>5, SpendLimitType, ExecutorAssumption, FS_CardinalityType
  <2> HIDE DEF inTime, lateToday, today, late
  <2>7. SumFunctionOnSet(Cost, today)
           = SumFunctionOnSet(Cost, inTime) + SumFunctionOnSet(Cost, lateToday)
    BY <2>1, <2>2, <2>3, SumUnion
  <2>8. /\ SumFunctionOnSet(Cost, inTime) \in Nat /\ SumFunctionOnSet(Cost, lateToday) \in Nat
        /\ SumFunctionOnSet(Cost, lateToday) <= MaxOrderRisk * Cardinality(lateToday)
    <3>1. /\ \A x \in inTime : Cost[x] \in Nat
          /\ \A x \in lateToday : Cost[x] \in Nat /\ Cost[x] <= MaxOrderRisk
      BY <2>1, <2>3
    <3>2. QED
      BY <2>1, <2>6, <3>1, SumNat, SumBound
  <2>9. \A m, n, k \in Nat : m <= n => k * m <= k * n /\ k * m \in Nat /\ k * n \in Nat
    OBVIOUS
  <2>10. MaxOrderRisk * Cardinality(lateToday) <= more /\ more \in Nat /\ room \in Nat
         /\ MaxOrderRisk * Cardinality(lateToday) \in Nat
    <3>1. lateToday \in SUBSET late
      BY DEF late, lateToday
    <3>2. Cardinality(lateToday) <= Cardinality(late) /\ Cardinality(lateToday) \in Nat
      BY <2>1, <3>1, FS_Subset, FS_CardinalityType
    <3>3. QED
      BY <2>6, <2>9, <3>2
  <2>11. SumFunctionOnSet(Cost, inTime) <= MaxNotional + room
    <3>1. CASE inTime = {}
      BY <2>6, <2>10, <3>1, SumEmpty
    <3>2. CASE inTime # {}
      <4>1. inTime \in SUBSET InTime(d) /\ InTime(d) # {}
        BY <3>2 DEF inTime, InTime
      <4>2. IsFiniteSet(InTime(d)) /\ \A x \in InTime(d) : Cost[x] \in Nat
        BY ClearedFinite, ClearedFacts DEF ClearedSound
      <4>3. SumFunctionOnSet(Cost, InTime(d)) <= SpendLimit
        BY <4>1 DEF SpendKept
      <4>4. SumFunctionOnSet(Cost, inTime) <= SumFunctionOnSet(Cost, InTime(d))
            /\ SumFunctionOnSet(Cost, InTime(d)) \in Nat
        BY <4>1, <4>2, SumSubset, SumNat
      <4>5. SpendLimit = MaxNotional + room
        BY DEF SpendLimit
      <4> HIDE DEF room
      <4>6. QED
        BY <2>6, <2>8, <2>10, <4>3, <4>4, <4>5
    <3>3. QED
      BY <3>1, <3>2
  <2>12. MaxOrderRisk * ((MaxConcurrent - 1) + Cardinality(late)) = room + more
    <3>1. \A k, m, n \in Nat : k * (m + n) = k * m + k * n
      OBVIOUS
    <3>2. QED
      BY <2>6, <3>1
  <2> HIDE DEF room, more
  <2>13. DailySpend(d) <= MaxNotional + (room + more)
    BY <2>4, <2>6, <2>7, <2>8, <2>10, <2>11
  <2>14. QED
    BY <2>12, <2>13 DEF late
<1>2. Init => LInv /\ SpendKept
  BY InitLInv, InitSpend
<1>3. LInv /\ SpendKept /\ [Next]_vars => LInv' /\ SpendKept'
  <2>1. LInv /\ [Next]_vars => LInv'
    BY NextLInv
  <2>2. LInv /\ LInv' /\ SpendKept /\ [Next]_vars => SpendKept'
    BY NextSpend DEF LInv
  <2>3. QED
    BY <2>1, <2>2
<1>4. LInv /\ SpendKept => TypeOK /\ NotionalOverrunBounded
  BY <1>1 DEF LInv, IInv
<1>5. Spec => [](LInv /\ SpendKept)
  BY <1>2, <1>3, PTL DEF Spec
<1>6. TypeOK /\ DailyLimitOverrunBounded /\ NotionalOverrunBounded => LimitsHold
  BY DEF LimitsHold
<1>7. QED
  BY <1>4, <1>5, <1>6, DailyLimitHolds, PTL
=============================================================================
