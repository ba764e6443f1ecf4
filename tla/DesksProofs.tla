---- MODULE DesksProofs ----
(***************************************************************************)
(* Proofs about the commands that keep their state in files.               *)
(*                                                                         *)
(* Alerts: no command loses an alert it was not asked to remove            *)
(* (NoAlertIsLost), at most one daemon lives and no line of its log is     *)
(* lost (OneDaemonAtATime), and a monitor tells exactly what came true of  *)
(* what it saw (EveryAlertIsTold).  Research: no thesis is lost            *)
(* (NoThesisIsLost; with the alerts, NothingIsLost), no budget is exceeded *)
(* by more than one call's surprise (BudgetsHold) and the cache mixes      *)
(* nothing up (CacheIsSound).                                              *)
(***************************************************************************)
EXTENDS Desks, FiniteSetTheorems, SequenceTheorems, TLAPS

-----------------------------------------------------------------------------
(* Sequences.                                                              *)

Distinct(s) == \A i, j \in DOMAIN s : s[i] = s[j] => i = j

LEMMA SeqIndices ==
    ASSUME NEW S, NEW s \in Seq(S)
    PROVE  /\ DOMAIN s = 1..Len(s) /\ Len(s) \in Nat
           /\ \A i \in 1..Len(s) : s[i] \in S
           /\ ToSet(s) = {s[i] : i \in 1..Len(s)} /\ ToSet(s) \subseteq S
<1>1. DOMAIN s = 1..Len(s) /\ Len(s) \in Nat
  BY LenProperties
<1>2. \A i \in 1..Len(s) : s[i] \in S
  BY ElementOfSeq
<1>3. QED
  BY <1>1, <1>2 DEF ToSet

LEMMA AppendedTo ==
    ASSUME NEW S, NEW s \in Seq(S), NEW e \in S
    PROVE  /\ Append(s, e) \in Seq(S) /\ Len(Append(s, e)) = Len(s) + 1
           /\ \A i \in 1..Len(s) : Append(s, e)[i] = s[i]
           /\ Append(s, e)[Len(s) + 1] = e
           /\ ToSet(Append(s, e)) = ToSet(s) \union {e}
           /\ Distinct(s) /\ e \notin ToSet(s) => Distinct(Append(s, e))
<1>1. /\ Append(s, e) \in Seq(S) /\ Len(Append(s, e)) = Len(s) + 1
      /\ \A i \in 1..Len(s) : Append(s, e)[i] = s[i]
      /\ Append(s, e)[Len(s) + 1] = e
  BY AppendProperties
<1>2. Len(s) \in Nat /\ DOMAIN s = 1..Len(s) /\ DOMAIN Append(s, e) = 1..(Len(s) + 1)
  BY <1>1, LenProperties
<1>3. ToSet(Append(s, e)) = ToSet(s) \union {e}
  <2>1. ASSUME NEW x \in ToSet(Append(s, e)) PROVE x \in ToSet(s) \union {e}
    <3>1. PICK i \in 1..(Len(s) + 1) : x = Append(s, e)[i]
      BY <1>2 DEF ToSet
    <3>2. i \in 1..Len(s) \/ i = Len(s) + 1
      BY <1>2
    <3>3. QED
      BY <1>1, <1>2, <3>1, <3>2 DEF ToSet
  <2>2. ASSUME NEW x \in ToSet(s) PROVE x \in ToSet(Append(s, e))
    <3>1. PICK i \in 1..Len(s) : x = s[i]
      BY <1>2 DEF ToSet
    <3>2. i \in 1..(Len(s) + 1) /\ x = Append(s, e)[i]
      BY <1>1, <1>2, <3>1
    <3>3. QED
      BY <1>2, <3>2 DEF ToSet
  <2>3. e \in ToSet(Append(s, e))
    <3>1. Len(s) + 1 \in 1..(Len(s) + 1)
      BY <1>2
    <3>2. QED
      BY <1>1, <1>2, <3>1 DEF ToSet
  <2>4. QED
    BY <2>1, <2>2, <2>3
<1>4. ASSUME Distinct(s), e \notin ToSet(s),
             NEW i \in 1..(Len(s) + 1), NEW j \in 1..(Len(s) + 1), Append(s, e)[i] = Append(s, e)[j]
      PROVE  i = j
  <2>1. \A k \in 1..Len(s) : s[k] # e
    BY <1>2, <1>4 DEF ToSet
  <2>2. /\ i \in 1..Len(s) \/ i = Len(s) + 1
        /\ j \in 1..Len(s) \/ j = Len(s) + 1
    BY <1>2
  <2>3. CASE i \in 1..Len(s) /\ j \in 1..Len(s)
    BY <1>1, <1>2, <1>4, <2>3 DEF Distinct
  <2>4. QED
    BY <1>1, <1>4, <2>1, <2>2, <2>3
<1>5. QED
  BY <1>1, <1>2, <1>3, <1>4 DEF Distinct

LEMMA RemovedAt ==
    ASSUME NEW S, NEW s \in Seq(S), NEW i \in 1..Len(s)
    PROVE  /\ RemoveAt(s, i) \in Seq(S) /\ Len(RemoveAt(s, i)) = Len(s) - 1
           /\ \A a \in 1..Len(RemoveAt(s, i)) : RemoveAt(s, i)[a] = s[IF a < i THEN a ELSE a + 1]
<1>1. Len(s) \in Nat /\ i \in Int /\ 1 <= i /\ i <= Len(s)
  BY LenProperties
<1> DEFINE l == SubSeq(s, 1, i - 1)
           r == SubSeq(s, i + 1, Len(s))
<1>2. \A a \in 1..Len(s) : s[a] \in S
  BY ElementOfSeq
<1>3. /\ l \in Seq(S) /\ Len(l) = i - 1
      /\ \A a \in 1..(i - 1) : l[a] = s[a]
  <2>1. \A a \in 1..(i - 1) : s[a] \in S
    BY <1>1, <1>2
  <2>2. 1 \in Int /\ i - 1 \in Int
    BY <1>1
  <2>3. /\ l \in Seq(S) /\ Len(l) = IF 1 <= i - 1 THEN (i - 1) - 1 + 1 ELSE 0
        /\ \A a \in 1..((i - 1) - 1 + 1) : l[a] = s[1 + a - 1]
    BY ONLY <2>1, <2>2, SubSeqProperties
  <2>4. QED
    BY <1>1, <2>3
<1>4. /\ r \in Seq(S) /\ Len(r) = Len(s) - i
      /\ \A a \in 1..(Len(s) - i) : r[a] = s[a + i]
  <2>1. \A a \in (i + 1)..Len(s) : s[a] \in S
    BY <1>1, <1>2
  <2>2. i + 1 \in Int /\ Len(s) \in Int
    BY <1>1
  <2>3. /\ r \in Seq(S) /\ Len(r) = IF i + 1 <= Len(s) THEN Len(s) - (i + 1) + 1 ELSE 0
        /\ \A a \in 1..(Len(s) - (i + 1) + 1) : r[a] = s[(i + 1) + a - 1]
    BY ONLY <2>1, <2>2, SubSeqProperties
  <2>4. QED
    BY <1>1, <2>3
<1>5. /\ l \o r \in Seq(S) /\ Len(l \o r) = Len(l) + Len(r)
      /\ \A a \in 1..(Len(l) + Len(r)) : (l \o r)[a] = IF a <= Len(l) THEN l[a] ELSE r[a - Len(l)]
  BY ONLY <1>3, <1>4, ConcatProperties
<1>6. RemoveAt(s, i) = l \o r
  BY DEF RemoveAt
<1> HIDE DEF l, r
<1>7. Len(l \o r) = Len(s) - 1
  BY <1>1, <1>3, <1>4, <1>5
<1>8. ASSUME NEW a \in 1..Len(l \o r) PROVE (l \o r)[a] = s[IF a < i THEN a ELSE a + 1]
  <2>1. CASE a < i
    <3>1. a <= Len(l) /\ a \in 1..(i - 1)
      BY <1>1, <1>3, <2>1
    <3>2. QED
      BY <1>3, <1>5, <2>1, <3>1
  <2>2. CASE ~(a < i)
    <3>1. ~(a <= Len(l)) /\ a - Len(l) \in 1..(Len(s) - i) /\ (a - Len(l)) + i = a + 1
      BY <1>1, <1>3, <1>7, <2>2
    <3>2. (l \o r)[a] = r[a - Len(l)]
      BY <1>5, <3>1
    <3>3. r[a - Len(l)] = s[(a - Len(l)) + i]
      BY <1>4, <3>1
    <3>4. QED
      BY <2>2, <3>1, <3>2, <3>3
  <2>3. QED
    BY <2>1, <2>2
<1>9. QED
  BY <1>5, <1>6, <1>7, <1>8

(* Of a sequence without repetition, one element is removed.               *)
LEMMA RemovedFrom ==
    ASSUME NEW S, NEW s \in Seq(S), NEW i \in 1..Len(s), Distinct(s)
    PROVE  /\ RemoveAt(s, i) \in Seq(S)
           /\ ToSet(RemoveAt(s, i)) = ToSet(s) \ {s[i]}
           /\ Distinct(RemoveAt(s, i))
<1> DEFINE t == RemoveAt(s, i)
           old(a) == IF a < i THEN a ELSE a + 1
<1>1. /\ t \in Seq(S) /\ Len(t) = Len(s) - 1
      /\ \A a \in 1..Len(t) : t[a] = s[old(a)]
  BY RemovedAt
<1>2. /\ DOMAIN s = 1..Len(s) /\ Len(s) \in Nat /\ DOMAIN t = 1..Len(t)
      /\ ToSet(s) = {s[a] : a \in 1..Len(s)} /\ ToSet(t) = {t[a] : a \in 1..Len(t)}
  BY <1>1, SeqIndices
<1> HIDE DEF t
<1>3. \A a \in 1..Len(t) : old(a) \in 1..Len(s) /\ old(a) # i
  BY <1>1, <1>2
<1>4. \A a, b \in 1..Len(t) : old(a) = old(b) => a = b
  BY <1>1, <1>2
<1>5. ASSUME NEW b \in 1..Len(s), b # i PROVE \E a \in 1..Len(t) : old(a) = b
  <2>1. CASE b < i
    <3>1. b \in 1..Len(t) /\ old(b) = b
      BY <1>1, <1>2, <2>1
    <3>2. QED
      BY <3>1
  <2>2. CASE ~(b < i)
    <3>1. b - 1 \in 1..Len(t) /\ old(b - 1) = b
      BY <1>1, <1>2, <1>5, <2>2
    <3>2. QED
      BY <3>1
  <2>3. QED
    BY <2>1, <2>2
<1> HIDE DEF old
<1>6. \A a \in 1..Len(t) : s[old(a)] # s[i]
  BY <1>2, <1>3 DEF Distinct
<1>7. ToSet(t) \subseteq ToSet(s) \ {s[i]}
  BY <1>1, <1>2, <1>3, <1>6
<1>8. ASSUME NEW x \in ToSet(s), x # s[i] PROVE x \in ToSet(t)
  <2>1. PICK b \in 1..Len(s) : x = s[b]
    BY <1>2
  <2>2. PICK a \in 1..Len(t) : old(a) = b
    BY <1>5, <1>8, <2>1
  <2>3. QED
    BY <1>1, <1>2, <2>1, <2>2
<1>9. Distinct(t)
  <2>1. ASSUME NEW a \in 1..Len(t), NEW b \in 1..Len(t), t[a] = t[b] PROVE a = b
    <3>1. s[old(a)] = s[old(b)]
      BY <1>1, <2>1
    <3>2. old(a) = old(b)
      BY <1>2, <1>3, <3>1 DEF Distinct
    <3>3. QED
      BY <1>4, <3>2
  <2>2. QED
    BY <1>2, <2>1 DEF Distinct
<1>10. QED
  BY <1>1, <1>7, <1>8, <1>9 DEF t

(* The tail of a sequence without repetition lacks just its head.          *)
LEMMA TailOf ==
    ASSUME NEW S, NEW s \in Seq(S), s # <<>>
    PROVE  /\ Head(s) \in S /\ Tail(s) \in Seq(S)
           /\ ToSet(s) = {Head(s)} \union ToSet(Tail(s))
           /\ Distinct(s) => Head(s) \notin ToSet(Tail(s)) /\ Distinct(Tail(s))
<1> DEFINE t == Tail(s)
<1>1. /\ Head(s) \in S /\ t \in Seq(S) /\ Len(t) = Len(s) - 1
      /\ Head(s) = s[1] /\ \A a \in 1..Len(t) : t[a] = s[a + 1]
  <2>1. Head(s) \in S /\ t \in Seq(S) /\ Len(t) = Len(s) - 1
    BY HeadTailProperties
  <2>2. \A a \in 1..Len(t) : t[a] = s[a + 1]
    BY HeadTailProperties
  <2>3. Head(s) = s[1]
    OBVIOUS
  <2>4. QED
    BY <2>1, <2>2, <2>3
<1>2. Len(s) \in Nat /\ Len(s) # 0
  BY EmptySeq, LenProperties
<1>3. /\ DOMAIN s = 1..Len(s) /\ DOMAIN t = 1..Len(t)
      /\ ToSet(s) = {s[a] : a \in 1..Len(s)} /\ ToSet(t) = {t[a] : a \in 1..Len(t)}
  BY <1>1, SeqIndices
<1> HIDE DEF t
<1>4. ASSUME NEW x \in ToSet(s) PROVE x = Head(s) \/ x \in ToSet(t)
  <2>1. PICK a \in 1..Len(s) : x = s[a]
    BY <1>3
  <2>2. CASE a = 1
    BY <1>1, <2>1, <2>2
  <2>3. CASE a # 1
    <3>1. a - 1 \in 1..Len(t) /\ (a - 1) + 1 = a
      BY <1>1, <1>2, <2>3
    <3>2. t[a - 1] = x
      BY <1>1, <2>1, <3>1
    <3>3. QED
      BY <1>3, <3>1, <3>2
  <2>4. QED
    BY <2>2, <2>3
<1>5. 1 \in 1..Len(s) /\ \A a \in 1..Len(t) : a + 1 \in 1..Len(s) /\ a + 1 # 1
  BY <1>1, <1>2
<1>6. Head(s) \in ToSet(s) /\ ToSet(t) \subseteq ToSet(s)
  BY <1>1, <1>3, <1>5
<1>7. ASSUME Distinct(s) PROVE Head(s) \notin ToSet(t)
  BY <1>1, <1>3, <1>5, <1>7 DEF Distinct
<1>8. ASSUME Distinct(s), NEW a \in 1..Len(t), NEW b \in 1..Len(t), t[a] = t[b] PROVE a = b
  <2>1. s[a + 1] = s[b + 1]
    BY <1>1, <1>8
  <2>2. a + 1 = b + 1
    BY <1>3, <1>5, <1>8, <2>1 DEF Distinct
  <2>3. QED
    BY <2>2
<1>9. QED
  BY <1>1, <1>3, <1>4, <1>6, <1>7, <1>8 DEF t, Distinct

LEMMA LeastNatural ==
    ASSUME NEW I, I \subseteq Nat, I # {}
    PROVE  \E a \in I : \A b \in I : a <= b
<1>1. PICK a \in I : \A b \in I : ~(<<b, a>> \in OpToRel(<, Nat))
  BY NatLessThanWellFounded, WFMin
<1>2. \A b \in I : ~(b < a)
  BY <1>1 DEF OpToRel
<1>3. QED
  BY <1>2

(* Who is taken out of a list of conditions is not in it any more.         *)
LEMMA WithoutOne ==
    ASSUME NEW S, NEW s \in Seq(S), NEW c
    PROVE  /\ Without(s, c) \in Seq(S)
           /\ Distinct(s) => ToSet(Without(s, c)) = ToSet(s) \ {c} /\ Distinct(Without(s, c))
<1>1. DOMAIN s = 1..Len(s) /\ Len(s) \in Nat /\ ToSet(s) = {s[a] : a \in 1..Len(s)}
  BY SeqIndices
<1>2. CASE \E a \in 1..Len(s) : s[a] = c
  <2> DEFINE I == {a \in 1..Len(s) : s[a] = c}
  <2>1. \E a \in I : \A b \in I : a <= b
    <3>1. I \subseteq Nat /\ I # {}
      BY <1>1, <1>2
    <3>2. QED
      BY <3>1, LeastNatural
  <2>2. Min(I) \in 1..Len(s) /\ s[Min(I)] = c
    BY <2>1 DEF Min
  <2>3. Without(s, c) = RemoveAt(s, Min(I))
    BY <1>2, <2>2 DEF Without, RemoveFirst, SelectInSeq
  <2> HIDE DEF I
  <2>4. QED
    BY <2>2, <2>3, RemovedAt, RemovedFrom
<1>3. CASE ~\E a \in 1..Len(s) : s[a] = c
  BY <1>1, <1>3 DEF Without, RemoveFirst
<1>4. QED
  BY <1>2, <1>3

-----------------------------------------------------------------------------
(* Alerts: what the variables hold.                                        *)

Commands == {"none", "add", "remove", "daemon", "trim"}
TaskStages == {"off", "load", "temp", "replace", "look", "lock", "spawn", "close", "read", "cut", "write"}
Typings == (SUBSET DOMAIN Conditions) \union TypedIds
Ends == {"ok", "running", "unreadable", "not found", "locked", "aborted"}
Tasks == [cmd : Commands, stage : TaskStages,
          typed : Typings, copy : Seq(Entries),
          keep : Nat, slot : Monitors \union {Null}, overlap : BOOLEAN, end : Ends]

WatchStages == {"off", "start", "idle", "check", "over"}
Watches == [stage : WatchStages, daemon : BOOLEAN, once : BOOLEAN,
            pending : Seq(DOMAIN Conditions), todo : Seq(DOMAIN Conditions),
            quotes : [Markets -> Quotes \union {Null}], mids : [Markets -> Int \union {Null}],
            last : [Markets -> Int \union {Null}], seen : [Markets -> Seq(Quotes)],
            passes : Nat, told : Seq(DOMAIN Conditions)]

AlertTypes ==
    /\ alerts \in [whole : BOOLEAN, items : Seq(Entries)]
    /\ expired \subseteq DOMAIN Conditions
    /\ task \in [Users -> Tasks]
    /\ monitor \in [Monitors -> Watches]
    /\ loglock \subseteq Users \union Monitors
    /\ log \in Nat
    /\ asked \in 0..MaxTasks

(* What a command is at fits what was typed. *)
TaskShape(t) ==
    /\ t.stage \in {"load", "temp", "replace"} => t.cmd \in {"add", "remove"}
    /\ t.stage \in {"look", "spawn", "close"} => t.cmd = "daemon"
    /\ t.stage = "off" => t.typed = {} /\ t.copy = <<>>
    /\ t.cmd = "daemon" => t.slot \in Monitors
    /\ t.cmd = "add" => \E c \in DOMAIN Conditions : t.typed = {c}
    /\ t.cmd = "remove" /\ t.stage \in {"temp", "replace"} => OnlyMatch(t.copy, t.typed)

TasksInShape == \A u \in Users : TaskShape(task[u])

LEMMA AlertConstants ==
    /\ StartAlerts \in Seq(DOMAIN Conditions) /\ IsInjective(StartAlerts)
    /\ Users \intersect Monitors = {}
    /\ \A c \in DOMAIN Conditions : Ticker(c) \in Markets /\ Conditions[c].level \in Int
    /\ \A q \in Quotes : q.mid \in Int \union {Null}
    /\ KeepLines \in Nat /\ TrimAbove \in Nat /\ MaxTasks \in Nat
  BY AlertAssumption DEF AlertAssumption, Ticker

LEMMA TypingsHave ==
    {} \in Typings /\ (\A c \in DOMAIN Conditions : {c} \in Typings) /\ TypedIds \subseteq Typings
  BY DEF Typings

LEMMA NoTaskTyped == NoTask \in Tasks /\ TaskShape(NoTask)
<1>1. <<>> \in Seq(Entries)
  BY EmptySeq
<1>2. NoTask \in Tasks
  BY <1>1, TypingsHave DEF NoTask, Tasks, Commands, TaskStages, Ends
<1>3. TaskShape(NoTask)
  BY DEF NoTask, TaskShape
<1>4. QED
  BY <1>2, <1>3

LEMMA NoMonitorTyped == NoMonitor \in Watches
<1>1. <<>> \in Seq(DOMAIN Conditions) /\ <<>> \in Seq(Quotes)
  BY EmptySeq
<1>2. QED
  BY <1>1 DEF NoMonitor, Watches, WatchStages

LEMMA DoneTyped == ASSUME NEW how \in Ends PROVE Done(how) \in Tasks /\ TaskShape(Done(how))
  BY NoTaskTyped DEF Done, NoTask, Tasks, TaskShape

LEMMA EntryTyped == \A c \in DOMAIN Conditions : [id |-> c] \in Entries
  BY DEF Entries

LEMMA EntryIds == \A e \in Entries : e.id \in DOMAIN Conditions /\ e = [id |-> e.id]
  BY DEF Entries

(* A command changes its own record only.                                  *)
LEMMA TurnTyped ==
    ASSUME AlertTypes, TasksInShape, NEW u \in Users, NEW t \in Tasks, TaskShape(t), task' = [task EXCEPT ![u] = t]
    PROVE  task' \in [Users -> Tasks] /\ TasksInShape'
<1>1. task' \in [Users -> Tasks]
  BY DEF AlertTypes
<1>2. \A v \in Users : task'[v] = IF v = u THEN t ELSE task[v]
  BY DEF AlertTypes
<1>3. QED
  BY <1>1, <1>2 DEF TasksInShape

LEMMA AskTyped ==
    ASSUME AlertTypes, TasksInShape, NEW u \in Users, NEW t \in Tasks, TaskShape(t), Ask(u, t)
    PROVE  AlertTypes' /\ TasksInShape'
<1> DEFINE s == [t EXCEPT !.end = "running"]
<1>0. s \in Tasks
  BY DEF Tasks, Ends
<1>1. s \in Tasks /\ TaskShape(s)
  BY <1>0 DEF Tasks, TaskShape
<1>2. task' = [task EXCEPT ![u] = s]
  BY DEF Ask
<1> HIDE DEF s
<1>3. task' \in [Users -> Tasks] /\ TasksInShape'
  BY <1>1, <1>2, TurnTyped
<1>4. QED
  BY <1>3, AlertConstants DEF Ask, AlertTypes

LEMMA TurnKeepsTypes ==
    ASSUME AlertTypes, TasksInShape, NEW u \in Users, NEW t \in Tasks, TaskShape(t), Turn(u, t)
    PROVE  AlertTypes' /\ TasksInShape'
<1>1. task' \in [Users -> Tasks] /\ TasksInShape'
  BY TurnTyped DEF Turn
<1>2. QED
  BY <1>1 DEF Turn, AlertTypes

LEMMA BecomeKeepsTypes ==
    ASSUME AlertTypes, TasksInShape, NEW m \in Monitors, NEW w \in Watches, Become(m, w)
    PROVE  AlertTypes' /\ TasksInShape'
  BY DEF Become, AlertTypes, TasksInShape

LEMMA GoneKeepsTypes ==
    ASSUME AlertTypes, TasksInShape, NEW m \in Monitors, Gone(m)
    PROVE  AlertTypes' /\ TasksInShape'
<1>1. Ended(m) \in Watches
  BY NoMonitorTyped DEF Ended, AlertTypes, Watches, WatchStages, NoMonitor
<1>2. QED
  BY <1>1 DEF Gone, AlertTypes, TasksInShape

(* The record of a command when one or two of its fields change.           *)
LEMMA TaskStaged ==
    ASSUME AlertTypes, NEW u \in Users, NEW s \in TaskStages, NEW copy \in Seq(Entries), NEW keep \in Nat
    PROVE  /\ [task[u] EXCEPT !.stage = s] \in Tasks
           /\ [task[u] EXCEPT !.stage = s, !.copy = copy] \in Tasks
           /\ [task[u] EXCEPT !.stage = s, !.keep = keep] \in Tasks
  BY ZenonT(60) DEF AlertTypes, Tasks

LEMMA TasksOfUsers == ASSUME AlertTypes, NEW u \in Users PROVE task[u] \in Tasks
  BY DEF AlertTypes

LEMMA MinOfTwo == ASSUME NEW a \in Nat, NEW b \in Nat PROVE Min({a, b}) \in Nat
<1>1. \E x \in {a, b} : \A y \in {a, b} : x <= y
  OBVIOUS
<1>2. QED
  BY <1>1 DEF Min

LEMMA AlertTypesInit == ASSUME AlertInit PROVE AlertTypes /\ TasksInShape
<1>1. alerts.items \in Seq(Entries)
  <2>1. DOMAIN StartAlerts = 1..Len(StartAlerts) /\ Len(StartAlerts) \in Nat
        /\ \A i \in 1..Len(StartAlerts) : StartAlerts[i] \in DOMAIN Conditions
    BY AlertConstants, SeqIndices
  <2>2. alerts.items = [i \in 1..Len(StartAlerts) |-> [id |-> StartAlerts[i]]]
    BY <2>1 DEF AlertInit
  <2>3. \A i \in 1..Len(StartAlerts) : [id |-> StartAlerts[i]] \in Entries
    BY <2>1, EntryTyped
  <2>4. QED
    BY <2>1, <2>2, <2>3
<1>2. QED
  BY <1>1, NoTaskTyped, NoMonitorTyped, AlertConstants DEF AlertInit, AlertTypes, TasksInShape

(* The actions of commands, one after the other.                           *)
LEMMA BeginAddTyped ==
    ASSUME AlertTypes, TasksInShape, NEW u \in Users, BeginAdd(u) PROVE AlertTypes' /\ TasksInShape'
<1>1. PICK c \in DOMAIN Conditions : Ask(u, [NoTask EXCEPT !.cmd = "add", !.stage = "load", !.typed = {c}])
  BY DEF BeginAdd
<1> DEFINE t == [NoTask EXCEPT !.cmd = "add", !.stage = "load", !.typed = {c}]
<1>2. t \in Tasks
  BY NoTaskTyped, TypingsHave DEF Tasks, Commands, TaskStages
<1>3. TaskShape(t)
  BY DEF TaskShape, NoTask
<1>4. QED
  BY <1>1, <1>2, <1>3, AskTyped

LEMMA BeginRemoveTyped ==
    ASSUME AlertTypes, TasksInShape, NEW u \in Users, BeginRemove(u) PROVE AlertTypes' /\ TasksInShape'
<1>1. PICK c \in TypedIds : Ask(u, [NoTask EXCEPT !.cmd = "remove", !.stage = "load", !.typed = c])
  BY DEF BeginRemove
<1> DEFINE t == [NoTask EXCEPT !.cmd = "remove", !.stage = "load", !.typed = c]
<1>2. t \in Tasks
  BY NoTaskTyped, TypingsHave DEF Tasks, Commands, TaskStages
<1>3. TaskShape(t)
  BY DEF TaskShape, NoTask
<1>4. QED
  BY <1>1, <1>2, <1>3, AskTyped

LEMMA LoadAlertsTyped ==
    ASSUME AlertTypes, TasksInShape, NEW u \in Users, LoadAlerts(u) PROVE AlertTypes' /\ TasksInShape'
<1> DEFINE t == [task[u] EXCEPT !.stage = "temp", !.copy = alerts.items]
<1>1. CASE Turn(u, t) /\ Found(alerts.items, task[u])
  <2>1. alerts.items \in Seq(Entries) /\ task[u] \in Tasks
    BY DEF AlertTypes
  <2>2. t \in Tasks
    BY <2>1, TaskStaged DEF TaskStages
  <2>3. /\ t.stage = "temp" /\ t.copy = alerts.items /\ t.cmd = task[u].cmd
        /\ t.typed = task[u].typed /\ t.slot = task[u].slot
    BY <2>1 DEF Tasks
  <2>4. TaskShape(t)
    BY <1>1, <2>3 DEF TaskShape, TasksInShape, LoadAlerts, InStage, Found
  <2>5. QED
    BY <1>1, <2>2, <2>4, TurnKeepsTypes
<1>2. CASE Turn(u, Done("unreadable")) \/ Turn(u, Done("not found"))
  BY <1>2, DoneTyped, TurnKeepsTypes DEF Ends
<1>3. QED
  BY <1>1, <1>2 DEF LoadAlerts

LEMMA WriteAlertsTyped ==
    ASSUME AlertTypes, TasksInShape, NEW u \in Users, WriteAlerts(u) PROVE AlertTypes' /\ TasksInShape'
<1> DEFINE t == [task[u] EXCEPT !.stage = "replace"]
<1>1. task[u] \in Tasks
  BY DEF AlertTypes
<1>2. t \in Tasks
  BY <1>1 DEF Tasks, TaskStages
<1>3. /\ t.stage = "replace" /\ t.copy = task[u].copy /\ t.cmd = task[u].cmd
      /\ t.typed = task[u].typed /\ t.slot = task[u].slot
  BY <1>1 DEF Tasks
<1>4. TaskShape(t)
  BY <1>3 DEF TaskShape, TasksInShape, WriteAlerts, InStage
<1>5. QED
  BY <1>2, <1>4, TurnKeepsTypes DEF WriteAlerts

(* What add and remove write.                                              *)
LEMMA RevisedTyped ==
    ASSUME AlertTypes, TasksInShape, NEW u \in Users, task[u].stage \in {"temp", "replace"}
    PROVE  /\ \/ \E c \in DOMAIN Conditions :
                    /\ task[u].cmd = "add" /\ task[u].typed = {c}
                    /\ Revised(task[u].copy, task[u]) = Append(task[u].copy, [id |-> c])
              \/ \E i \in 1..Len(task[u].copy) :
                    /\ task[u].cmd = "remove" /\ Matching(task[u].copy, task[u].typed) = {i}
                    /\ Revised(task[u].copy, task[u]) = RemoveAt(task[u].copy, i)
           /\ Revised(task[u].copy, task[u]) \in Seq(Entries)
<1> DEFINE t == task[u]
           r == Revised(t.copy, t)
<1>1. t.copy \in Seq(Entries) /\ t.cmd \in {"add", "remove"} /\ TaskShape(t)
  BY DEF AlertTypes, TasksInShape, TaskShape, Tasks
<1>2. DOMAIN t.copy = 1..Len(t.copy) /\ Len(t.copy) \in Nat /\ \A i \in 1..Len(t.copy) : t.copy[i] \in Entries
  BY <1>1, SeqIndices
<1>3. CASE t.cmd = "add"
  <2>1. PICK c \in DOMAIN Conditions : t.typed = {c}
    BY <1>1, <1>3 DEF TaskShape
  <2>2. r = Append(t.copy, [id |-> c])
    BY <1>3, <2>1 DEF Revised
  <2>3. r \in Seq(Entries)
    BY <1>1, <2>2, EntryTyped, AppendedTo
  <2>4. QED
    BY <1>3, <2>1, <2>2, <2>3
<1>4. CASE t.cmd = "remove"
  <2>1. Cardinality(Matching(t.copy, t.typed)) = 1
    BY <1>1, <1>4 DEF TaskShape, OnlyMatch
  <2>2. IsFiniteSet(Matching(t.copy, t.typed))
    <3>1. IsFiniteSet(1..Len(t.copy))
      BY <1>2, FS_Interval
    <3>2. Matching(t.copy, t.typed) \in SUBSET (1..Len(t.copy))
      BY <1>2 DEF Matching
    <3>3. QED
      BY <3>1, <3>2, FS_Subset
  <2>3. PICK i : Matching(t.copy, t.typed) = {i}
    BY <2>1, <2>2, FS_Singleton
  <2>4. i \in 1..Len(t.copy)
    BY <1>2, <2>3 DEF Matching
  <2>5. FirstMatch(t.copy, t.typed) = i
    BY <2>3, <2>4 DEF FirstMatch
  <2>6. r = RemoveAt(t.copy, i)
    BY <1>4, <2>5 DEF Revised
  <2>7. r \in Seq(Entries)
    BY <1>1, <2>4, <2>6, RemovedAt
  <2>8. QED
    BY <1>4, <2>3, <2>4, <2>6, <2>7
<1>5. QED
  BY <1>1, <1>3, <1>4

(* Others learn only that the file has been replaced.                      *)
LEMMA ReplaceTasks ==
    ASSUME AlertTypes, TasksInShape, NEW u \in Users, ReplaceAlerts(u)
    PROVE  /\ task' \in [Users -> Tasks] /\ task'[u] = Done("ok")
           /\ \A v \in Users \ {u} :
                 /\ task'[v].cmd = task[v].cmd /\ task'[v].stage = task[v].stage
                 /\ task'[v].typed = task[v].typed /\ task'[v].copy = task[v].copy
                 /\ task'[v].keep = task[v].keep /\ task'[v].slot = task[v].slot
                 /\ task'[v].overlap <=> task[v].overlap \/ task[v].stage \in {"temp", "replace"}
<1>1. Done("ok") \in Tasks
  BY DoneTyped DEF Ends
<1>2. \A v \in Users : task[v] \in Tasks
  BY DEF AlertTypes
<1>3. \A v \in Users : [task[v] EXCEPT !.overlap = @ \/ task[v].stage \in {"temp", "replace"}] \in Tasks
  BY <1>2 DEF Tasks
<1>4. task' = [v \in Users |->
            IF v = u THEN Done("ok")
            ELSE [task[v] EXCEPT !.overlap = @ \/ task[v].stage \in {"temp", "replace"}]]
  BY DEF ReplaceAlerts
<1>5. task' \in [Users -> Tasks] /\ task'[u] = Done("ok")
  BY <1>1, <1>3, <1>4
<1>6. ASSUME NEW v \in Users \ {u}
      PROVE  /\ task'[v].cmd = task[v].cmd /\ task'[v].stage = task[v].stage
             /\ task'[v].typed = task[v].typed /\ task'[v].copy = task[v].copy
             /\ task'[v].keep = task[v].keep /\ task'[v].slot = task[v].slot
             /\ task'[v].overlap <=> task[v].overlap \/ task[v].stage \in {"temp", "replace"}
  <2>1. task'[v] = [task[v] EXCEPT !.overlap = @ \/ task[v].stage \in {"temp", "replace"}]
    BY <1>4
  <2>2. QED
    BY <1>2, <2>1 DEF Tasks
<1>7. QED
  BY <1>5, <1>6

LEMMA ReplaceAlertsTyped ==
    ASSUME AlertTypes, TasksInShape, NEW u \in Users, ReplaceAlerts(u) PROVE AlertTypes' /\ TasksInShape'
<1>1. /\ task' \in [Users -> Tasks] /\ task'[u] = Done("ok")
      /\ \A v \in Users \ {u} :
            /\ task'[v].cmd = task[v].cmd /\ task'[v].stage = task[v].stage
            /\ task'[v].typed = task[v].typed /\ task'[v].copy = task[v].copy
            /\ task'[v].slot = task[v].slot
  BY ReplaceTasks
<1>2. Revised(task[u].copy, task[u]) \in Seq(Entries)
  BY RevisedTyped DEF ReplaceAlerts, InStage
<1>3. alerts' \in [whole : BOOLEAN, items : Seq(Entries)]
  BY <1>2 DEF ReplaceAlerts
<1>4. AlertTypes'
  BY <1>1, <1>3 DEF ReplaceAlerts, AlertTypes
<1>5. ASSUME NEW v \in Users \ {u} PROVE TaskShape(task'[v])
  BY <1>1, <1>5 DEF TasksInShape, TaskShape
<1>6. TaskShape(task'[u])
  BY <1>1, DoneTyped DEF Ends
<1>7. QED
  BY <1>4, <1>5, <1>6 DEF TasksInShape

LEMMA BeginForegroundTyped ==
    ASSUME AlertTypes, TasksInShape, NEW u \in Users, BeginForeground(u) PROVE AlertTypes' /\ TasksInShape'
<1>1. PICK m \in Monitors, once \in BOOLEAN :
        monitor' = [monitor EXCEPT ![m] = [NoMonitor EXCEPT !.stage = "start", !.once = once]]
  BY DEF BeginForeground
<1> DEFINE w == [NoMonitor EXCEPT !.stage = "start", !.once = once]
<1>2. w \in Watches
  BY NoMonitorTyped DEF Watches, WatchStages
<1> HIDE DEF w
<1>3. monitor' \in [Monitors -> Watches]
  BY <1>1, <1>2 DEF AlertTypes, w
<1>4. asked' \in 0..MaxTasks
  BY AlertConstants DEF BeginForeground, AlertTypes
<1>5. QED
  BY <1>3, <1>4 DEF BeginForeground, AlertTypes, TasksInShape

LEMMA BeginDaemonTyped ==
    ASSUME AlertTypes, TasksInShape, NEW u \in Users, BeginDaemon(u) PROVE AlertTypes' /\ TasksInShape'
<1>1. PICK m \in Monitors : Ask(u, [NoTask EXCEPT !.cmd = "daemon", !.stage = "look", !.slot = m])
  BY DEF BeginDaemon
<1> DEFINE t == [NoTask EXCEPT !.cmd = "daemon", !.stage = "look", !.slot = m]
<1>2. t \in Tasks
  BY NoTaskTyped DEF Tasks, Commands, TaskStages
<1>3. TaskShape(t)
  BY DEF TaskShape, NoTask
<1>4. QED
  BY <1>1, <1>2, <1>3, AskTyped

LEMMA BeginTrimTyped ==
    ASSUME AlertTypes, TasksInShape, NEW u \in Users, BeginTrim(u) PROVE AlertTypes' /\ TasksInShape'
<1> DEFINE t == [NoTask EXCEPT !.cmd = "trim", !.stage = "lock"]
<1>1. t \in Tasks
  BY NoTaskTyped DEF Tasks, Commands, TaskStages
<1>2. TaskShape(t)
  BY DEF TaskShape, NoTask
<1>3. QED
  BY <1>1, <1>2, AskTyped DEF BeginTrim

LEMMA LookForAlertsTyped ==
    ASSUME AlertTypes, TasksInShape, NEW u \in Users, LookForAlerts(u) PROVE AlertTypes' /\ TasksInShape'
<1> DEFINE t == [task[u] EXCEPT !.stage = "lock"]
<1>1. task[u] \in Tasks
  BY DEF AlertTypes
<1>2. t \in Tasks
  BY <1>1 DEF Tasks, TaskStages
<1>3. t.stage = "lock" /\ t.cmd = task[u].cmd /\ t.typed = task[u].typed /\ t.slot = task[u].slot
  BY <1>1 DEF Tasks
<1>4. TaskShape(t)
  BY <1>3 DEF TaskShape, TasksInShape
<1>5. \A how \in {"unreadable", "ok"} : Done(how) \in Tasks /\ TaskShape(Done(how))
  BY DoneTyped DEF Ends
<1>6. Turn(u, t) \/ \E how \in {"unreadable", "ok"} : Turn(u, Done(how))
  BY DEF LookForAlerts
<1>7. QED
  BY <1>2, <1>4, <1>5, <1>6, TurnKeepsTypes

LEMMA LogLockedTyped ==
    ASSUME AlertTypes, TasksInShape, NEW u \in Users, LogLocked(u) PROVE AlertTypes' /\ TasksInShape'
  BY DoneTyped, TurnKeepsTypes DEF LogLocked, Ends

LEMMA TakeLogLockTyped ==
    ASSUME AlertTypes, TasksInShape, NEW u \in Users, TakeLogLock(u) PROVE AlertTypes' /\ TasksInShape'
<1> DEFINE s == IF task[u].cmd = "daemon" THEN "spawn" ELSE "read"
           t == [task[u] EXCEPT !.stage = s]
<1>1. task[u] \in Tasks
  BY DEF AlertTypes
<1>2. t \in Tasks
  BY <1>1 DEF Tasks, TaskStages
<1>3. t.stage = s /\ t.cmd = task[u].cmd /\ t.typed = task[u].typed /\ t.slot = task[u].slot
  BY <1>1 DEF Tasks
<1>4. TaskShape(t)
  BY <1>3 DEF TaskShape, TasksInShape
<1>5. task' = [task EXCEPT ![u] = t]
  BY DEF TakeLogLock, AlertTypes
<1> HIDE DEF t
<1>6. task' \in [Users -> Tasks] /\ TasksInShape'
  BY <1>2, <1>4, <1>5, TurnTyped
<1>7. QED
  BY <1>6 DEF TakeLogLock, AlertTypes

LEMMA SpawnTyped ==
    ASSUME AlertTypes, TasksInShape, NEW u \in Users, Spawn(u) PROVE AlertTypes' /\ TasksInShape'
<1> DEFINE t == [task[u] EXCEPT !.stage = "close"]
<1>1. task[u] \in Tasks /\ task[u].cmd = "daemon" /\ task[u].slot \in Monitors
  BY DEF AlertTypes, TasksInShape, TaskShape, Spawn, InStage
<1>2. t \in Tasks
  BY <1>1 DEF Tasks, TaskStages
<1>3. t.stage = "close" /\ t.cmd = task[u].cmd /\ t.typed = task[u].typed /\ t.slot = task[u].slot
  BY <1>1 DEF Tasks
<1>4. TaskShape(t)
  BY <1>1, <1>3 DEF TaskShape
<1>5. task' = [task EXCEPT ![u] = t]
  BY DEF Spawn, AlertTypes
<1> HIDE DEF t
<1>6. task' \in [Users -> Tasks] /\ TasksInShape'
  BY <1>2, <1>4, <1>5, TurnTyped
<1>7. PICK once \in BOOLEAN : monitor' = [monitor EXCEPT ![task[u].slot] =
            [NoMonitor EXCEPT !.stage = "start", !.daemon = TRUE, !.once = once]]
  BY DEF Spawn
<1> DEFINE w == [NoMonitor EXCEPT !.stage = "start", !.daemon = TRUE, !.once = once]
<1>8. w \in Watches
  BY NoMonitorTyped DEF Watches, WatchStages
<1> HIDE DEF w
<1>9. monitor' \in [Monitors -> Watches]
  BY <1>1, <1>7, <1>8 DEF AlertTypes, w
<1>10. QED
  BY <1>1, <1>6, <1>9 DEF Spawn, AlertTypes

LEMMA CloseLogTyped ==
    ASSUME AlertTypes, TasksInShape, NEW u \in Users, CloseLog(u) PROVE AlertTypes' /\ TasksInShape'
<1>1. Done("ok") \in Tasks /\ TaskShape(Done("ok"))
  BY DoneTyped DEF Ends
<1>2. task' \in [Users -> Tasks] /\ TasksInShape'
  BY <1>1, TurnTyped DEF CloseLog
<1>3. QED
  BY <1>2 DEF CloseLog, AlertTypes

LEMMA TrimReadTyped ==
    ASSUME AlertTypes, TasksInShape, NEW u \in Users, TrimRead(u) PROVE AlertTypes' /\ TasksInShape'
<1> DEFINE t == [task[u] EXCEPT !.stage = "cut", !.keep = Min({log, KeepLines})]
<1>1. task[u] \in Tasks /\ Min({log, KeepLines}) \in Nat
  BY MinOfTwo, AlertConstants DEF AlertTypes
<1>2. t \in Tasks
  BY <1>1 DEF Tasks, TaskStages
<1>3. t.stage = "cut" /\ t.cmd = task[u].cmd /\ t.typed = task[u].typed /\ t.slot = task[u].slot
  BY <1>1 DEF Tasks
<1>4. TaskShape(t)
  BY <1>3 DEF TaskShape, TasksInShape
<1>5. QED
  BY <1>2, <1>4, TurnKeepsTypes DEF TrimRead

LEMMA TrimCutTyped ==
    ASSUME AlertTypes, TasksInShape, NEW u \in Users, TrimCut(u) PROVE AlertTypes' /\ TasksInShape'
<1> DEFINE t == [task[u] EXCEPT !.stage = "write"]
<1>1. task[u] \in Tasks
  BY DEF AlertTypes
<1>2. t \in Tasks
  BY <1>1 DEF Tasks, TaskStages
<1>3. t.stage = "write" /\ t.cmd = task[u].cmd /\ t.typed = task[u].typed /\ t.slot = task[u].slot
  BY <1>1 DEF Tasks
<1>4. TaskShape(t)
  BY <1>3 DEF TaskShape, TasksInShape
<1>5. task' = [task EXCEPT ![u] = t]
  BY DEF TrimCut, AlertTypes
<1> HIDE DEF t
<1>6. task' \in [Users -> Tasks] /\ TasksInShape'
  BY <1>2, <1>4, <1>5, TurnTyped
<1>7. QED
  BY <1>6 DEF TrimCut, AlertTypes

LEMMA TrimWriteTyped ==
    ASSUME AlertTypes, TasksInShape, NEW u \in Users, TrimWrite(u) PROVE AlertTypes' /\ TasksInShape'
<1>1. Done("ok") \in Tasks /\ TaskShape(Done("ok"))
  BY DoneTyped DEF Ends
<1>2. task' \in [Users -> Tasks] /\ TasksInShape'
  BY <1>1, TurnTyped DEF TrimWrite
<1>3. task[u].keep \in Nat
  BY DEF AlertTypes, Tasks
<1>4. QED
  BY <1>2, <1>3 DEF TrimWrite, AlertTypes

LEMMA AbortTaskTyped ==
    ASSUME AlertTypes, TasksInShape, NEW u \in Users, AbortTask(u) PROVE AlertTypes' /\ TasksInShape'
<1>1. Done("aborted") \in Tasks /\ TaskShape(Done("aborted"))
  BY DoneTyped DEF Ends
<1>2. task' \in [Users -> Tasks] /\ TasksInShape'
  BY <1>1, TurnTyped DEF AbortTask
<1>3. QED
  BY <1>2 DEF AbortTask, AlertTypes

-----------------------------------------------------------------------------
(* The actions of monitors.                                                *)

(* The conditions a monitor reads are those in the file, in its order.     *)
LEMMA ReadPending ==
    ASSUME AlertTypes
    PROVE  LET p == [i \in DOMAIN alerts.items |-> alerts.items[i].id] IN
           /\ p \in Seq(DOMAIN Conditions) /\ DOMAIN p = DOMAIN alerts.items
           /\ \A i \in DOMAIN p : alerts.items[i] = [id |-> p[i]]
<1> DEFINE p == [i \in DOMAIN alerts.items |-> alerts.items[i].id]
<1>1. alerts.items \in Seq(Entries)
  BY DEF AlertTypes
<1>2. /\ DOMAIN alerts.items = 1..Len(alerts.items) /\ Len(alerts.items) \in Nat
      /\ \A i \in 1..Len(alerts.items) : alerts.items[i] \in Entries
  BY <1>1, SeqIndices
<1>3. \A i \in 1..Len(alerts.items) : p[i] \in DOMAIN Conditions /\ alerts.items[i] = [id |-> p[i]]
  BY <1>2, EntryIds
<1>4. p = [i \in 1..Len(alerts.items) |-> p[i]]
  BY <1>2
<1>5. p \in [1..Len(alerts.items) -> DOMAIN Conditions]
  BY <1>2, <1>3
<1>6. p \in Seq(DOMAIN Conditions)
  BY <1>2, <1>5
<1>7. QED
  BY <1>2, <1>3, <1>6

LEMMA LoadConditionsTyped ==
    ASSUME AlertTypes, TasksInShape, NEW m \in Monitors, LoadConditions(m) PROVE AlertTypes' /\ TasksInShape'
<1> DEFINE p == [i \in DOMAIN alerts.items |-> alerts.items[i].id]
           w == [monitor[m] EXCEPT !.stage = "idle", !.pending = p]
<1>1. p \in Seq(DOMAIN Conditions)
  BY ReadPending
<1>2. monitor[m] \in Watches
  BY DEF AlertTypes
<1> HIDE DEF p
<1>3. w \in Watches
  BY <1>1, <1>2 DEF Watches, WatchStages
<1>4. Become(m, w) \/ Gone(m)
  BY DEF LoadConditions, p
<1> HIDE DEF w
<1>5. QED
  BY <1>3, <1>4, BecomeKeepsTypes, GoneKeepsTypes

LEMMA FetchMarketsTyped ==
    ASSUME AlertTypes, TasksInShape, NEW m \in Monitors, FetchMarkets(m) PROVE AlertTypes' /\ TasksInShape'
<1>1. PICK quotes \in [Markets -> Quotes \union {Null}] :
        Become(m, [monitor[m] EXCEPT !.stage = "check", !.todo = monitor[m].pending,
                       !.quotes = quotes, !.mids = NoMonitor.mids, !.passes = @ + 1,
                       !.seen = [k \in Markets |-> IF Quoted(quotes, k) THEN Append(@[k], quotes[k]) ELSE @[k]]])
  BY DEF FetchMarkets
<1> DEFINE seen == [k \in Markets |-> IF Quoted(quotes, k) THEN Append(monitor[m].seen[k], quotes[k])
                                      ELSE monitor[m].seen[k]]
           w == [monitor[m] EXCEPT !.stage = "check", !.todo = monitor[m].pending,
                       !.quotes = quotes, !.mids = NoMonitor.mids, !.passes = @ + 1, !.seen = seen]
<1>2. /\ monitor[m] \in Watches /\ monitor[m].pending \in Seq(DOMAIN Conditions)
      /\ monitor[m].seen \in [Markets -> Seq(Quotes)] /\ NoMonitor.mids \in [Markets -> Int \union {Null}]
      /\ monitor[m].passes + 1 \in Nat
  BY NoMonitorTyped DEF AlertTypes, Watches
<1>3. \A k \in Markets : Quoted(quotes, k) => quotes[k] \in Quotes
  BY DEF Quoted
<1>4. seen \in [Markets -> Seq(Quotes)]
  BY <1>2, <1>3, AppendedTo
<1>5. Become(m, w)
  BY <1>1
<1> HIDE DEF seen
<1>6. w \in Watches
  BY <1>2, <1>4 DEF Watches, WatchStages
<1> HIDE DEF w
<1>7. QED
  BY <1>5, <1>6, BecomeKeepsTypes

(* What a pass does with its next condition.                               *)
LEMMA NextTyped ==
    ASSUME AlertTypes, NEW m \in Monitors, NEW c \in DOMAIN Conditions, NextCondition(m, c)
    PROVE  LET w == monitor[m] IN
           /\ w \in Watches /\ w.todo # <<>> /\ c = Head(w.todo) /\ w.stage = "check"
           /\ Tail(w.todo) \in Seq(DOMAIN Conditions)
           /\ Without(w.pending, c) \in Seq(DOMAIN Conditions)
           /\ Append(w.told, c) \in Seq(DOMAIN Conditions)
           /\ Ticker(c) \in Markets
           /\ Reached(m, c) =>
                 /\ w.quotes[Ticker(c)] \in Quotes /\ w.quotes[Ticker(c)].mid \in Int
                 /\ w.quotes[Ticker(c)].mid # Null
                 /\ Noted(m, c) \in [Markets -> Int \union {Null}]
                 /\ \A k \in Markets : Noted(m, c)[k] = IF k = Ticker(c) THEN w.quotes[k].mid ELSE w.mids[k]
<1> DEFINE w == monitor[m]
<1>1. /\ w \in Watches /\ w.todo # <<>> /\ c = Head(w.todo) /\ w.stage = "check"
      /\ w.todo \in Seq(DOMAIN Conditions) /\ w.pending \in Seq(DOMAIN Conditions)
      /\ w.told \in Seq(DOMAIN Conditions) /\ w.mids \in [Markets -> Int \union {Null}]
      /\ w.quotes \in [Markets -> Quotes \union {Null}]
  BY DEF AlertTypes, Watches, NextCondition
<1>2. Ticker(c) \in Markets
  BY AlertConstants
<1>3. ASSUME Reached(m, c)
      PROVE  /\ w.quotes[Ticker(c)] \in Quotes /\ w.quotes[Ticker(c)].mid \in Int
             /\ w.quotes[Ticker(c)].mid # Null
             /\ Noted(m, c) \in [Markets -> Int \union {Null}]
             /\ \A k \in Markets : Noted(m, c)[k] = IF k = Ticker(c) THEN w.quotes[k].mid ELSE w.mids[k]
  <2>1. w.quotes[Ticker(c)] \in Quotes /\ w.quotes[Ticker(c)].mid # Null
    BY <1>1, <1>2, <1>3 DEF Reached, Quoted
  <2>2. w.quotes[Ticker(c)].mid \in Int
    BY <2>1, AlertConstants
  <2>3. Noted(m, c) = [w.mids EXCEPT ![Ticker(c)] = w.quotes[Ticker(c)].mid]
    BY DEF Noted
  <2>4. QED
    BY <1>1, <1>2, <2>1, <2>2, <2>3
<1>4. Tail(w.todo) \in Seq(DOMAIN Conditions)
  BY <1>1, TailOf
<1>5. Without(w.pending, c) \in Seq(DOMAIN Conditions)
  BY <1>1, WithoutOne
<1>6. Append(w.told, c) \in Seq(DOMAIN Conditions)
  BY <1>1, AppendedTo
<1>7. QED
  BY <1>1, <1>2, <1>3, <1>4, <1>5, <1>6

LEMMA SkipConditionTyped ==
    ASSUME AlertTypes, TasksInShape, NEW m \in Monitors, SkipCondition(m) PROVE AlertTypes' /\ TasksInShape'
<1>1. PICK c \in DOMAIN Conditions :
        /\ NextCondition(m, c)
        /\ \/ Become(m, [monitor[m] EXCEPT !.todo = Tail(@), !.pending = Without(@, c)])
           \/ Become(m, [monitor[m] EXCEPT !.todo = Tail(@)])
           \/ Reached(m, c) /\ Become(m, [monitor[m] EXCEPT !.todo = Tail(@), !.mids = Noted(m, c)])
  BY DEF SkipCondition
<1>2. /\ monitor[m] \in Watches
      /\ Tail(monitor[m].todo) \in Seq(DOMAIN Conditions)
      /\ Without(monitor[m].pending, c) \in Seq(DOMAIN Conditions)
      /\ Reached(m, c) => Noted(m, c) \in [Markets -> Int \union {Null}]
  BY <1>1, NextTyped
<1>3. /\ [monitor[m] EXCEPT !.todo = Tail(@), !.pending = Without(@, c)] \in Watches
      /\ [monitor[m] EXCEPT !.todo = Tail(@)] \in Watches
      /\ Reached(m, c) => [monitor[m] EXCEPT !.todo = Tail(@), !.mids = Noted(m, c)] \in Watches
  BY <1>2 DEF Watches
<1>4. QED
  BY <1>1, <1>3, BecomeKeepsTypes

LEMMA NotifyTyped ==
    ASSUME AlertTypes, TasksInShape, NEW m \in Monitors, Notify(m) PROVE AlertTypes' /\ TasksInShape'
<1>1. PICK c \in DOMAIN Conditions :
        /\ NextCondition(m, c) /\ Reached(m, c)
        /\ Become(m, [monitor[m] EXCEPT !.todo = Tail(@), !.pending = Without(@, c),
                           !.mids = Noted(m, c), !.told = Append(@, c)])
  BY DEF Notify
<1>2. /\ monitor[m] \in Watches
      /\ Tail(monitor[m].todo) \in Seq(DOMAIN Conditions)
      /\ Without(monitor[m].pending, c) \in Seq(DOMAIN Conditions)
      /\ Append(monitor[m].told, c) \in Seq(DOMAIN Conditions)
      /\ Noted(m, c) \in [Markets -> Int \union {Null}]
  BY <1>1, NextTyped
<1>3. [monitor[m] EXCEPT !.todo = Tail(@), !.pending = Without(@, c),
                         !.mids = Noted(m, c), !.told = Append(@, c)] \in Watches
  BY <1>2 DEF Watches
<1>4. QED
  BY <1>1, <1>3, BecomeKeepsTypes

LEMMA LastKnownTyped ==
    ASSUME NEW last \in [Markets -> Int \union {Null}], NEW mids \in [Markets -> Int \union {Null}]
    PROVE  LastKnown(last, mids) \in [Markets -> Int \union {Null}]
  BY DEF LastKnown

LEMMA EndPassTyped ==
    ASSUME AlertTypes, TasksInShape, NEW m \in Monitors, EndPass(m) PROVE AlertTypes' /\ TasksInShape'
<1> DEFINE idle == [monitor[m] EXCEPT !.stage = "idle", !.last = LastKnown(@, monitor[m].mids),
                        !.quotes = NoMonitor.quotes, !.mids = NoMonitor.mids]
<1>1. /\ monitor[m] \in Watches /\ monitor[m].last \in [Markets -> Int \union {Null}]
      /\ monitor[m].mids \in [Markets -> Int \union {Null}]
      /\ NoMonitor.mids \in [Markets -> Int \union {Null}] /\ NoMonitor.quotes \in [Markets -> Quotes \union {Null}]
  BY NoMonitorTyped DEF AlertTypes, Watches
<1>2. LastKnown(monitor[m].last, monitor[m].mids) \in [Markets -> Int \union {Null}]
  BY <1>1, LastKnownTyped
<1>3. idle \in Watches
  BY <1>1, <1>2 DEF Watches, WatchStages
<1>4. Ended(m) \in Watches
  BY <1>1, NoMonitorTyped DEF Ended, Watches, WatchStages, NoMonitor
<1>5. monitor' = [monitor EXCEPT ![m] = IF monitor[m].once THEN Ended(m) ELSE idle]
  BY DEF EndPass
<1> HIDE DEF idle
<1>6. monitor' \in [Monitors -> Watches]
  BY <1>3, <1>4, <1>5 DEF AlertTypes
<1>7. QED
  BY <1>6 DEF EndPass, AlertTypes, TasksInShape

LEMMA ExpireTyped ==
    ASSUME AlertTypes, TasksInShape, NEW c \in DOMAIN Conditions, Expire(c) PROVE AlertTypes' /\ TasksInShape'
  BY DEF Expire, AlertTypes, TasksInShape

LEMMA AlertTypesNext == ASSUME AlertTypes, TasksInShape, AlertNext PROVE AlertTypes' /\ TasksInShape'
<1>1. ASSUME NEW u \in Users,
             \/ BeginAdd(u) \/ BeginRemove(u) \/ LoadAlerts(u) \/ WriteAlerts(u) \/ ReplaceAlerts(u)
             \/ BeginForeground(u) \/ BeginDaemon(u) \/ LookForAlerts(u)
             \/ TakeLogLock(u) \/ LogLocked(u) \/ Spawn(u) \/ CloseLog(u)
             \/ BeginTrim(u) \/ TrimRead(u) \/ TrimCut(u) \/ TrimWrite(u)
             \/ AbortTask(u)
      PROVE  AlertTypes' /\ TasksInShape'
  BY <1>1, BeginAddTyped, BeginRemoveTyped, LoadAlertsTyped, WriteAlertsTyped, ReplaceAlertsTyped,
     BeginForegroundTyped, BeginDaemonTyped, LookForAlertsTyped, TakeLogLockTyped, LogLockedTyped,
     SpawnTyped, CloseLogTyped, BeginTrimTyped, TrimReadTyped, TrimCutTyped, TrimWriteTyped, AbortTaskTyped
<1>2. ASSUME NEW m \in Monitors,
             \/ LoadConditions(m) \/ FetchMarkets(m)
             \/ SkipCondition(m) \/ Notify(m) \/ EndPass(m) \/ Kill(m)
      PROVE  AlertTypes' /\ TasksInShape'
  BY <1>2, LoadConditionsTyped, FetchMarketsTyped, SkipConditionTyped, NotifyTyped, EndPassTyped,
     GoneKeepsTypes DEF Kill
<1>3. QED
  BY <1>1, <1>2, ExpireTyped DEF AlertNext

LEMMA AlertTypesStutter ==
    ASSUME AlertTypes, TasksInShape, UNCHANGED alertDesk PROVE AlertTypes' /\ TasksInShape'
  BY DEF AlertTypes, TasksInShape, alertDesk

-----------------------------------------------------------------------------
(* The lock of the log.  Its holders are a command alone, a command and    *)
(* the daemon it has started, or that daemon; every living daemon holds it.*)

LockedFor(u) ==
    /\ task[u].stage \in {"spawn", "read", "cut", "write"} => loglock = {u}
    /\ task[u].stage = "close" => loglock \intersect Users = {u}
    /\ task[u].stage = "write" => log = 0

Locked ==
    /\ Daemons \subseteq loglock
    /\ \A m, n \in loglock \intersect Monitors : m = n
    /\ \A u \in Users : LockedFor(u)

LockStages == {"spawn", "read", "cut", "write", "close"}

LEMMA Updated ==
    ASSUME AlertTypes, NEW u \in Users, NEW t, task' = [task EXCEPT ![u] = t]
    PROVE  \A v \in Users : task'[v] = IF v = u THEN t ELSE task[v]
  BY DEF AlertTypes

LEMMA QuietTurn ==
    ASSUME AlertTypes, Locked, NEW u \in Users, NEW t, t.stage \notin LockStages,
           task' = [task EXCEPT ![u] = t], monitor' = monitor, loglock' = loglock, log' = log
    PROVE  Locked'
<1>1. \A v \in Users : task'[v] = IF v = u THEN t ELSE task[v]
  BY Updated
<1>2. ASSUME NEW v \in Users PROVE LockedFor(v)'
  <2>1. CASE v = u
    <3>1. task'[v].stage \notin LockStages
      BY <1>1, <2>1
    <3>2. QED
      BY <3>1 DEF LockedFor, LockStages
  <2>2. CASE v # u
    <3>1. task'[v] = task[v]
      BY <1>1, <2>2
    <3>2. QED
      BY <3>1 DEF Locked, LockedFor
  <2>3. QED
    BY <2>1, <2>2
<1>3. Daemons' = Daemons
  BY DEF Daemons, Live
<1>4. QED
  BY <1>2, <1>3 DEF Locked

LEMMA AskLocked ==
    ASSUME AlertTypes, Locked, NEW u \in Users, NEW t \in Tasks, t.stage \notin LockStages, Ask(u, t)
    PROVE  Locked'
<1> DEFINE s == [t EXCEPT !.end = "running"]
<1>1. s.stage = t.stage
  BY DEF Tasks
<1>2. task' = [task EXCEPT ![u] = s]
  BY DEF Ask
<1> HIDE DEF s
<1>3. QED
  BY <1>1, <1>2, QuietTurn DEF Ask

LEMMA BeginLocked ==
    ASSUME AlertTypes, Locked, NEW u \in Users, BeginAdd(u) \/ BeginRemove(u) \/ BeginDaemon(u) \/ BeginTrim(u)
    PROVE  Locked'
<1>1. ASSUME NEW c \in DOMAIN Conditions, Ask(u, [NoTask EXCEPT !.cmd = "add", !.stage = "load", !.typed = {c}])
      PROVE  Locked'
  <2> DEFINE t == [NoTask EXCEPT !.cmd = "add", !.stage = "load", !.typed = {c}]
  <2>1. t \in Tasks
    BY NoTaskTyped, TypingsHave DEF Tasks, Commands, TaskStages
  <2>2. t.stage \notin LockStages
    BY DEF NoTask, LockStages
  <2>3. QED
    BY <1>1, <2>1, <2>2, AskLocked
<1>2. ASSUME NEW c \in TypedIds, Ask(u, [NoTask EXCEPT !.cmd = "remove", !.stage = "load", !.typed = c])
      PROVE  Locked'
  <2> DEFINE t == [NoTask EXCEPT !.cmd = "remove", !.stage = "load", !.typed = c]
  <2>1. t \in Tasks
    BY NoTaskTyped, TypingsHave DEF Tasks, Commands, TaskStages
  <2>2. t.stage \notin LockStages
    BY DEF NoTask, LockStages
  <2>3. QED
    BY <1>2, <2>1, <2>2, AskLocked
<1>3. ASSUME NEW m \in Monitors, Ask(u, [NoTask EXCEPT !.cmd = "daemon", !.stage = "look", !.slot = m])
      PROVE  Locked'
  <2> DEFINE t == [NoTask EXCEPT !.cmd = "daemon", !.stage = "look", !.slot = m]
  <2>1. t \in Tasks
    BY NoTaskTyped DEF Tasks, Commands, TaskStages
  <2>2. t.stage \notin LockStages
    BY DEF NoTask, LockStages
  <2>3. QED
    BY <1>3, <2>1, <2>2, AskLocked
<1>4. ASSUME Ask(u, [NoTask EXCEPT !.cmd = "trim", !.stage = "lock"])
      PROVE  Locked'
  <2> DEFINE t == [NoTask EXCEPT !.cmd = "trim", !.stage = "lock"]
  <2>1. t \in Tasks
    BY NoTaskTyped DEF Tasks, Commands, TaskStages
  <2>2. t.stage \notin LockStages
    BY DEF NoTask, LockStages
  <2>3. QED
    BY <1>4, <2>1, <2>2, AskLocked
<1>5. QED
  BY <1>1, <1>2, <1>3, <1>4 DEF BeginAdd, BeginRemove, BeginDaemon, BeginTrim

LEMMA TurnLocked ==
    ASSUME AlertTypes, Locked, NEW u \in Users,
           LoadAlerts(u) \/ WriteAlerts(u) \/ LookForAlerts(u) \/ LogLocked(u)
    PROVE  Locked'
<1>1. task[u] \in Tasks
  BY DEF AlertTypes
<1>2. \A how \in Ends : Done(how).stage \notin LockStages
  BY DEF Done, NoTask, LockStages
<1>3. \E t : t.stage \notin LockStages /\ Turn(u, t)
  <2>1. CASE LoadAlerts(u)
    <3>1. [task[u] EXCEPT !.stage = "temp", !.copy = alerts.items].stage \notin LockStages
      BY <1>1 DEF Tasks, LockStages
    <3>2. QED
      BY <1>2, <2>1, <3>1 DEF LoadAlerts, Ends
  <2>2. CASE WriteAlerts(u)
    <3>1. [task[u] EXCEPT !.stage = "replace"].stage \notin LockStages
      BY <1>1 DEF Tasks, LockStages
    <3>2. QED
      BY <2>2, <3>1 DEF WriteAlerts
  <2>3. CASE LookForAlerts(u)
    <3>1. [task[u] EXCEPT !.stage = "lock"].stage \notin LockStages
      BY <1>1 DEF Tasks, LockStages
    <3>2. QED
      BY <1>2, <2>3, <3>1 DEF LookForAlerts, Ends
  <2>4. CASE LogLocked(u)
    BY <1>2, <2>4 DEF LogLocked, Ends
  <2>5. QED
    BY <2>1, <2>2, <2>3, <2>4
<1>4. QED
  BY <1>3, QuietTurn DEF Turn

LEMMA ReplaceLocked ==
    ASSUME AlertTypes, TasksInShape, Locked, NEW u \in Users, ReplaceAlerts(u) PROVE Locked'
<1>1. /\ task'[u] = Done("ok")
      /\ \A v \in Users \ {u} : task'[v].stage = task[v].stage
  BY ReplaceTasks
<1>2. ASSUME NEW v \in Users PROVE LockedFor(v)'
  <2>1. task'[v].stage = task[v].stage \/ task'[v].stage = "off"
    BY <1>1 DEF Done, NoTask
  <2>2. QED
    BY <2>1 DEF Locked, LockedFor, ReplaceAlerts
<1>3. Daemons' = Daemons
  BY DEF Daemons, Live, ReplaceAlerts
<1>4. QED
  BY <1>2, <1>3 DEF Locked, ReplaceAlerts

LEMMA ForegroundLocked ==
    ASSUME AlertTypes, Locked, NEW u \in Users, BeginForeground(u) PROVE Locked'
<1>1. PICK m \in Monitors, once \in BOOLEAN :
        monitor' = [monitor EXCEPT ![m] = [NoMonitor EXCEPT !.stage = "start", !.once = once]]
  BY DEF BeginForeground
<1>2. ~monitor'[m].daemon /\ \A n \in Monitors \ {m} : monitor'[n] = monitor[n]
  BY <1>1 DEF AlertTypes, NoMonitor
<1>3. Daemons' \subseteq Daemons
  BY <1>2 DEF Daemons, Live
<1>4. UNCHANGED <<task, loglock, log>>
  BY DEF BeginForeground
<1>5. \A v \in Users : LockedFor(v)'
  BY <1>4 DEF Locked, LockedFor
<1>6. QED
  BY <1>3, <1>4, <1>5 DEF Locked

LEMMA TakeLocked ==
    ASSUME AlertTypes, Locked, NEW u \in Users, TakeLogLock(u) PROVE Locked'
<1>1. loglock = {} /\ loglock' = {u} /\ monitor' = monitor /\ log' = log
  BY DEF TakeLogLock
<1>2. /\ task'[u].stage \in {"spawn", "read"}
      /\ \A v \in Users \ {u} : task'[v] = task[v]
  BY DEF TakeLogLock, AlertTypes, Tasks
<1>3. Daemons' = {}
  BY <1>1 DEF Locked, Daemons, Live
<1>4. \A m, n \in loglock' \intersect Monitors : m = n
  BY <1>1
<1>5. LockedFor(u)'
  BY <1>1, <1>2 DEF LockedFor
<1>6. ASSUME NEW v \in Users \ {u} PROVE LockedFor(v)'
  <2>1. task[v].stage \notin LockStages
    BY <1>1 DEF Locked, LockedFor, LockStages
  <2>2. QED
    BY <1>2, <2>1 DEF LockedFor, LockStages
<1>7. QED
  BY <1>3, <1>4, <1>5, <1>6 DEF Locked

LEMMA SpawnLocked ==
    ASSUME AlertTypes, TasksInShape, Locked, NEW u \in Users, Spawn(u) PROVE Locked'
<1> DEFINE m == task[u].slot
<1>1. task[u] \in Tasks /\ task[u].stage = "spawn" /\ m \in Monitors /\ m \notin Users
  BY AlertConstants DEF Spawn, InStage, AlertTypes, TasksInShape, TaskShape
<1>2. loglock = {u} /\ loglock' = {u, m} /\ log' = log
  BY <1>1 DEF Spawn, Locked, LockedFor
<1>3. \A n \in Monitors \ {m} : monitor'[n] = monitor[n]
  BY DEF Spawn, AlertTypes
<1>4. /\ task'[u].stage = "close"
      /\ \A v \in Users \ {u} : task'[v] = task[v]
  BY <1>1 DEF Spawn, AlertTypes, Tasks
<1>5. Daemons' \subseteq loglock'
  <2>1. ASSUME NEW n \in Daemons', n # m PROVE n \in loglock'
    <3>1. n \in Daemons
      BY <1>3, <2>1 DEF Daemons, Live
    <3>2. QED
      BY <1>2, <3>1 DEF Locked
  <2>2. QED
    BY <1>2, <2>1
<1>6. u \notin Monitors
  BY AlertConstants
<1>7. \A n, o \in loglock' \intersect Monitors : n = o
  BY <1>2, <1>6
<1>8. LockedFor(u)'
  <2>1. loglock' \intersect Users = {u}
    BY <1>1, <1>2
  <2>2. QED
    BY <1>4, <2>1 DEF LockedFor
<1>9. ASSUME NEW v \in Users \ {u} PROVE LockedFor(v)'
  <2>1. task[v].stage \notin LockStages
    BY <1>2 DEF Locked, LockedFor, LockStages
  <2>2. QED
    BY <1>4, <2>1 DEF LockedFor, LockStages
<1>10. QED
  BY <1>5, <1>7, <1>8, <1>9 DEF Locked

(* A command that ends lets go of the log; a daemon of its own keeps it.   *)
LEMMA ReleaseLocked ==
    ASSUME AlertTypes, Locked, NEW u \in Users, CloseLog(u) \/ TrimWrite(u) \/ AbortTask(u) PROVE Locked'
<1>1. /\ loglock' = loglock \ {u} /\ monitor' = monitor
      /\ \E how \in Ends : task' = [task EXCEPT ![u] = Done(how)]
  BY DEF CloseLog, TrimWrite, AbortTask, Ends
<1>2. task'[u].stage = "off" /\ \A v \in Users \ {u} : task'[v] = task[v]
  BY <1>1 DEF AlertTypes, Done, NoTask
<1>3. u \notin Monitors
  BY AlertConstants
<1>4. Daemons' \subseteq loglock'
  <2>1. Daemons' = Daemons
    BY <1>1 DEF Daemons, Live
  <2>2. Daemons \subseteq Monitors
    BY DEF Daemons
  <2>3. QED
    BY <1>1, <1>3, <2>1, <2>2 DEF Locked
<1>5. ASSUME NEW v \in Users \ {u} PROVE LockedFor(v)'
  <2>1. CASE TrimWrite(u)
    <3>1. loglock = {u}
      BY <2>1 DEF TrimWrite, InStage, Locked, LockedFor
    <3>2. task[v].stage \notin LockStages
      BY <3>1 DEF Locked, LockedFor, LockStages
    <3>3. QED
      BY <1>2, <3>2 DEF LockedFor, LockStages
  <2>2. CASE log' = log
    BY <1>1, <1>2, <2>2 DEF Locked, LockedFor
  <2>3. QED
    BY <2>1, <2>2 DEF CloseLog, AbortTask
<1>6. LockedFor(u)'
  BY <1>2 DEF LockedFor
<1>7. QED
  BY <1>1, <1>4, <1>5, <1>6 DEF Locked

LEMMA TrimLocked ==
    ASSUME AlertTypes, Locked, NEW u \in Users, TrimRead(u) \/ TrimCut(u) PROVE Locked'
<1>1. task[u] \in Tasks /\ task[u].stage \in {"read", "cut"} /\ loglock = {u} /\ loglock' = {u} /\ monitor' = monitor
  BY DEF TrimRead, TrimCut, Turn, InStage, Locked, LockedFor, AlertTypes
<1>2. /\ \A v \in Users \ {u} : task'[v] = task[v]
      /\ \/ task'[u].stage = "cut"
         \/ task'[u].stage = "write" /\ log' = 0
  BY <1>1, ZenonT(60) DEF TrimRead, TrimCut, Turn, AlertTypes, Tasks
<1>3. Daemons' = Daemons
  BY <1>1 DEF Daemons, Live
<1>4. ASSUME NEW v \in Users \ {u} PROVE LockedFor(v)'
  <2>1. task[v].stage \notin LockStages
    BY <1>1 DEF Locked, LockedFor, LockStages
  <2>2. QED
    BY <1>2, <2>1 DEF LockedFor, LockStages
<1>5. LockedFor(u)'
  BY <1>1, <1>2 DEF LockedFor
<1>6. QED
  BY <1>1, <1>3, <1>4, <1>5 DEF Locked

(* A monitor that ends lets go of the log.                                 *)
LEMMA EndLocked ==
    ASSUME AlertTypes, Locked, NEW m \in Monitors, Live(m),
           ~Live(m)', \A n \in Monitors \ {m} : monitor'[n] = monitor[n],
           task' = task, loglock' = loglock \ {m}, log' = log \/ monitor[m].daemon
    PROVE  Locked'
<1>1. Daemons' \subseteq Daemons \ {m}
  BY DEF Daemons, Live
<1>2. m \notin Users
  BY AlertConstants
<1>3. ASSUME NEW v \in Users PROVE LockedFor(v)'
  <2>1. task[v].stage \in {"spawn", "read", "cut", "write"} => loglock' = {v}
    BY <1>2 DEF Locked, LockedFor
  <2>2. task[v].stage = "close" => loglock' \intersect Users = {v}
    BY <1>2 DEF Locked, LockedFor
  <2>3. ASSUME task[v].stage = "write" PROVE log' = 0
    <3>1. loglock = {v} /\ log = 0
      BY <2>3 DEF Locked, LockedFor
    <3>2. m \notin Daemons
      BY <1>2, <3>1 DEF Locked
    <3>3. QED
      BY <3>1, <3>2 DEF Daemons
  <2>4. QED
    BY <2>1, <2>2, <2>3 DEF LockedFor
<1>4. QED
  BY <1>1, <1>3 DEF Locked

LEMMA MonitorsLocked ==
    ASSUME AlertTypes, Locked, NEW m \in Monitors,
           LoadConditions(m) \/ FetchMarkets(m) \/ SkipCondition(m) \/ Notify(m) \/ EndPass(m) \/ Kill(m)
    PROVE  Locked'
<1>1. monitor[m] \in Watches
  BY DEF AlertTypes
<1>2. ASSUME Gone(m), Live(m) PROVE Locked'
  <2>1. monitor'[m].stage = "over" /\ \A n \in Monitors \ {m} : monitor'[n] = monitor[n]
    BY <1>2 DEF Gone, Ended, NoMonitor, AlertTypes
  <2>2. ~Live(m)'
    BY <2>1 DEF Live
  <2>3. QED
    BY <1>2, <2>1, <2>2, EndLocked DEF Gone
<1>3. ASSUME NEW w, Become(m, w), w.daemon = monitor[m].daemon, Live(m) PROVE Locked'
  <2>1. \A n \in Monitors : monitor'[n] = IF n = m THEN w ELSE monitor[n]
    BY <1>3 DEF Become, AlertTypes
  <2>2. UNCHANGED <<task, loglock, log>>
    BY <1>3 DEF Become
  <2>3. Daemons' \subseteq Daemons
    BY <1>3, <2>1 DEF Daemons, Live
  <2>4. \A v \in Users : LockedFor(v)'
    BY <2>2 DEF Locked, LockedFor
  <2>5. QED
    BY <2>2, <2>3, <2>4 DEF Locked
<1>4. CASE LoadConditions(m)
  <2>1. Live(m)
    BY <1>4 DEF LoadConditions, Live
  <2>2. \A p : [monitor[m] EXCEPT !.stage = "idle", !.pending = p].daemon = monitor[m].daemon
    BY <1>1 DEF Watches
  <2>3. Gone(m) \/ \E p : Become(m, [monitor[m] EXCEPT !.stage = "idle", !.pending = p])
    BY <1>4 DEF LoadConditions
  <2>4. QED
    BY <1>2, <1>3, <2>1, <2>2, <2>3
<1>5. CASE FetchMarkets(m)
  <2>1. Live(m)
    BY <1>5 DEF FetchMarkets, Live
  <2>2. PICK quotes : Become(m, [monitor[m] EXCEPT !.stage = "check", !.todo = monitor[m].pending,
                       !.quotes = quotes, !.mids = NoMonitor.mids, !.passes = @ + 1,
                       !.seen = [k \in Markets |-> IF Quoted(quotes, k) THEN Append(@[k], quotes[k]) ELSE @[k]]])
    BY <1>5 DEF FetchMarkets
  <2> DEFINE w == [monitor[m] EXCEPT !.stage = "check", !.todo = monitor[m].pending,
                       !.quotes = quotes, !.mids = NoMonitor.mids, !.passes = @ + 1,
                       !.seen = [k \in Markets |-> IF Quoted(quotes, k) THEN Append(@[k], quotes[k]) ELSE @[k]]]
  <2>3. w.daemon = monitor[m].daemon
    BY <1>1 DEF Watches
  <2>4. Become(m, w)
    BY <2>2
  <2> HIDE DEF w
  <2>5. QED
    BY <1>3, <2>1, <2>3, <2>4
<1>6. CASE SkipCondition(m) \/ Notify(m)
  <2>1. Live(m)
    BY <1>6 DEF SkipCondition, Notify, NextCondition, Live
  <2>2. PICK c \in DOMAIN Conditions :
          \/ Become(m, [monitor[m] EXCEPT !.todo = Tail(@), !.pending = Without(@, c)])
          \/ Become(m, [monitor[m] EXCEPT !.todo = Tail(@)])
          \/ Become(m, [monitor[m] EXCEPT !.todo = Tail(@), !.mids = Noted(m, c)])
          \/ Become(m, [monitor[m] EXCEPT !.todo = Tail(@), !.pending = Without(@, c),
                             !.mids = Noted(m, c), !.told = Append(@, c)])
    BY <1>6 DEF SkipCondition, Notify
  <2>3. /\ [monitor[m] EXCEPT !.todo = Tail(@), !.pending = Without(@, c)].daemon = monitor[m].daemon
        /\ [monitor[m] EXCEPT !.todo = Tail(@)].daemon = monitor[m].daemon
        /\ [monitor[m] EXCEPT !.todo = Tail(@), !.mids = Noted(m, c)].daemon = monitor[m].daemon
        /\ [monitor[m] EXCEPT !.todo = Tail(@), !.pending = Without(@, c),
                              !.mids = Noted(m, c), !.told = Append(@, c)].daemon = monitor[m].daemon
    BY <1>1 DEF Watches
  <2>4. QED
    BY <1>3, <2>1, <2>2, <2>3
<1>7. CASE EndPass(m)
  <2>1. Live(m)
    BY <1>7 DEF EndPass, Live
  <2>2. /\ \A n \in Monitors \ {m} : monitor'[n] = monitor[n]
        /\ task' = task /\ (log' = log \/ monitor[m].daemon)
        /\ loglock' = IF monitor[m].once THEN loglock \ {m} ELSE loglock
    BY <1>7 DEF EndPass, AlertTypes
  <2>3. CASE monitor[m].once
    <3>1. monitor'[m] = Ended(m)
      BY <1>7, <2>3 DEF EndPass, AlertTypes
    <3>2. ~Live(m)'
      BY <3>1 DEF Live, Ended, NoMonitor
    <3>3. QED
      BY <2>1, <2>2, <2>3, <3>2, EndLocked
  <2>4. CASE ~monitor[m].once
    <3>1. monitor'[m].daemon = monitor[m].daemon
      BY <1>1, <1>7, <2>4 DEF EndPass, AlertTypes, Watches
    <3>2. Daemons' \subseteq Daemons
      BY <2>1, <2>2, <3>1 DEF Daemons, Live
    <3>3. ASSUME NEW v \in Users PROVE LockedFor(v)'
      <4>1. ASSUME task[v].stage = "write" PROVE log' = 0
        <5>1. loglock = {v} /\ log = 0 /\ m # v
          BY <4>1, AlertConstants DEF Locked, LockedFor
        <5>2. m \notin Daemons
          BY <5>1 DEF Locked
        <5>3. QED
          BY <2>1, <2>2, <5>1, <5>2 DEF Daemons
      <4>2. QED
        BY <2>2, <2>4, <4>1 DEF Locked, LockedFor
    <3>4. QED
      BY <2>2, <2>4, <3>2, <3>3 DEF Locked
  <2>5. QED
    BY <2>3, <2>4
<1>8. CASE Kill(m)
  BY <1>2, <1>8 DEF Kill
<1>9. QED
  BY <1>4, <1>5, <1>6, <1>7, <1>8

LEMMA LockedInit == ASSUME AlertInit PROVE Locked
<1>1. Daemons = {}
  BY DEF AlertInit, Daemons, Live, NoMonitor
<1>2. \A u \in Users : task[u].stage = "off"
  BY DEF AlertInit, NoTask
<1>3. QED
  BY <1>1, <1>2 DEF AlertInit, Locked, LockedFor

LEMMA LockedStutter == ASSUME Locked, UNCHANGED <<task, monitor, loglock, log>> PROVE Locked'
  BY DEF Locked, LockedFor, Daemons, Live

LEMMA LockedNext == ASSUME AlertTypes, TasksInShape, Locked, AlertNext PROVE Locked'
<1>1. ASSUME NEW u \in Users,
             \/ BeginAdd(u) \/ BeginRemove(u) \/ LoadAlerts(u) \/ WriteAlerts(u) \/ ReplaceAlerts(u)
             \/ BeginForeground(u) \/ BeginDaemon(u) \/ LookForAlerts(u)
             \/ TakeLogLock(u) \/ LogLocked(u) \/ Spawn(u) \/ CloseLog(u)
             \/ BeginTrim(u) \/ TrimRead(u) \/ TrimCut(u) \/ TrimWrite(u)
             \/ AbortTask(u)
      PROVE  Locked'
  BY <1>1, BeginLocked, TurnLocked, ReplaceLocked, ForegroundLocked, TakeLocked, SpawnLocked,
     ReleaseLocked, TrimLocked
<1>2. ASSUME NEW c \in DOMAIN Conditions, Expire(c) PROVE Locked'
  BY <1>2, LockedStutter DEF Expire
<1>3. QED
  BY <1>1, <1>2, MonitorsLocked DEF AlertNext

(* Who holds the lock is the only daemon.                                  *)
LEMMA LockedIsOne == ASSUME AlertTypes, Locked PROVE OneDaemon
<1>1. Daemons \subseteq loglock \intersect Monitors
  BY DEF Locked, Daemons
<1>2. \A m, n \in Daemons : m = n
  BY <1>1 DEF Locked
<1>3. Daemons = {} \/ \E m : Daemons = {m}
  BY <1>2
<1>4. Cardinality(Daemons) <= 1
  <2>1. CASE Daemons = {}
    BY <2>1, FS_EmptySet
  <2>2. ASSUME NEW m, Daemons = {m} PROVE Cardinality(Daemons) = 1
    BY <2>2, FS_Singleton
  <2>3. QED
    BY <1>3, <2>1, <2>2
<1>5. ASSUME NEW u \in Users, task[u].stage \in {"cut", "write"}
      PROVE  Daemons = {} /\ (task[u].stage = "write" => log = 0)
  <2>1. loglock = {u} /\ u \notin Monitors
    BY <1>5, AlertConstants DEF Locked, LockedFor
  <2>2. QED
    BY <1>1, <1>5, <2>1 DEF Locked, LockedFor
<1>6. AlertTypeOK
  <2>1. alerts.whole \in BOOLEAN /\ alerts.items \in Seq(Entries)
    BY DEF AlertTypes
  <2>2. \A i \in DOMAIN alerts.items : alerts.items[i] \in Entries
    BY <2>1, SeqIndices
  <2>3. QED
    BY <2>1, <2>2 DEF AlertTypeOK, AlertTypes
<1>7. QED
  BY <1>4, <1>5, <1>6 DEF OneDaemon

(* However starts, ends, kills and trims of the log interleave, at most    *)
(* one daemon lives and none while trim-log is at work: the lock of        *)
(* spawn_alert_monitor_daemon is the daemon's from before its first line.  *)
THEOREM OneDaemonAtATime == AlertSpec => []OneDaemon
<1> DEFINE Inv == AlertTypes /\ TasksInShape /\ Locked
<1>1. AlertInit => Inv
  BY AlertTypesInit, LockedInit
<1>2. Inv /\ [AlertNext]_alertDesk => Inv'
  <2>1. ASSUME Inv, AlertNext PROVE Inv'
    BY <2>1, AlertTypesNext, LockedNext
  <2>2. ASSUME Inv, UNCHANGED alertDesk PROVE Inv'
    BY <2>2, AlertTypesStutter, LockedStutter DEF alertDesk
  <2>3. QED
    BY <2>1, <2>2
<1>3. Inv => OneDaemon
  BY LockedIsOne
<1>4. QED
  BY <1>1, <1>2, <1>3, PTL DEF AlertSpec

-----------------------------------------------------------------------------
(* A command that nobody overlaps holds what is in alerts.json.            *)

Writing == {"temp", "replace"}
CopyCurrent(u) == task[u].stage \in Writing /\ ~task[u].overlap => task[u].copy = alerts.items
CopiesCurrent == alerts.whole /\ \A u \in Users : CopyCurrent(u)

LEMMA CopiesSame ==
    ASSUME AlertTypes, CopiesCurrent, NEW u \in Users, NEW t, task' = [task EXCEPT ![u] = t], alerts' = alerts,
           t.stage \in Writing /\ ~t.overlap => t.copy = alerts.items
    PROVE  CopiesCurrent'
<1>1. \A v \in Users : task'[v] = IF v = u THEN t ELSE task[v]
  BY Updated, ZenonT(60)
<1>2. ASSUME NEW v \in Users PROVE CopyCurrent(v)'
  BY <1>1 DEF CopiesCurrent, CopyCurrent
<1>3. QED
  BY <1>2 DEF CopiesCurrent

LEMMA AskCopies ==
    ASSUME AlertTypes, CopiesCurrent, NEW u \in Users, NEW t \in Tasks, t.stage \notin Writing, Ask(u, t)
    PROVE  CopiesCurrent'
<1> DEFINE s == [t EXCEPT !.end = "running"]
<1>1. s.stage = t.stage
  BY DEF Tasks
<1>2. task' = [task EXCEPT ![u] = s]
  BY DEF Ask
<1> HIDE DEF s
<1>3. QED
  BY <1>1, <1>2, CopiesSame DEF Ask

(* The commands as they start, and what they start with.                   *)
Starts(u, t) ==
    \/ \E c \in DOMAIN Conditions :
          /\ t = [NoTask EXCEPT !.cmd = "add", !.stage = "load", !.typed = {c}]
          /\ [id |-> c] \notin ToSet(alerts.items)
          /\ \A v \in Users : (Busy(v) => task[v].typed # {c}) /\ [id |-> c] \notin ToSet(task[v].copy)
    \/ \E typed \in TypedIds : t = [NoTask EXCEPT !.cmd = "remove", !.stage = "load", !.typed = typed]
    \/ \E m \in Monitors : t = [NoTask EXCEPT !.cmd = "daemon", !.stage = "look", !.slot = m]
    \/ t = [NoTask EXCEPT !.cmd = "trim", !.stage = "lock"]

LEMMA StartsTyped ==
    ASSUME NEW u, NEW t, Starts(u, t)
    PROVE  t \in Tasks /\ t.stage \in {"load", "look", "lock"} /\ t.copy = <<>>
<1>1. ASSUME NEW c \in DOMAIN Conditions, t = [NoTask EXCEPT !.cmd = "add", !.stage = "load", !.typed = {c}]
      PROVE  t \in Tasks /\ t.stage = "load" /\ t.copy = <<>>
  <2>1. t \in Tasks
    BY <1>1, NoTaskTyped, TypingsHave DEF Tasks, Commands, TaskStages
  <2>2. QED
    BY <1>1, <2>1 DEF NoTask
<1>2. ASSUME NEW c \in TypedIds, t = [NoTask EXCEPT !.cmd = "remove", !.stage = "load", !.typed = c]
      PROVE  t \in Tasks /\ t.stage = "load" /\ t.copy = <<>>
  <2>1. t \in Tasks
    BY <1>2, NoTaskTyped, TypingsHave DEF Tasks, Commands, TaskStages
  <2>2. QED
    BY <1>2, <2>1 DEF NoTask
<1>3. ASSUME NEW m \in Monitors, t = [NoTask EXCEPT !.cmd = "daemon", !.stage = "look", !.slot = m]
      PROVE  t \in Tasks /\ t.stage = "look" /\ t.copy = <<>>
  <2>1. t \in Tasks
    BY <1>3, NoTaskTyped DEF Tasks, Commands, TaskStages
  <2>2. QED
    BY <1>3, <2>1 DEF NoTask
<1>4. ASSUME t = [NoTask EXCEPT !.cmd = "trim", !.stage = "lock"]
      PROVE  t \in Tasks /\ t.stage = "lock" /\ t.copy = <<>>
  <2>1. t \in Tasks
    BY <1>4, NoTaskTyped DEF Tasks, Commands, TaskStages
  <2>2. QED
    BY <1>4, <2>1 DEF NoTask
<1>5. QED
  BY <1>1, <1>2, <1>3, <1>4 DEF Starts

LEMMA BeginsStart ==
    ASSUME NEW u \in Users, BeginAdd(u) \/ BeginRemove(u) \/ BeginDaemon(u) \/ BeginTrim(u)
    PROVE  \E t : Starts(u, t) /\ Ask(u, t)
  BY DEF BeginAdd, BeginRemove, BeginDaemon, BeginTrim, Starts

(* What one user's command does to its own record when it neither starts   *)
(* nor replaces the file.                                                  *)
Continues(u, t) ==
    /\ task' = [task EXCEPT ![u] = t] /\ alerts' = alerts
    /\ \/ \E how \in Ends : t = Done(how)
       \/ /\ t.cmd = task[u].cmd /\ t.typed = task[u].typed /\ t.slot = task[u].slot
          /\ \/ t.stage = "temp" /\ t.copy = alerts.items
             \/ /\ t.copy = task[u].copy /\ t.overlap = task[u].overlap
                /\ t.stage \in Writing => task[u].stage \in Writing

LEMMA TasksContinue ==
    ASSUME AlertTypes, NEW u \in Users,
           \/ LoadAlerts(u) \/ WriteAlerts(u) \/ LookForAlerts(u) \/ TakeLogLock(u) \/ LogLocked(u)
           \/ Spawn(u) \/ CloseLog(u) \/ TrimRead(u) \/ TrimCut(u) \/ TrimWrite(u) \/ AbortTask(u)
    PROVE  \E t : Continues(u, t)
<1>1. task[u] \in Tasks
  BY DEF AlertTypes
<1>2. ASSUME NEW how \in Ends, task' = [task EXCEPT ![u] = Done(how)], alerts' = alerts
      PROVE  \E t : Continues(u, t)
  <2>1. Continues(u, Done(how))
    BY <1>2 DEF Continues
  <2>2. QED
    BY <2>1
<1>3. ASSUME NEW s \in TaskStages, task' = [task EXCEPT ![u] = [task[u] EXCEPT !.stage = s]], alerts' = alerts,
             s \in Writing => task[u].stage \in Writing
      PROVE  \E t : Continues(u, t)
  <2> DEFINE t == [task[u] EXCEPT !.stage = s]
  <2>1. /\ t.cmd = task[u].cmd /\ t.typed = task[u].typed /\ t.slot = task[u].slot /\ t.stage = s
        /\ t.copy = task[u].copy /\ t.overlap = task[u].overlap
    BY <1>1 DEF Tasks
  <2> HIDE DEF t
  <2>2. Continues(u, t)
    BY <1>3, <2>1 DEF Continues, t
  <2>3. QED
    BY <2>2
<1>4. CASE LoadAlerts(u)
  <2> DEFINE t == [task[u] EXCEPT !.stage = "temp", !.copy = alerts.items]
  <2>1. /\ t.cmd = task[u].cmd /\ t.typed = task[u].typed /\ t.slot = task[u].slot
        /\ t.stage = "temp" /\ t.copy = alerts.items
    BY <1>1 DEF Tasks
  <2>2. \/ task' = [task EXCEPT ![u] = Done("unreadable")]
        \/ task' = [task EXCEPT ![u] = Done("not found")]
        \/ task' = [task EXCEPT ![u] = t]
    BY <1>4 DEF LoadAlerts, Turn
  <2>3. alerts' = alerts
    BY <1>4 DEF LoadAlerts, Turn
  <2> HIDE DEF t
  <2>4. CASE task' = [task EXCEPT ![u] = t]
    <3>1. Continues(u, t)
      BY <2>1, <2>3, <2>4 DEF Continues
    <3>2. QED
      BY <3>1
  <2>5. QED
    BY <1>2, <2>2, <2>3, <2>4 DEF Ends
<1>5. CASE WriteAlerts(u)
  BY <1>3, <1>5 DEF WriteAlerts, Turn, InStage, Writing, TaskStages
<1>6. CASE LookForAlerts(u)
  BY <1>2, <1>3, <1>6 DEF LookForAlerts, Turn, Writing, TaskStages, Ends
<1>7. CASE TakeLogLock(u)
  <2>1. PICK s \in {"spawn", "read"} : task' = [task EXCEPT ![u] = [task[u] EXCEPT !.stage = s]]
    BY <1>7 DEF TakeLogLock, AlertTypes
  <2>2. s \in TaskStages /\ s \notin Writing
    BY DEF TaskStages, Writing
  <2>3. QED
    BY <1>3, <1>7, <2>1, <2>2 DEF TakeLogLock
<1>8. CASE LogLocked(u) \/ CloseLog(u) \/ TrimWrite(u) \/ AbortTask(u)
  BY <1>2, <1>8 DEF LogLocked, Turn, CloseLog, TrimWrite, AbortTask, Ends
<1>9. CASE Spawn(u)
  <2>1. task' = [task EXCEPT ![u] = [task[u] EXCEPT !.stage = "close"]] /\ alerts' = alerts
    BY <1>9 DEF Spawn, AlertTypes
  <2>2. "close" \in TaskStages /\ "close" \notin Writing
    BY DEF TaskStages, Writing
  <2>3. QED
    BY <1>3, <2>1, <2>2
<1>10. CASE TrimRead(u)
  <2> DEFINE t == [task[u] EXCEPT !.stage = "cut", !.keep = Min({log, KeepLines})]
  <2>1. /\ t.cmd = task[u].cmd /\ t.typed = task[u].typed /\ t.slot = task[u].slot /\ t.stage = "cut"
        /\ t.copy = task[u].copy /\ t.overlap = task[u].overlap
    BY <1>1 DEF Tasks
  <2>2. task' = [task EXCEPT ![u] = t] /\ alerts' = alerts
    BY <1>10 DEF TrimRead, Turn
  <2> HIDE DEF t
  <2>3. Continues(u, t)
    BY <2>1, <2>2 DEF Continues, Writing
  <2>4. QED
    BY <2>3
<1>11. CASE TrimCut(u)
  <2>1. task' = [task EXCEPT ![u] = [task[u] EXCEPT !.stage = "write"]] /\ alerts' = alerts
    BY <1>11 DEF TrimCut, AlertTypes
  <2>2. "write" \in TaskStages /\ "write" \notin Writing
    BY DEF TaskStages, Writing
  <2>3. QED
    BY <1>3, <2>1, <2>2
<1>12. QED
  BY <1>4, <1>5, <1>6, <1>7, <1>8, <1>9, <1>10, <1>11

(* Every step is of one of four kinds.                                     *)
LEMMA AlertSteps ==
    ASSUME AlertTypes, TasksInShape, AlertNext
    PROVE  \/ \E u \in Users : \E t : Starts(u, t) /\ Ask(u, t)
           \/ \E u \in Users : \E t : Continues(u, t)
           \/ \E u \in Users : ReplaceAlerts(u)
           \/ UNCHANGED <<alerts, task>>
<1>1. ASSUME NEW m \in Monitors,
             \/ LoadConditions(m) \/ FetchMarkets(m)
             \/ SkipCondition(m) \/ Notify(m) \/ EndPass(m) \/ Kill(m)
      PROVE  UNCHANGED <<alerts, task>>
  BY <1>1 DEF LoadConditions, FetchMarkets, SkipCondition, Notify, EndPass, Kill, Gone, Become
<1>2. ASSUME NEW u \in Users, BeginForeground(u) PROVE UNCHANGED <<alerts, task>>
  BY <1>2 DEF BeginForeground
<1>3. ASSUME NEW c \in DOMAIN Conditions, Expire(c) PROVE UNCHANGED <<alerts, task>>
  BY <1>3 DEF Expire
<1>4. QED
  BY <1>1, <1>2, <1>3, BeginsStart, TasksContinue DEF AlertNext

LEMMA CopiesNext == ASSUME AlertTypes, TasksInShape, CopiesCurrent, AlertNext PROVE CopiesCurrent'
<1>1. ASSUME NEW u \in Users, NEW t, Starts(u, t), Ask(u, t) PROVE CopiesCurrent'
  BY <1>1, StartsTyped, AskCopies DEF Writing
<1>2. ASSUME NEW u \in Users, NEW t, Continues(u, t) PROVE CopiesCurrent'
  <2>1. t.stage \in Writing /\ ~t.overlap => t.copy = alerts.items
    BY <1>2 DEF Continues, Done, NoTask, Writing, CopiesCurrent, CopyCurrent
  <2>2. QED
    BY <1>2, <2>1, CopiesSame DEF Continues
<1>3. ASSUME NEW u \in Users, ReplaceAlerts(u) PROVE CopiesCurrent'
  <2>1. /\ task'[u] = Done("ok")
        /\ \A v \in Users \ {u} :
              /\ task'[v].stage = task[v].stage
              /\ task'[v].overlap <=> task[v].overlap \/ task[v].stage \in Writing
    BY <1>3, ReplaceTasks DEF Writing
  <2>2. \A v \in Users : CopyCurrent(v)'
    BY <2>1 DEF CopyCurrent, Done, NoTask, Writing
  <2>3. alerts'.whole
    BY <1>3 DEF ReplaceAlerts
  <2>4. QED
    BY <2>2, <2>3 DEF CopiesCurrent
<1>4. ASSUME UNCHANGED <<alerts, task>> PROVE CopiesCurrent'
  BY <1>4 DEF CopiesCurrent, CopyCurrent
<1>5. QED
  BY <1>1, <1>2, <1>3, <1>4, AlertSteps

(* What a command writes is what is there, with its own change.            *)
LEMMA StepKeepsAlerts == ASSUME AlertTypes, TasksInShape, CopiesCurrent, AlertNext PROVE AlertsStep
<1>1. ASSUME NEW u \in Users, ReplaceAlerts(u) PROVE AlertsStep
  <2>1. task[u].stage = "replace" /\ alerts'.whole /\ alerts'.items = Revised(task[u].copy, task[u])
    BY <1>1 DEF ReplaceAlerts, InStage
  <2>2. task'[u].end = "ok"
    BY <1>1, ReplaceTasks DEF Done, NoTask
  <2>3. ASSUME ~task[u].overlap
        PROVE  \/ /\ task[u].cmd = "add"
                  /\ \E c \in task[u].typed : alerts'.items = Append(alerts.items, [id |-> c])
               \/ /\ task[u].cmd = "remove"
                  /\ \E i \in DOMAIN alerts.items :
                        /\ Matching(alerts.items, task[u].typed) = {i}
                        /\ alerts'.items = RemoveAt(alerts.items, i)
    <3>1. task[u].copy = alerts.items
      BY <2>1, <2>3 DEF CopiesCurrent, CopyCurrent, Writing
    <3>2. \/ \E c \in DOMAIN Conditions :
                /\ task[u].cmd = "add" /\ task[u].typed = {c}
                /\ alerts'.items = Append(alerts.items, [id |-> c])
          \/ \E i \in 1..Len(alerts.items) :
                /\ task[u].cmd = "remove" /\ Matching(alerts.items, task[u].typed) = {i}
                /\ alerts'.items = RemoveAt(alerts.items, i)
      BY <2>1, <3>1, RevisedTyped
    <3>3. 1..Len(alerts.items) = DOMAIN alerts.items
      BY LenProperties DEF AlertTypes
    <3>4. QED
      BY <3>2, <3>3
  <2>4. QED
    BY <2>1, <2>2, <2>3 DEF AlertsStep, InStage
<1>2. ASSUME alerts' = alerts PROVE AlertsStep
  BY <1>2 DEF AlertsStep, CopiesCurrent
<1>3. QED
  BY <1>1, <1>2, AlertSteps DEF Ask, Continues

(* alerts.json is always whole and changes only by what a command was      *)
(* asked to do, unless another one overlapped it.                          *)
THEOREM NoAlertIsLost == AlertSpec => AlertsKept
<1> DEFINE Inv == AlertTypes /\ TasksInShape /\ CopiesCurrent
<1>1. AlertInit => Inv
  <2>1. AlertInit => CopiesCurrent
    BY DEF AlertInit, CopiesCurrent, CopyCurrent, NoTask, Writing
  <2>2. QED
    BY <2>1, AlertTypesInit
<1>2. Inv /\ [AlertNext]_alertDesk => Inv'
  <2>1. ASSUME Inv, AlertNext PROVE Inv'
    BY <2>1, AlertTypesNext, CopiesNext
  <2>2. ASSUME Inv, UNCHANGED alertDesk PROVE CopiesCurrent'
    BY <2>2 DEF alertDesk, CopiesCurrent, CopyCurrent
  <2>3. QED
    BY <2>1, <2>2, AlertTypesStutter
<1>3. Inv /\ [AlertNext]_alertDesk => [AlertsStep]_alertDesk
  BY StepKeepsAlerts
<1>4. QED
  BY <1>1, <1>2, <1>3, PTL DEF AlertSpec, AlertsKept

-----------------------------------------------------------------------------
(* No id is twice in alerts.json or in what a command has read of it, and  *)
(* nobody has yet seen the id a command is about to add.                   *)

Adds(u, c) == task[u].cmd = "add" /\ task[u].typed = {c}
Unseen(u, c) ==
    /\ [id |-> c] \notin ToSet(alerts.items)
    /\ \A v \in Users : [id |-> c] \notin ToSet(task[v].copy)
    /\ \A v \in Users : Adds(v, c) => v = u

IdsDistinct ==
    /\ Distinct(alerts.items)
    /\ \A u \in Users : Distinct(task[u].copy)
    /\ \A u \in Users, c \in DOMAIN Conditions : Adds(u, c) => Unseen(u, c)

LEMMA EmptyDistinct == Distinct(<<>>) /\ ToSet(<<>>) = {}
  BY DEF Distinct, ToSet

LEMMA IdsInit == ASSUME AlertInit PROVE IdsDistinct
<1>1. Distinct(alerts.items)
  <2>1. /\ DOMAIN alerts.items = DOMAIN StartAlerts
        /\ \A i \in DOMAIN StartAlerts : alerts.items[i] = [id |-> StartAlerts[i]]
    BY DEF AlertInit
  <2>2. ASSUME NEW i \in DOMAIN StartAlerts, NEW j \in DOMAIN StartAlerts, alerts.items[i] = alerts.items[j]
        PROVE  i = j
    <3>1. alerts.items[i] = [id |-> StartAlerts[i]] /\ alerts.items[j] = [id |-> StartAlerts[j]]
      BY <2>1
    <3>2. [id |-> StartAlerts[i]].id = [id |-> StartAlerts[j]].id
      BY <2>2, <3>1
    <3>3. QED
      BY <3>2, AlertConstants DEF IsInjective
  <2>3. QED
    BY <2>1, <2>2 DEF Distinct
<1>2. \A u \in Users : task[u].copy = <<>> /\ task[u].cmd = "none"
  BY DEF AlertInit, NoTask
<1>3. QED
  BY <1>1, <1>2, EmptyDistinct DEF IdsDistinct, Adds

LEMMA StartsFresh ==
    ASSUME NEW u, NEW t, Starts(u, t), NEW c, t.cmd = "add", t.typed = {c}
    PROVE  /\ [id |-> c] \notin ToSet(alerts.items)
           /\ \A x \in Users : (Busy(x) => task[x].typed # {c}) /\ [id |-> c] \notin ToSet(task[x].copy)
<1>1. ~\E typed \in TypedIds : t = [NoTask EXCEPT !.cmd = "remove", !.stage = "load", !.typed = typed]
  BY DEF NoTask
<1>2. ~\E m \in Monitors : t = [NoTask EXCEPT !.cmd = "daemon", !.stage = "look", !.slot = m]
  BY DEF NoTask
<1>3. t # [NoTask EXCEPT !.cmd = "trim", !.stage = "lock"]
  BY DEF NoTask
<1>4. PICK d \in DOMAIN Conditions :
        /\ t = [NoTask EXCEPT !.cmd = "add", !.stage = "load", !.typed = {d}]
        /\ [id |-> d] \notin ToSet(alerts.items)
        /\ \A v \in Users : (Busy(v) => task[v].typed # {d}) /\ [id |-> d] \notin ToSet(task[v].copy)
  BY <1>1, <1>2, <1>3 DEF Starts
<1>5. t.typed = {d}
  BY <1>4 DEF NoTask
<1>6. d = c
  BY <1>5
<1>7. QED
  BY <1>4, <1>6

LEMMA IdsOnStart ==
    ASSUME AlertTypes, TasksInShape, IdsDistinct, NEW u \in Users, NEW t, Starts(u, t), Ask(u, t)
    PROVE  IdsDistinct'
<1>1. t \in Tasks /\ t.copy = <<>>
  BY StartsTyped
<1> DEFINE s == [t EXCEPT !.end = "running"]
<1>2. s.cmd = t.cmd /\ s.typed = t.typed /\ s.copy = <<>>
  BY <1>1 DEF Tasks
<1>3. task' = [task EXCEPT ![u] = s] /\ alerts' = alerts
  BY DEF Ask
<1> HIDE DEF s
<1>4. \A v \in Users : task'[v] = IF v = u THEN s ELSE task[v]
  BY <1>3, Updated
<1>5. ASSUME NEW v \in Users, NEW c \in DOMAIN Conditions, Adds(v, c)' PROVE Unseen(v, c)'
  <2>1. CASE v = u
    <3>1. t.cmd = "add" /\ t.typed = {c}
      BY <1>2, <1>4, <1>5, <2>1 DEF Adds
    <3>2. /\ [id |-> c] \notin ToSet(alerts.items)
          /\ \A x \in Users : (Busy(x) => task[x].typed # {c}) /\ [id |-> c] \notin ToSet(task[x].copy)
      BY <3>1, StartsFresh
    <3>3. \A x \in Users : ~Adds(x, c)
      BY <3>2 DEF TasksInShape, TaskShape, Busy, Adds
    <3>4. ASSUME NEW x \in Users, Adds(x, c)' PROVE x = u
      <4>1. x # u => task'[x] = task[x]
        BY <1>4
      <4>2. x # u => Adds(x, c)
        BY <3>4, <4>1 DEF Adds
      <4>3. QED
        BY <3>3, <4>2
    <3>5. \A x \in Users : [id |-> c] \notin ToSet(task'[x].copy)
      BY <1>2, <1>4, <3>2, EmptyDistinct
    <3>6. QED
      BY <1>3, <2>1, <3>2, <3>4, <3>5 DEF Unseen
  <2>2. CASE v # u
    <3>1. Adds(v, c) /\ Unseen(v, c)
      BY <1>4, <1>5, <2>2 DEF Adds, IdsDistinct
    <3>2. ~Adds(u, c)'
      <4>1. ASSUME t.cmd = "add", t.typed = {c} PROVE FALSE
        <5>1. Busy(v) => task[v].typed # {c}
          BY <4>1, StartsFresh
        <5>2. QED
          BY <3>1, <5>1 DEF TasksInShape, TaskShape, Busy, Adds
      <4>2. QED
        BY <1>2, <1>4, <4>1 DEF Adds
    <3>3. \A x \in Users : Adds(x, c)' => x = v
      BY <1>4, <3>1, <3>2 DEF Adds, Unseen
    <3>4. \A x \in Users : [id |-> c] \notin ToSet(task'[x].copy)
      BY <1>2, <1>4, <3>1, EmptyDistinct DEF Unseen
    <3>5. QED
      BY <1>3, <3>1, <3>3, <3>4 DEF Unseen
  <2>3. QED
    BY <2>1, <2>2
<1>6. \A v \in Users : Distinct(task'[v].copy)
  BY <1>2, <1>4, EmptyDistinct DEF IdsDistinct
<1>7. QED
  BY <1>3, <1>5, <1>6 DEF IdsDistinct

LEMMA IdsContinue ==
    ASSUME AlertTypes, IdsDistinct, NEW u \in Users, NEW t, Continues(u, t) PROVE IdsDistinct'
<1>1. /\ alerts' = alerts
      /\ \A v \in Users : task'[v] = IF v = u THEN t ELSE task[v]
  BY Updated DEF Continues
<1>2. /\ t.copy \in {<<>>, alerts.items, task[u].copy}
      /\ t.cmd = "none" \/ (t.cmd = task[u].cmd /\ t.typed = task[u].typed)
  BY DEF Continues, Done, NoTask
<1>3. \A v \in Users : Distinct(task'[v].copy)
  BY <1>1, <1>2, EmptyDistinct DEF IdsDistinct
<1>4. \A v \in Users, c \in DOMAIN Conditions : Adds(v, c)' => Adds(v, c)
  BY <1>1, <1>2 DEF Adds
<1>5. ASSUME NEW v \in Users, NEW c \in DOMAIN Conditions, Adds(v, c)' PROVE Unseen(v, c)'
  <2>1. Unseen(v, c)
    BY <1>4, <1>5 DEF IdsDistinct
  <2>2. \A x \in Users : [id |-> c] \notin ToSet(task'[x].copy)
    BY <1>1, <1>2, <2>1, EmptyDistinct DEF Unseen
  <2>3. QED
    BY <1>1, <1>4, <2>1, <2>2 DEF Unseen
<1>6. QED
  BY <1>1, <1>3, <1>5 DEF IdsDistinct

LEMMA IdsOnReplace ==
    ASSUME AlertTypes, TasksInShape, IdsDistinct, NEW u \in Users, ReplaceAlerts(u) PROVE IdsDistinct'
<1> DEFINE copy == task[u].copy
<1>1. copy \in Seq(Entries) /\ Distinct(copy)
  BY DEF AlertTypes, Tasks, IdsDistinct
<1>2. alerts'.items = Revised(copy, task[u]) /\ task[u].stage \in Writing
  BY DEF ReplaceAlerts, InStage, Writing
<1>3. /\ task'[u] = Done("ok")
      /\ \A v \in Users \ {u} :
            /\ task'[v].cmd = task[v].cmd /\ task'[v].typed = task[v].typed /\ task'[v].copy = task[v].copy
  BY ReplaceTasks
<1>4. task'[u].copy = <<>> /\ task'[u].cmd = "none"
  BY <1>3 DEF Done, NoTask
<1>5. /\ Distinct(alerts'.items)
      /\ \A e \in ToSet(alerts'.items) : e \in ToSet(copy) \/ \E c \in DOMAIN Conditions : Adds(u, c) /\ e = [id |-> c]
  <2>1. CASE \E c \in DOMAIN Conditions :
                task[u].cmd = "add" /\ task[u].typed = {c} /\ Revised(copy, task[u]) = Append(copy, [id |-> c])
    <3>1. PICK c \in DOMAIN Conditions : Adds(u, c) /\ alerts'.items = Append(copy, [id |-> c])
      BY <1>2, <2>1 DEF Adds
    <3>2. [id |-> c] \notin ToSet(copy) /\ [id |-> c] \in Entries
      BY <3>1, EntryTyped DEF IdsDistinct, Unseen
    <3>3. Distinct(alerts'.items) /\ ToSet(alerts'.items) = ToSet(copy) \union {[id |-> c]}
      BY <1>1, <3>1, <3>2, AppendedTo
    <3>4. QED
      BY <3>1, <3>3
  <2>2. CASE \E i \in 1..Len(copy) : Revised(copy, task[u]) = RemoveAt(copy, i)
    <3>1. PICK i \in 1..Len(copy) : alerts'.items = RemoveAt(copy, i)
      BY <1>2, <2>2
    <3>2. Distinct(alerts'.items) /\ ToSet(alerts'.items) = ToSet(copy) \ {copy[i]}
      BY <1>1, <3>1, RemovedFrom
    <3>3. QED
      BY <3>2
  <2>3. QED
    BY <1>2, <2>1, <2>2, RevisedTyped DEF Writing
<1>6. \A v \in Users : Distinct(task'[v].copy)
  BY <1>3, <1>4, EmptyDistinct DEF IdsDistinct
<1>7. ASSUME NEW v \in Users, NEW c \in DOMAIN Conditions, Adds(v, c)' PROVE Unseen(v, c)'
  <2>1. v # u /\ Adds(v, c) /\ Unseen(v, c)
    BY <1>3, <1>4, <1>7 DEF Adds, IdsDistinct
  <2>2. [id |-> c] \notin ToSet(alerts'.items)
    <3>1. [id |-> c] \notin ToSet(copy)
      BY <2>1 DEF Unseen
    <3>2. ASSUME NEW d \in DOMAIN Conditions, Adds(u, d), [id |-> c] = [id |-> d] PROVE FALSE
      <4>1. c = d
        BY <3>2
      <4>2. QED
        BY <2>1, <3>2, <4>1 DEF Unseen
    <3>3. QED
      BY <1>5, <3>1, <3>2
  <2>3. \A x \in Users : [id |-> c] \notin ToSet(task'[x].copy)
    BY <1>3, <1>4, <2>1, EmptyDistinct DEF Unseen
  <2>4. \A x \in Users : Adds(x, c)' => x = v
    BY <1>3, <1>4, <2>1 DEF Adds, Unseen
  <2>5. QED
    BY <2>2, <2>3, <2>4 DEF Unseen
<1>8. QED
  BY <1>5, <1>6, <1>7 DEF IdsDistinct

LEMMA IdsSame == ASSUME IdsDistinct, UNCHANGED <<alerts, task>> PROVE IdsDistinct'
  BY DEF IdsDistinct, Adds, Unseen

LEMMA IdsNext == ASSUME AlertTypes, TasksInShape, IdsDistinct, AlertNext PROVE IdsDistinct'
  BY AlertSteps, IdsOnStart, IdsContinue, IdsOnReplace, IdsSame

-----------------------------------------------------------------------------
(* Monitors.  What happened to a condition in a market so far, and what    *)
(* fires in the next pass, add up to what happened with that pass.         *)

LastSeen(s) == IF s = <<>> THEN Null ELSE s[Len(s)].mid
Midpoints(s) == \A i \in DOMAIN s : s[i].mid # Null

LEMMA NothingHappened == ASSUME NEW c \in DOMAIN Conditions PROVE ~Happened(c, <<>>)
<1>1. Conditions[c].kind \in Kinds
  BY AlertAssumption DEF AlertAssumption
<1>2. ASSUME NEW s, DOMAIN s = {} PROVE ~Happened(c, s)
  BY <1>1, <1>2 DEF Happened, Kinds
<1>3. DOMAIN <<>> = {}
  OBVIOUS
<1>4. QED
  BY <1>2, <1>3

LEMMA FiringAddsUp ==
    ASSUME NEW c \in DOMAIN Conditions, NEW s \in Seq(Quotes), NEW q \in Quotes, q.mid # Null, Midpoints(s)
    PROVE  Happened(c, Append(s, q)) <=> Happened(c, s) \/ Fires(c, q, LastSeen(s))
<1> DEFINE t == Append(s, q)
           n == Len(s)
           level == Conditions[c].level
<1>1. /\ DOMAIN s = 1..n /\ n \in Nat /\ \A i \in 1..n : s[i] \in Quotes
      /\ DOMAIN t = 1..(n + 1) /\ t[n + 1] = q /\ \A i \in 1..n : t[i] = s[i]
  BY SeqIndices, AppendedTo, LenProperties
<1>2. /\ \A i \in 1..n : s[i].mid \in Int /\ s[i].mid # Null
      /\ q.mid \in Int /\ level \in Int
  BY <1>1, AlertConstants DEF Midpoints
<1>3. s = <<>> <=> n = 0
  BY EmptySeq
<1>4. LastSeen(s) = IF n = 0 THEN Null ELSE s[n].mid
  BY <1>3 DEF LastSeen
<1>5. n # 0 => n \in 1..n /\ LastSeen(s) # Null
  BY <1>1, <1>2, <1>4
<1>6. \A i \in 1..(n + 1) : i \in 1..n \/ i = n + 1
  BY <1>1
<1>7. 1..n \subseteq 1..(n + 1) /\ n + 1 \in 1..(n + 1)
  BY <1>1
<1> HIDE DEF t, n, level
<1>8. Conditions[c].kind \in Kinds
  BY AlertAssumption DEF AlertAssumption
<1>9. CASE Conditions[c].kind = "price_above"
  BY <1>1, <1>6, <1>7, <1>9 DEF Happened, Fires, t
<1>10. CASE Conditions[c].kind = "price_below"
  BY <1>1, <1>6, <1>7, <1>10 DEF Happened, Fires, t
<1>11. CASE Conditions[c].kind = "spread_above"
  BY <1>1, <1>6, <1>7, <1>11 DEF Happened, Fires, t
<1>12. CASE Conditions[c].kind = "volume_above"
  BY <1>1, <1>6, <1>7, <1>12 DEF Happened, Fires, t
<1>13. CASE Conditions[c].kind = "sentiment_shift"
  BY <1>1, <1>6, <1>7, <1>13 DEF Happened, Fires, t
<1>14. CASE Conditions[c].kind = "edge_detected"
  <2>1. ASSUME NEW i \in 1..n PROVE i > 1 => t[i] = s[i] /\ t[i - 1] = s[i - 1]
    <3>1. i > 1 => i - 1 \in 1..n
      BY <1>1
    <3>2. QED
      BY <1>1, <3>1
  <2>2. Happened(c, t) <=> level > 0 /\ \E i \in 1..(n + 1) : i > 1 /\ Distance(t[i].mid, t[i - 1].mid) >= level
    BY <1>1, <1>14 DEF Happened, level
  <2>3. Happened(c, s) <=> level > 0 /\ \E i \in 1..n : i > 1 /\ Distance(s[i].mid, s[i - 1].mid) >= level
    BY <1>1, <1>14 DEF Happened, level
  <2>4. Fires(c, q, LastSeen(s)) <=> LastSeen(s) # Null /\ level > 0 /\ Distance(q.mid, LastSeen(s)) >= level
    BY <1>14 DEF Fires, level
  <2>5. n + 1 > 1 => t[n + 1] = q /\ t[(n + 1) - 1] = s[n] /\ LastSeen(s) = s[n].mid /\ LastSeen(s) # Null
    <3>1. n + 1 > 1 => n # 0 /\ (n + 1) - 1 = n
      BY <1>1
    <3>2. QED
      BY <1>1, <1>4, <1>5, <3>1
  <2>6. LastSeen(s) # Null => n + 1 > 1
    <3>1. LastSeen(s) # Null => n # 0
      BY <1>4
    <3>2. QED
      BY <1>1, <3>1
  <2> HIDE DEF LastSeen
  <2>7. QED
    BY <1>6, <1>7, <2>1, <2>2, <2>3, <2>4, <2>5, <2>6 DEF t
<1>15. CASE Conditions[c].kind = "price_crosses"
  <2> DEFINE Crossed(a, b) == (a < level /\ b >= level) \/ (a > level /\ b <= level)
  <2>1. Happened(c, t) <=> \E i, j \in 1..(n + 1) : i < j /\ Crossed(t[i].mid, t[j].mid)
    BY <1>1, <1>15 DEF Happened, level
  <2>2. Happened(c, s) <=> \E i, j \in 1..n : i < j /\ Crossed(s[i].mid, s[j].mid)
    BY <1>1, <1>15 DEF Happened, level
  <2>3. Fires(c, q, LastSeen(s)) <=> n # 0 /\ Crossed(s[n].mid, q.mid)
    <3>1. Fires(c, q, LastSeen(s)) <=> /\ LastSeen(s) # Null
                                       /\ \/ LastSeen(s) < level /\ level <= q.mid
                                          \/ LastSeen(s) > level /\ level >= q.mid
      BY <1>15 DEF Fires, level
    <3>2. CASE n = 0
      BY <1>4, <3>1, <3>2
    <3>3. CASE n # 0
      <4>1. LastSeen(s) = s[n].mid /\ LastSeen(s) # Null /\ s[n].mid \in Int
        BY <1>2, <1>4, <1>5, <3>3
      <4>2. QED
        BY <1>2, <3>1, <3>3, <4>1
    <3>4. QED
      BY <3>2, <3>3
  <2>4. ASSUME Happened(c, s) PROVE Happened(c, t)
    <3>1. PICK i \in 1..n, j \in 1..n : i < j /\ Crossed(s[i].mid, s[j].mid)
      BY <2>2, <2>4
    <3>2. t[i] = s[i] /\ t[j] = s[j]
      BY <1>1
    <3>3. QED
      BY <1>7, <2>1, <3>1, <3>2
  <2>5. ASSUME Fires(c, q, LastSeen(s)) PROVE Happened(c, t)
    <3>1. n # 0 /\ n \in 1..n /\ Crossed(s[n].mid, q.mid)
      BY <1>5, <2>3, <2>5
    <3>2. n < n + 1 /\ t[n] = s[n] /\ t[n + 1] = q
      BY <1>1, <3>1
    <3>3. QED
      BY <1>7, <2>1, <3>1, <3>2
  <2>6. ASSUME Happened(c, t) PROVE Happened(c, s) \/ Fires(c, q, LastSeen(s))
    <3>1. PICK i \in 1..(n + 1), j \in 1..(n + 1) : i < j /\ Crossed(t[i].mid, t[j].mid)
      BY <2>1, <2>6
    <3>2. i \in 1..n /\ t[i] = s[i]
      BY <1>1, <3>1
    <3>3. CASE j \in 1..n
      <4>1. t[j] = s[j]
        BY <1>1, <3>3
      <4>2. QED
        BY <2>2, <3>1, <3>2, <3>3, <4>1
    <3>4. CASE j = n + 1
      <4>1. Crossed(s[i].mid, q.mid)
        BY <1>1, <3>1, <3>2, <3>4
      <4>2. n # 0 /\ n \in 1..n
        BY <1>1, <3>2
      <4>3. Crossed(s[n].mid, q.mid) \/ (i < n /\ Crossed(s[i].mid, s[n].mid))
        BY <1>1, <1>2, <3>2, <4>1, <4>2
      <4>4. QED
        BY <2>2, <2>3, <3>2, <4>2, <4>3
    <3>5. QED
      BY <1>6, <3>3, <3>4
  <2>7. QED
    BY <2>4, <2>5, <2>6 DEF t
<1>16. QED
  BY <1>8, <1>9, <1>10, <1>11, <1>12, <1>13, <1>14, <1>15 DEF Kinds

(* A monitor that is not at its conditions knows nothing.                  *)
Blank(w) ==
    w.stage \notin {"idle", "check"} =>
        /\ w.pending = <<>> /\ w.told = <<>>
        /\ w.last = NoMonitor.last /\ w.seen = NoMonitor.seen

(* What this pass has fetched is what was seen last.                       *)
SeenSound(w) ==
    /\ w.stage # "check" => w.todo = <<>> /\ w.quotes = NoMonitor.quotes /\ w.mids = NoMonitor.mids
    /\ \A k \in Markets :
          /\ Midpoints(w.seen[k])
          /\ w.mids[k] # Null => Quoted(w.quotes, k) /\ w.mids[k] = w.quotes[k].mid

ToldSound(w) ==
    /\ Distinct(w.told)
    /\ \A c \in ToSet(w.told) : c \notin ToSet(w.pending) /\ Happened(c, w.seen[Ticker(c)])

(* Up to this pass, s was seen of the condition's market: that is what     *)
(* `last` is about, and nothing has happened in it.                        *)
Watched(w, c, s) ==
    LET k == Ticker(c) IN
    /\ w.seen[k] = IF Quoted(w.quotes, k) THEN Append(s, w.quotes[k]) ELSE s
    /\ w.last[k] = LastSeen(s)
    /\ c \in ToSet(w.todo) /\ c \notin expired => ~Happened(c, s)
    /\ c \notin ToSet(w.todo) =>
          /\ Quoted(w.quotes, k) => w.mids[k] = w.quotes[k].mid
          /\ c \notin expired => ~Happened(c, w.seen[k])

PendingSound(w) ==
    /\ Distinct(w.pending) /\ Distinct(w.todo) /\ ToSet(w.todo) \subseteq ToSet(w.pending)
    /\ \A c \in ToSet(w.pending) : \E s \in Seq(Quotes) : Watched(w, c, s)

WatchSound(w) == Blank(w) /\ SeenSound(w) /\ ToldSound(w) /\ PendingSound(w)

MonitorsSound == \A m \in Monitors : WatchSound(monitor[m])

LEMMA BlankSound ==
    ASSUME NEW w \in Watches, Blank(w), w.stage \notin {"idle", "check"}, w.todo = <<>>,
           w.quotes = NoMonitor.quotes, w.mids = NoMonitor.mids
    PROVE  WatchSound(w)
<1>1. /\ w.pending = <<>> /\ w.told = <<>> /\ w.seen = [k \in Markets |-> <<>>]
      /\ w.mids = [k \in Markets |-> Null]
  BY DEF Blank, NoMonitor
<1>2. \A k \in Markets : Midpoints(w.seen[k]) /\ w.mids[k] = Null
  BY <1>1 DEF Midpoints
<1>3. SeenSound(w)
  BY <1>2 DEF SeenSound
<1>4. ToldSound(w) /\ PendingSound(w)
  BY <1>1, EmptyDistinct DEF ToldSound, PendingSound
<1>5. QED
  BY <1>3, <1>4 DEF WatchSound

LEMMA NewSound ==
    ASSUME NEW w \in Watches, w.stage \in {"off", "start", "over"}, w.pending = <<>>, w.told = <<>>, w.todo = <<>>,
           w.last = NoMonitor.last, w.seen = NoMonitor.seen, w.quotes = NoMonitor.quotes, w.mids = NoMonitor.mids
    PROVE  WatchSound(w)
  BY BlankSound DEF Blank

(* Only one monitor changes, and no more conditions expire.                *)
LEMMA OneWatchChanges ==
    ASSUME AlertTypes, MonitorsSound, NEW m \in Monitors, NEW w, WatchSound(w),
           monitor' = [monitor EXCEPT ![m] = w], expired' = expired
    PROVE  MonitorsSound'
<1>1. \A n \in Monitors : monitor'[n] = IF n = m THEN w ELSE monitor[n]
  BY DEF AlertTypes
<1>2. \A n \in Monitors : WatchSound(monitor[n])' <=> WatchSound(monitor'[n])
  BY DEF WatchSound, Blank, SeenSound, ToldSound, PendingSound, Watched
<1>3. QED
  BY <1>1, <1>2 DEF MonitorsSound

LEMMA MoreExpire ==
    ASSUME MonitorsSound, expired \subseteq expired', monitor' = monitor PROVE MonitorsSound'
<1>1. ASSUME NEW m \in Monitors PROVE WatchSound(monitor[m])'
  <2>1. WatchSound(monitor[m])
    BY DEF MonitorsSound
  <2>2. \A c, s : Watched(monitor[m], c, s) => Watched(monitor[m], c, s)'
    BY DEF Watched
  <2>3. PendingSound(monitor[m])'
    BY <2>1, <2>2 DEF WatchSound, PendingSound
  <2>4. QED
    BY <2>1, <2>3 DEF WatchSound, Blank, SeenSound, ToldSound
<1>2. QED
  BY <1>1 DEF MonitorsSound

-----------------------------------------------------------------------------
LEMMA StartedSound ==
    ASSUME NEW once \in BOOLEAN
    PROVE  /\ WatchSound([NoMonitor EXCEPT !.stage = "start", !.once = once])
           /\ WatchSound([NoMonitor EXCEPT !.stage = "start", !.daemon = TRUE, !.once = once])
<1> DEFINE v == [NoMonitor EXCEPT !.stage = "start", !.once = once]
           w == [NoMonitor EXCEPT !.stage = "start", !.daemon = TRUE, !.once = once]
<1>1. v \in Watches /\ w \in Watches
  BY NoMonitorTyped DEF Watches, WatchStages
<1>2. /\ v.stage = "start" /\ v.pending = <<>> /\ v.told = <<>> /\ v.todo = <<>>
      /\ v.last = NoMonitor.last /\ v.seen = NoMonitor.seen
      /\ v.quotes = NoMonitor.quotes /\ v.mids = NoMonitor.mids
  BY DEF NoMonitor
<1>3. /\ w.stage = "start" /\ w.pending = <<>> /\ w.told = <<>> /\ w.todo = <<>>
      /\ w.last = NoMonitor.last /\ w.seen = NoMonitor.seen
      /\ w.quotes = NoMonitor.quotes /\ w.mids = NoMonitor.mids
  BY DEF NoMonitor
<1> HIDE DEF v, w
<1>4. WatchSound(v) /\ WatchSound(w)
  BY <1>1, <1>2, <1>3, NewSound
<1>5. QED
  BY <1>4 DEF v, w

LEMMA StartSound ==
    ASSUME AlertTypes, TasksInShape, MonitorsSound, NEW u \in Users, BeginForeground(u) \/ Spawn(u)
    PROVE  MonitorsSound'
<1>1. PICK m \in Monitors, once \in BOOLEAN :
        \/ monitor' = [monitor EXCEPT ![m] = [NoMonitor EXCEPT !.stage = "start", !.once = once]]
        \/ monitor' = [monitor EXCEPT ![m] = [NoMonitor EXCEPT !.stage = "start", !.daemon = TRUE, !.once = once]]
  <2>1. Spawn(u) => task[u].slot \in Monitors
    BY DEF Spawn, InStage, TasksInShape, TaskShape
  <2>2. QED
    BY <2>1 DEF BeginForeground, Spawn
<1>2. PICK w : WatchSound(w) /\ monitor' = [monitor EXCEPT ![m] = w]
  BY <1>1, StartedSound
<1>3. QED
  BY <1>2, OneWatchChanges DEF BeginForeground, Spawn

LEMMA EndedSound == ASSUME AlertTypes, NEW m \in Monitors PROVE WatchSound(Ended(m))
<1> DEFINE w == Ended(m)
<1>1. monitor[m] \in Watches
  BY DEF AlertTypes
<1>2. w \in Watches
  BY <1>1, NoMonitorTyped DEF Ended, Watches, WatchStages, NoMonitor
<1>3. /\ w.stage = "over" /\ w.pending = <<>> /\ w.told = <<>> /\ w.todo = <<>>
      /\ w.last = NoMonitor.last /\ w.seen = NoMonitor.seen
      /\ w.quotes = NoMonitor.quotes /\ w.mids = NoMonitor.mids
  BY DEF Ended, NoMonitor
<1> HIDE DEF w
<1>4. QED
  BY <1>2, <1>3, NewSound DEF w

LEMMA GoneSound == ASSUME AlertTypes, MonitorsSound, NEW m \in Monitors, Gone(m) PROVE MonitorsSound'
  BY EndedSound, OneWatchChanges DEF Gone

LEMMA LoadSound ==
    ASSUME AlertTypes, IdsDistinct, MonitorsSound, NEW m \in Monitors, LoadConditions(m) PROVE MonitorsSound'
<1> DEFINE p == [i \in DOMAIN alerts.items |-> alerts.items[i].id]
           v == monitor[m]
           w == [v EXCEPT !.stage = "idle", !.pending = p]
<1>1. CASE Become(m, w)
  <2>1. /\ p \in Seq(DOMAIN Conditions) /\ DOMAIN p = DOMAIN alerts.items
        /\ \A i \in DOMAIN p : alerts.items[i] = [id |-> p[i]]
    BY ReadPending
  <2> HIDE DEF p
  <2>2. Distinct(p)
    BY <2>1 DEF IdsDistinct, Distinct
  <2>3. v \in Watches /\ WatchSound(v) /\ v.stage = "start"
    BY DEF AlertTypes, MonitorsSound, LoadConditions
  <2>4. /\ v.told = <<>> /\ v.last = [k \in Markets |-> Null] /\ v.seen = [k \in Markets |-> <<>>]
        /\ v.todo = <<>> /\ v.quotes = [k \in Markets |-> Null] /\ v.mids = [k \in Markets |-> Null]
    BY <2>3 DEF WatchSound, Blank, SeenSound, NoMonitor
  <2>5. /\ w.stage = "idle" /\ w.pending = p /\ w.told = v.told /\ w.last = v.last /\ w.seen = v.seen
        /\ w.todo = v.todo /\ w.quotes = v.quotes /\ w.mids = v.mids
    BY <2>3 DEF Watches
  <2> HIDE DEF w
  <2>6. SeenSound(w)
    BY <2>3, <2>5 DEF WatchSound, SeenSound
  <2>7. ToldSound(w)
    BY <2>4, <2>5, EmptyDistinct DEF ToldSound
  <2>8. ASSUME NEW c \in ToSet(p) PROVE \E s \in Seq(Quotes) : Watched(w, c, s)
    <3>1. c \in DOMAIN Conditions /\ Ticker(c) \in Markets
      BY <2>1, SeqIndices, AlertConstants
    <3>2. ~Quoted(w.quotes, Ticker(c)) /\ w.seen[Ticker(c)] = <<>> /\ w.last[Ticker(c)] = Null
      BY <2>4, <2>5, <3>1 DEF Quoted
    <3>3. LastSeen(<<>>) = Null /\ ~Happened(c, <<>>)
      BY <3>1, NothingHappened DEF LastSeen
    <3>4. Watched(w, c, <<>>)
      BY <3>2, <3>3 DEF Watched
    <3>5. <<>> \in Seq(Quotes)
      BY EmptySeq
    <3>6. QED
      BY <3>4, <3>5
  <2>9. PendingSound(w)
    BY <2>2, <2>4, <2>5, <2>8, EmptyDistinct DEF PendingSound
  <2>10. Blank(w)
    BY <2>5 DEF Blank
  <2>11. QED
    BY <1>1, <2>6, <2>7, <2>9, <2>10, OneWatchChanges DEF Become, WatchSound
<1>2. CASE Gone(m)
  BY <1>2, GoneSound
<1>3. QED
  BY <1>1, <1>2 DEF LoadConditions

LEMMA FetchSound ==
    ASSUME AlertTypes, MonitorsSound, NEW m \in Monitors, FetchMarkets(m) PROVE MonitorsSound'
<1>1. PICK quotes \in [Markets -> Quotes \union {Null}] :
        Become(m, [monitor[m] EXCEPT !.stage = "check", !.todo = monitor[m].pending,
                       !.quotes = quotes, !.mids = NoMonitor.mids, !.passes = @ + 1,
                       !.seen = [k \in Markets |-> IF Quoted(quotes, k) THEN Append(@[k], quotes[k]) ELSE @[k]]])
  BY DEF FetchMarkets
<1> DEFINE v == monitor[m]
           seen == [k \in Markets |-> IF Quoted(quotes, k) THEN Append(v.seen[k], quotes[k]) ELSE v.seen[k]]
           w == [v EXCEPT !.stage = "check", !.todo = v.pending,
                       !.quotes = quotes, !.mids = NoMonitor.mids, !.passes = @ + 1, !.seen = seen]
<1>2. v \in Watches /\ WatchSound(v) /\ v.stage = "idle"
  BY DEF AlertTypes, MonitorsSound, FetchMarkets
<1>3. /\ w.stage = "check" /\ w.pending = v.pending /\ w.told = v.told /\ w.last = v.last /\ w.seen = seen
      /\ w.todo = v.pending /\ w.quotes = quotes /\ w.mids = NoMonitor.mids
  BY <1>2 DEF Watches
<1>4. Become(m, w)
  BY <1>1
<1> HIDE DEF w
<1>5. \A k \in Markets : v.seen[k] \in Seq(Quotes) /\ Midpoints(v.seen[k])
  BY <1>2 DEF Watches, WatchSound, SeenSound
<1>6. v.todo = <<>> /\ v.quotes = [k \in Markets |-> Null]
  BY <1>2 DEF WatchSound, SeenSound, NoMonitor
<1>7. ASSUME NEW k \in Markets, Quoted(quotes, k)
      PROVE  /\ quotes[k] \in Quotes /\ quotes[k].mid # Null
             /\ Midpoints(Append(v.seen[k], quotes[k]))
  <2>1. quotes[k] \in Quotes /\ quotes[k].mid # Null
    BY <1>7 DEF Quoted
  <2>2. DOMAIN v.seen[k] = 1..Len(v.seen[k]) /\ Len(v.seen[k]) \in Nat
    BY <1>5, LenProperties
  <2>3. /\ DOMAIN Append(v.seen[k], quotes[k]) = 1..(Len(v.seen[k]) + 1)
        /\ \A i \in 1..Len(v.seen[k]) : Append(v.seen[k], quotes[k])[i] = v.seen[k][i]
        /\ Append(v.seen[k], quotes[k])[Len(v.seen[k]) + 1] = quotes[k]
    BY <1>5, <2>1, AppendedTo, LenProperties, SMTT(40)
  <2>4. \A i \in 1..(Len(v.seen[k]) + 1) : i \in 1..Len(v.seen[k]) \/ i = Len(v.seen[k]) + 1
    BY <2>2
  <2>5. QED
    BY <1>5, <2>1, <2>2, <2>3, <2>4 DEF Midpoints
<1>8. \A k \in Markets : seen[k] = IF Quoted(quotes, k) THEN Append(v.seen[k], quotes[k]) ELSE v.seen[k]
  OBVIOUS
<1> HIDE DEF seen
<1>9. SeenSound(w)
  <2>1. ASSUME NEW k \in Markets PROVE Midpoints(seen[k]) /\ w.mids[k] = Null
    BY <1>3, <1>5, <1>7, <1>8 DEF NoMonitor
  <2>2. QED
    BY <1>3, <2>1 DEF SeenSound
<1>10. ASSUME NEW c \in DOMAIN Conditions, Happened(c, v.seen[Ticker(c)]) PROVE Happened(c, seen[Ticker(c)])
  <2>1. Ticker(c) \in Markets
    BY AlertConstants
  <2>2. QED
    BY <1>5, <1>7, <1>8, <1>10, <2>1, FiringAddsUp
<1>11. ToldSound(w)
  <2>1. v.told \in Seq(DOMAIN Conditions)
    BY <1>2 DEF Watches
  <2>2. ToSet(v.told) \subseteq DOMAIN Conditions
    BY <2>1, SeqIndices
  <2>3. QED
    BY <1>2, <1>3, <1>10, <2>2 DEF WatchSound, ToldSound
<1>12. ASSUME NEW c \in ToSet(v.pending) PROVE \E s \in Seq(Quotes) : Watched(w, c, s)
  <2>1. v.pending \in Seq(DOMAIN Conditions)
    BY <1>2 DEF Watches
  <2>2. c \in DOMAIN Conditions /\ Ticker(c) \in Markets
    BY <2>1, SeqIndices, AlertConstants
  <2>3. PICK s \in Seq(Quotes) : Watched(v, c, s)
    BY <1>2 DEF WatchSound, PendingSound
  <2>4. ~Quoted(v.quotes, Ticker(c)) /\ c \notin ToSet(v.todo)
    BY <1>6, <2>2, EmptyDistinct DEF Quoted
  <2>5. /\ v.seen[Ticker(c)] = s /\ v.last[Ticker(c)] = LastSeen(s)
        /\ c \notin expired => ~Happened(c, s)
    BY <2>3, <2>4 DEF Watched
  <2>6. Watched(w, c, s)
    BY <1>3, <1>8, <2>2, <2>5 DEF Watched
  <2>7. QED
    BY <2>6
<1>13. PendingSound(w)
  BY <1>2, <1>3, <1>12 DEF WatchSound, PendingSound
<1>14. Blank(w)
  BY <1>3 DEF Blank
<1>15. QED
  BY <1>4, <1>9, <1>11, <1>13, <1>14, OneWatchChanges DEF Become, WatchSound

(* The condition at hand, and the others.                                  *)
LEMMA AtHand ==
    ASSUME AlertTypes, MonitorsSound, NEW m \in Monitors, NEW c \in DOMAIN Conditions, NextCondition(m, c)
    PROVE  LET v == monitor[m] IN
           /\ v \in Watches /\ v.stage = "check" /\ WatchSound(v) /\ Ticker(c) \in Markets
           /\ Tail(v.todo) \in Seq(DOMAIN Conditions) /\ Distinct(Tail(v.todo))
           /\ ToSet(Tail(v.todo)) = ToSet(v.todo) \ {c}
           /\ c \in ToSet(v.todo) /\ c \in ToSet(v.pending) /\ c \notin ToSet(v.told)
           /\ ToSet(Without(v.pending, c)) = ToSet(v.pending) \ {c} /\ Distinct(Without(v.pending, c))
<1> DEFINE v == monitor[m]
<1>1. /\ v \in Watches /\ v.todo # <<>> /\ c = Head(v.todo) /\ v.stage = "check" /\ Ticker(c) \in Markets
  BY NextTyped
<1>2. WatchSound(v)
  BY DEF MonitorsSound
<1>3. v.todo \in Seq(DOMAIN Conditions) /\ v.pending \in Seq(DOMAIN Conditions)
  BY <1>1 DEF Watches
<1>4. Distinct(v.todo) /\ Distinct(v.pending) /\ ToSet(v.todo) \subseteq ToSet(v.pending)
  BY <1>2 DEF WatchSound, PendingSound
<1>5. /\ Tail(v.todo) \in Seq(DOMAIN Conditions) /\ ToSet(v.todo) = {c} \union ToSet(Tail(v.todo))
      /\ c \notin ToSet(Tail(v.todo)) /\ Distinct(Tail(v.todo))
  BY <1>1, <1>3, <1>4, TailOf
<1>6. ToSet(Without(v.pending, c)) = ToSet(v.pending) \ {c} /\ Distinct(Without(v.pending, c))
  BY <1>3, <1>4, WithoutOne
<1>7. c \in ToSet(v.pending) /\ c \notin ToSet(v.told)
  BY <1>2, <1>4, <1>5 DEF WatchSound, ToldSound
<1>8. QED
  BY <1>1, <1>2, <1>5, <1>6, <1>7

(* Taking one condition from what is left of a pass: the others are seen   *)
(* as before.                                                              *)
LEMMA OthersWatched ==
    ASSUME NEW v \in Watches, NEW w \in Watches, PendingSound(v), SeenSound(v),
           w.seen = v.seen, w.last = v.last, w.quotes = v.quotes,
           NEW c, ToSet(w.todo) = ToSet(v.todo) \ {c},
           \A k \in Markets : w.mids[k] = v.mids[k] \/ (Quoted(v.quotes, k) /\ w.mids[k] = v.quotes[k].mid),
           NEW d \in ToSet(v.pending), d # c, d \in DOMAIN Conditions
    PROVE  \E s \in Seq(Quotes) : Watched(w, d, s)
<1>1. PICK s \in Seq(Quotes) : Watched(v, d, s)
  BY DEF PendingSound
<1>2. Ticker(d) \in Markets
  BY AlertConstants
<1>3. d \in ToSet(w.todo) <=> d \in ToSet(v.todo)
  OBVIOUS
<1>4. Watched(w, d, s)
  BY <1>1, <1>2, <1>3 DEF Watched
<1>5. QED
  BY <1>4

LEMMA MidsSound ==
    ASSUME NEW v \in Watches, NEW w \in Watches, SeenSound(v), v.stage = "check", w.stage = "check",
           w.seen = v.seen, w.quotes = v.quotes,
           \A k \in Markets : w.mids[k] = v.mids[k] \/ (Quoted(v.quotes, k) /\ w.mids[k] = v.quotes[k].mid)
    PROVE  SeenSound(w)
  BY DEF SeenSound

LEMMA PendingAreConditions ==
    ASSUME NEW v \in Watches PROVE ToSet(v.pending) \subseteq DOMAIN Conditions
<1>1. v.pending \in Seq(DOMAIN Conditions)
  BY DEF Watches
<1>2. QED
  BY <1>1, SeqIndices

LEMMA SkipSound ==
    ASSUME AlertTypes, MonitorsSound, NEW m \in Monitors, SkipCondition(m) PROVE MonitorsSound'
<1>1. PICK c \in DOMAIN Conditions :
        /\ NextCondition(m, c)
        /\ IF c \in expired
           THEN Become(m, [monitor[m] EXCEPT !.todo = Tail(@), !.pending = Without(@, c)])
           ELSE IF ~Reached(m, c) THEN Become(m, [monitor[m] EXCEPT !.todo = Tail(@)])
           ELSE /\ ~Shows(m, c)
                /\ Become(m, [monitor[m] EXCEPT !.todo = Tail(@), !.mids = Noted(m, c)])
  BY DEF SkipCondition
<1> DEFINE v == monitor[m]
           k == Ticker(c)
<1>2. /\ v \in Watches /\ v.stage = "check" /\ WatchSound(v) /\ k \in Markets
      /\ Tail(v.todo) \in Seq(DOMAIN Conditions) /\ Distinct(Tail(v.todo))
      /\ ToSet(Tail(v.todo)) = ToSet(v.todo) \ {c}
      /\ c \in ToSet(v.todo) /\ c \in ToSet(v.pending)
      /\ ToSet(Without(v.pending, c)) = ToSet(v.pending) \ {c} /\ Distinct(Without(v.pending, c))
  BY <1>1, AtHand
<1>3. /\ Without(v.pending, c) \in Seq(DOMAIN Conditions)
      /\ Reached(m, c) => /\ Noted(m, c) \in [Markets -> Int \union {Null}]
                          /\ \A l \in Markets : Noted(m, c)[l] = IF l = k THEN v.quotes[l].mid ELSE v.mids[l]
  BY <1>1, NextTyped
<1>4. SeenSound(v) /\ ToldSound(v) /\ PendingSound(v) /\ ToSet(v.pending) \subseteq DOMAIN Conditions
  BY <1>2, PendingAreConditions DEF WatchSound
<1>5. ASSUME NEW w \in Watches, Become(m, w), w.stage = "check", w.seen = v.seen, w.last = v.last,
             w.quotes = v.quotes, w.told = v.told, w.todo = Tail(v.todo),
             \A l \in Markets : w.mids[l] = v.mids[l] \/ (Quoted(v.quotes, l) /\ w.mids[l] = v.quotes[l].mid),
             \/ w.pending = Without(v.pending, c)
             \/ w.pending = v.pending /\ \E s \in Seq(Quotes) : Watched(w, c, s)
      PROVE  MonitorsSound'
  <2>1. SeenSound(w)
    BY <1>2, <1>4, <1>5, MidsSound
  <2>2. ToSet(w.pending) \subseteq ToSet(v.pending) /\ Distinct(w.pending)
        /\ ToSet(w.todo) \subseteq ToSet(w.pending)
    BY <1>2, <1>4, <1>5 DEF PendingSound
  <2>3. ToldSound(w)
    BY <1>4, <1>5, <2>2 DEF ToldSound
  <2>4. ASSUME NEW d \in ToSet(w.pending), d # c PROVE \E s \in Seq(Quotes) : Watched(w, d, s)
    <3>1. d \in ToSet(v.pending) /\ d \in DOMAIN Conditions
      BY <1>4, <2>2
    <3>2. ToSet(w.todo) = ToSet(v.todo) \ {c}
      BY <1>2, <1>5
    <3> HIDE DEF v
    <3>3. QED
      BY <1>2, <1>4, <1>5, <2>4, <3>1, <3>2, OthersWatched
  <2>5. c \in ToSet(w.pending) => \E s \in Seq(Quotes) : Watched(w, c, s)
    BY <1>2, <1>5
  <2>6. PendingSound(w)
    BY <1>2, <1>5, <2>2, <2>4, <2>5 DEF PendingSound
  <2>7. Blank(w)
    BY <1>5 DEF Blank
  <2>8. QED
    BY <1>5, <2>1, <2>3, <2>6, <2>7, OneWatchChanges DEF Become, WatchSound
<1>6. PICK s \in Seq(Quotes) : Watched(v, c, s)
  BY <1>2, <1>4 DEF PendingSound
<1>7. c \notin expired => ~Happened(c, s)
  BY <1>2, <1>6 DEF Watched
<1>8. CASE c \in expired
  <2> DEFINE w == [v EXCEPT !.todo = Tail(@), !.pending = Without(@, c)]
  <2>1. w \in Watches
    BY <1>2, <1>3 DEF Watches
  <2>2. /\ w.stage = "check" /\ w.seen = v.seen /\ w.last = v.last /\ w.quotes = v.quotes /\ w.told = v.told
        /\ w.todo = Tail(v.todo) /\ w.mids = v.mids /\ w.pending = Without(v.pending, c)
    BY <1>2 DEF Watches
  <2>3. Become(m, w)
    BY <1>1, <1>8
  <2> HIDE DEF w
  <2>4. QED
    BY <1>5, <2>1, <2>2, <2>3
<1>9. CASE c \notin expired /\ ~Reached(m, c)
  <2> DEFINE w == [v EXCEPT !.todo = Tail(@)]
  <2>1. w \in Watches
    BY <1>2 DEF Watches
  <2>2. /\ w.stage = "check" /\ w.seen = v.seen /\ w.last = v.last /\ w.quotes = v.quotes /\ w.told = v.told
        /\ w.todo = Tail(v.todo) /\ w.mids = v.mids /\ w.pending = v.pending
    BY <1>2 DEF Watches
  <2>3. Become(m, w)
    BY <1>1, <1>9
  <2> HIDE DEF w
  <2>4. Watched(w, c, s)
    BY <1>2, <1>6, <1>7, <1>9, <2>2 DEF Watched, Reached
  <2>5. QED
    BY <1>5, <2>1, <2>2, <2>3, <2>4
<1>10. CASE c \notin expired /\ Reached(m, c)
  <2> DEFINE w == [v EXCEPT !.todo = Tail(@), !.mids = Noted(m, c)]
  <2>1. w \in Watches
    BY <1>2, <1>3, <1>10 DEF Watches
  <2>2. /\ w.stage = "check" /\ w.seen = v.seen /\ w.last = v.last /\ w.quotes = v.quotes /\ w.told = v.told
        /\ w.todo = Tail(v.todo) /\ w.mids = Noted(m, c) /\ w.pending = v.pending
    BY <1>2 DEF Watches
  <2>3. Become(m, w) /\ ~Shows(m, c)
    BY <1>1, <1>10
  <2> HIDE DEF w
  <2>4. /\ Quoted(v.quotes, k) /\ v.quotes[k] \in Quotes /\ v.quotes[k].mid # Null
    BY <1>1, <1>10, NextTyped DEF Reached
  <2>5. v.seen[k] = Append(s, v.quotes[k]) /\ v.last[k] = LastSeen(s)
    BY <1>6, <2>4 DEF Watched
  <2>6. Midpoints(s)
    <3>1. Midpoints(v.seen[k])
      BY <1>2, <1>4 DEF SeenSound
    <3>2. /\ DOMAIN s = 1..Len(s) /\ Len(s) \in Nat /\ DOMAIN v.seen[k] = 1..(Len(s) + 1)
          /\ \A i \in 1..Len(s) : v.seen[k][i] = s[i]
      BY <2>4, <2>5, AppendedTo, LenProperties
    <3>3. \A i \in 1..Len(s) : i \in 1..(Len(s) + 1)
      BY <3>2
    <3>4. QED
      BY <3>1, <3>2, <3>3 DEF Midpoints
  <2>7. ~Fires(c, v.quotes[k], LastSeen(s))
    BY <2>3, <2>5 DEF Shows
  <2>8. ~Happened(c, v.seen[k])
    BY <1>7, <1>10, <2>4, <2>5, <2>6, <2>7, FiringAddsUp
  <2>9. w.mids[k] = v.quotes[k].mid
    BY <1>2, <1>3, <1>10, <2>2
  <2>10. Watched(w, c, s)
    BY <1>2, <1>6, <2>2, <2>8, <2>9 DEF Watched
  <2>11. \A l \in Markets : w.mids[l] = v.mids[l] \/ (Quoted(v.quotes, l) /\ w.mids[l] = v.quotes[l].mid)
    BY <1>3, <1>10, <2>2, <2>4
  <2>12. QED
    BY <1>5, <2>1, <2>2, <2>3, <2>10, <2>11
<1>11. QED
  BY <1>8, <1>9, <1>10

LEMMA NotifySound ==
    ASSUME AlertTypes, MonitorsSound, NEW m \in Monitors, Notify(m) PROVE MonitorsSound'
<1>1. PICK c \in DOMAIN Conditions :
        /\ NextCondition(m, c) /\ Reached(m, c) /\ Shows(m, c)
        /\ Become(m, [monitor[m] EXCEPT !.todo = Tail(@), !.pending = Without(@, c),
                           !.mids = Noted(m, c), !.told = Append(@, c)])
  BY DEF Notify
<1> DEFINE v == monitor[m]
           k == Ticker(c)
           w == [v EXCEPT !.todo = Tail(@), !.pending = Without(@, c), !.mids = Noted(m, c), !.told = Append(@, c)]
<1>2. /\ v \in Watches /\ v.stage = "check" /\ WatchSound(v) /\ k \in Markets
      /\ Tail(v.todo) \in Seq(DOMAIN Conditions) /\ Distinct(Tail(v.todo))
      /\ ToSet(Tail(v.todo)) = ToSet(v.todo) \ {c}
      /\ c \in ToSet(v.todo) /\ c \in ToSet(v.pending) /\ c \notin ToSet(v.told)
      /\ ToSet(Without(v.pending, c)) = ToSet(v.pending) \ {c} /\ Distinct(Without(v.pending, c))
  BY <1>1, AtHand
<1>3. /\ Without(v.pending, c) \in Seq(DOMAIN Conditions) /\ Append(v.told, c) \in Seq(DOMAIN Conditions)
      /\ v.quotes[k] \in Quotes /\ v.quotes[k].mid # Null /\ Quoted(v.quotes, k)
      /\ Noted(m, c) \in [Markets -> Int \union {Null}]
      /\ \A l \in Markets : Noted(m, c)[l] = IF l = k THEN v.quotes[l].mid ELSE v.mids[l]
  BY <1>1, NextTyped DEF Reached
<1>4. SeenSound(v) /\ ToldSound(v) /\ PendingSound(v) /\ ToSet(v.pending) \subseteq DOMAIN Conditions
  BY <1>2, PendingAreConditions DEF WatchSound
<1>5. w \in Watches
  BY <1>2, <1>3 DEF Watches
<1>6. /\ w.stage = "check" /\ w.seen = v.seen /\ w.last = v.last /\ w.quotes = v.quotes
      /\ w.told = Append(v.told, c) /\ w.todo = Tail(v.todo) /\ w.mids = Noted(m, c)
      /\ w.pending = Without(v.pending, c)
  BY <1>2 DEF Watches
<1>7. Become(m, w)
  BY <1>1
<1> HIDE DEF w
<1>8. \A l \in Markets : w.mids[l] = v.mids[l] \/ (Quoted(v.quotes, l) /\ w.mids[l] = v.quotes[l].mid)
  BY <1>3, <1>6
<1>9. SeenSound(w)
  BY <1>2, <1>4, <1>5, <1>6, <1>8, MidsSound
<1>10. Happened(c, v.seen[k])
  <2>1. PICK s \in Seq(Quotes) : Watched(v, c, s)
    BY <1>2, <1>4 DEF PendingSound
  <2>2. v.seen[k] = Append(s, v.quotes[k]) /\ v.last[k] = LastSeen(s)
    BY <1>3, <2>1 DEF Watched
  <2>3. Midpoints(s)
    <3>1. Midpoints(v.seen[k])
      BY <1>2, <1>4 DEF SeenSound
    <3>2. /\ DOMAIN s = 1..Len(s) /\ Len(s) \in Nat /\ DOMAIN v.seen[k] = 1..(Len(s) + 1)
          /\ \A i \in 1..Len(s) : v.seen[k][i] = s[i]
      BY <1>3, <2>2, AppendedTo, LenProperties
    <3>3. \A i \in 1..Len(s) : i \in 1..(Len(s) + 1)
      BY <3>2
    <3>4. QED
      BY <3>1, <3>2, <3>3 DEF Midpoints
  <2>4. Fires(c, v.quotes[k], LastSeen(s))
    BY <1>1, <2>2 DEF Shows
  <2>5. QED
    BY <1>3, <2>2, <2>3, <2>4, FiringAddsUp
<1>11. ToldSound(w)
  <2>1. v.told \in Seq(DOMAIN Conditions) /\ Distinct(v.told)
    BY <1>2, <1>4 DEF Watches, ToldSound
  <2>2. ToSet(w.told) = ToSet(v.told) \union {c} /\ Distinct(w.told)
    BY <1>2, <1>6, <2>1, AppendedTo
  <2>3. QED
    BY <1>2, <1>4, <1>6, <1>10, <2>2 DEF ToldSound
<1>12. ASSUME NEW d \in ToSet(w.pending) PROVE \E s \in Seq(Quotes) : Watched(w, d, s)
  <2>1. d \in ToSet(v.pending) /\ d # c /\ d \in DOMAIN Conditions
    BY <1>2, <1>4, <1>6
  <2>2. ToSet(w.todo) = ToSet(v.todo) \ {c}
    BY <1>2, <1>6
  <2> HIDE DEF v
  <2>3. QED
    BY <1>2, <1>4, <1>5, <1>6, <1>8, <2>1, <2>2, OthersWatched
<1>13. PendingSound(w)
  BY <1>2, <1>4, <1>6, <1>12 DEF PendingSound
<1>14. Blank(w)
  BY <1>6 DEF Blank
<1>15. QED
  BY <1>7, <1>9, <1>11, <1>13, <1>14, OneWatchChanges DEF Become, WatchSound

LEMMA LastOfAppend ==
    ASSUME NEW s \in Seq(Quotes), NEW q \in Quotes PROVE LastSeen(Append(s, q)) = q.mid
<1>1. /\ Append(s, q) \in Seq(Quotes) /\ Len(Append(s, q)) = Len(s) + 1 /\ Append(s, q)[Len(s) + 1] = q
  BY AppendedTo
<1>2. Len(s) \in Nat /\ Append(s, q) # <<>>
  BY <1>1, LenProperties, EmptySeq
<1>3. QED
  BY <1>1, <1>2 DEF LastSeen

LEMMA EndPassSound ==
    ASSUME AlertTypes, MonitorsSound, NEW m \in Monitors, EndPass(m) PROVE MonitorsSound'
<1> DEFINE v == monitor[m]
           w == [v EXCEPT !.stage = "idle", !.last = LastKnown(@, v.mids),
                     !.quotes = NoMonitor.quotes, !.mids = NoMonitor.mids]
<1>1. /\ v \in Watches /\ WatchSound(v) /\ v.stage = "check" /\ v.todo = <<>>
      /\ monitor' = [monitor EXCEPT ![m] = IF v.once THEN Ended(m) ELSE w] /\ expired' = expired
  BY DEF AlertTypes, MonitorsSound, EndPass
<1>2. SeenSound(v) /\ ToldSound(v) /\ PendingSound(v) /\ ToSet(v.pending) \subseteq DOMAIN Conditions
  BY <1>1, PendingAreConditions DEF WatchSound
<1>3. /\ w.stage = "idle" /\ w.seen = v.seen /\ w.last = LastKnown(v.last, v.mids) /\ w.told = v.told
      /\ w.quotes = [l \in Markets |-> Null] /\ w.mids = [l \in Markets |-> Null]
      /\ w.todo = v.todo /\ w.pending = v.pending
      /\ w.quotes = NoMonitor.quotes /\ w.mids = NoMonitor.mids
  BY <1>1 DEF Watches, NoMonitor
<1>4. v.quotes \in [Markets -> Quotes \union {Null}]
  BY <1>1 DEF Watches
<1> HIDE DEF w
<1>5. SeenSound(w)
  BY <1>1, <1>2, <1>3 DEF SeenSound
<1>6. ToldSound(w)
  BY <1>2, <1>3 DEF ToldSound
<1>7. ASSUME NEW c \in ToSet(v.pending) PROVE \E s \in Seq(Quotes) : Watched(w, c, s)
  <2> DEFINE k == Ticker(c)
  <2>1. k \in Markets /\ c \notin ToSet(v.todo) /\ c \notin ToSet(w.todo)
    BY <1>1, <1>2, <1>3, AlertConstants, EmptyDistinct
  <2>2. PICK s \in Seq(Quotes) : Watched(v, c, s)
    BY <1>2 DEF PendingSound
  <2>3. v.seen[k] \in Seq(Quotes)
    BY <1>1, <2>1 DEF Watches
  <2>4. c \notin expired => ~Happened(c, v.seen[k])
    BY <2>1, <2>2 DEF Watched
  <2>5. w.last[k] = IF v.mids[k] # Null THEN v.mids[k] ELSE v.last[k]
    BY <1>3, <2>1 DEF LastKnown
  <2>6. w.last[k] = LastSeen(v.seen[k])
    <3>1. CASE Quoted(v.quotes, k)
      <4>1. v.quotes[k] \in Quotes /\ v.quotes[k].mid # Null
        BY <1>4, <2>1, <3>1 DEF Quoted
      <4>2. v.mids[k] = v.quotes[k].mid /\ v.seen[k] = Append(s, v.quotes[k])
        BY <2>1, <2>2, <3>1 DEF Watched
      <4>3. LastSeen(v.seen[k]) = v.quotes[k].mid
        BY <4>1, <4>2, LastOfAppend
      <4>4. QED
        BY <2>5, <4>1, <4>2, <4>3
    <3>2. CASE ~Quoted(v.quotes, k)
      <4>1. v.mids[k] = Null /\ v.seen[k] = s /\ v.last[k] = LastSeen(s)
        BY <1>2, <2>1, <2>2, <3>2 DEF Watched, SeenSound
      <4>2. QED
        BY <2>5, <4>1
    <3>3. QED
      BY <3>1, <3>2
  <2>7. ~Quoted(w.quotes, k)
    BY <1>3, <2>1 DEF Quoted
  <2>8. Watched(w, c, v.seen[k])
    BY <1>3, <2>1, <2>4, <2>6, <2>7 DEF Watched
  <2>9. QED
    BY <2>3, <2>8
<1>8. PendingSound(w)
  BY <1>2, <1>3, <1>7 DEF PendingSound
<1>9. Blank(w)
  BY <1>3 DEF Blank
<1>10. WatchSound(w) /\ WatchSound(Ended(m))
  BY <1>5, <1>6, <1>8, <1>9, EndedSound DEF WatchSound
<1>11. PICK x : WatchSound(x) /\ monitor' = [monitor EXCEPT ![m] = x]
  BY <1>1, <1>10
<1>12. QED
  BY <1>1, <1>11, OneWatchChanges

-----------------------------------------------------------------------------
LEMMA MonitorsSame == ASSUME MonitorsSound, UNCHANGED <<monitor, expired>> PROVE MonitorsSound'
  BY MoreExpire

LEMMA MonitorsInit == ASSUME AlertInit PROVE MonitorsSound
<1>1. NoMonitor.stage = "off" /\ NoMonitor.pending = <<>> /\ NoMonitor.told = <<>> /\ NoMonitor.todo = <<>>
  BY DEF NoMonitor
<1>2. WatchSound(NoMonitor)
  BY <1>1, NoMonitorTyped, NewSound
<1>3. QED
  BY <1>2 DEF AlertInit, MonitorsSound

LEMMA MonitorsNext ==
    ASSUME AlertTypes, TasksInShape, IdsDistinct, MonitorsSound, AlertNext PROVE MonitorsSound'
<1>1. ASSUME NEW u \in Users,
             \/ BeginAdd(u) \/ BeginRemove(u) \/ LoadAlerts(u) \/ WriteAlerts(u) \/ ReplaceAlerts(u)
             \/ BeginDaemon(u) \/ LookForAlerts(u) \/ TakeLogLock(u) \/ LogLocked(u) \/ CloseLog(u)
             \/ BeginTrim(u) \/ TrimRead(u) \/ TrimCut(u) \/ TrimWrite(u) \/ AbortTask(u)
      PROVE  UNCHANGED <<monitor, expired>>
  BY <1>1 DEF BeginAdd, BeginRemove, LoadAlerts, WriteAlerts, ReplaceAlerts, BeginDaemon, LookForAlerts,
     TakeLogLock, LogLocked, CloseLog, BeginTrim, TrimRead, TrimCut, TrimWrite, AbortTask, Ask, Turn
<1>2. ASSUME NEW c \in DOMAIN Conditions, Expire(c) PROVE MonitorsSound'
  BY <1>2, MoreExpire DEF Expire
<1>3. ASSUME NEW m \in Monitors, Kill(m) PROVE MonitorsSound'
  BY <1>3, GoneSound DEF Kill
<1>4. QED
  BY <1>1, <1>2, <1>3, MonitorsSame, StartSound, LoadSound, FetchSound, SkipSound, NotifySound, EndPassSound
     DEF AlertNext

LEMMA DistinctCount ==
    ASSUME NEW S, NEW s \in Seq(S), Distinct(s) PROVE Len(s) = Cardinality(ToSet(s))
<1>1. DOMAIN s = 1..Len(s) /\ Len(s) \in Nat /\ ToSet(s) = {s[i] : i \in 1..Len(s)}
  BY SeqIndices
<1>2. s \in [1..Len(s) -> ToSet(s)]
  BY <1>1, LenProperties
<1>3. s \in Bijection(1..Len(s), ToSet(s))
  BY <1>1, <1>2 DEF Bijection, Injection, Surjection, IsInjective, Distinct
<1>4. IsFiniteSet(1..Len(s)) /\ Cardinality(1..Len(s)) = Len(s)
  BY <1>1, FS_Interval
<1>5. ExistsBijection(1..Len(s), ToSet(s))
  BY <1>3 DEF ExistsBijection
<1>6. QED
  BY <1>4, <1>5, FS_Bijection

LEMMA MonitorsTell == ASSUME AlertTypes, MonitorsSound PROVE MonitorTellsAll
<1>1. ASSUME NEW m \in Monitors
      PROVE  LET told == ToSet(monitor[m].told) IN
             /\ Len(monitor[m].told) = Cardinality(told)
             /\ \A c \in told : Happened(c, monitor[m].seen[Ticker(c)])
             /\ monitor[m].stage = "idle" =>
                  \A c \in ToSet(monitor[m].pending) :
                      c \notin expired => ~Happened(c, monitor[m].seen[Ticker(c)])
  <2> DEFINE v == monitor[m]
  <2>1. v \in Watches /\ WatchSound(v) /\ v.told \in Seq(DOMAIN Conditions)
    BY DEF AlertTypes, MonitorsSound, Watches
  <2>2. Distinct(v.told) /\ \A c \in ToSet(v.told) : Happened(c, v.seen[Ticker(c)])
    BY <2>1 DEF WatchSound, ToldSound
  <2>3. Len(v.told) = Cardinality(ToSet(v.told))
    BY <2>1, <2>2, DistinctCount
  <2>4. ASSUME v.stage = "idle", NEW c \in ToSet(v.pending), c \notin expired
        PROVE  ~Happened(c, v.seen[Ticker(c)])
    <3>1. v.todo = <<>>
      BY <2>1, <2>4 DEF WatchSound, SeenSound
    <3>2. c \notin ToSet(v.todo)
      BY <3>1, EmptyDistinct
    <3>3. QED
      BY <2>1, <2>4, <3>2 DEF WatchSound, PendingSound, Watched
  <2>5. QED
    BY <2>2, <2>3, <2>4
<1>2. QED
  BY <1>1 DEF MonitorTellsAll

(* Between two passes a monitor has told exactly what came true of all it  *)
(* saw, each condition once: judging each pass against the last price      *)
(* known, as AlertMonitor.check_conditions does, misses nothing.           *)
THEOREM EveryAlertIsTold == AlertSpec => []MonitorTellsAll
<1> DEFINE Inv == AlertTypes /\ TasksInShape /\ IdsDistinct /\ MonitorsSound
<1>1. AlertInit => Inv
  BY AlertTypesInit, IdsInit, MonitorsInit
<1>2. Inv /\ [AlertNext]_alertDesk => Inv'
  <2>1. ASSUME Inv, AlertNext PROVE Inv'
    BY <2>1, AlertTypesNext, IdsNext, MonitorsNext
  <2>2. ASSUME Inv, UNCHANGED alertDesk PROVE Inv'
    BY <2>2, AlertTypesStutter, IdsSame, MonitorsSame DEF alertDesk
  <2>3. QED
    BY <2>1, <2>2
<1>3. Inv => MonitorTellsAll
  BY MonitorsTell
<1>4. QED
  BY <1>1, <1>2, <1>3, PTL DEF AlertSpec

-----------------------------------------------------------------------------
(* Research: what a command is made of.                                    *)

Calls == [op : {"search", "answer"}, what : Topics, cached : BOOLEAN]
DeskCommands == {"none", "context", "topic", "create", "suggest", "similar", "invalidation",
                 "clear", "clear-expired", "edit", "resolve"}
CallStages == {"read", "evict", "ask", "open", "close"}
FileStages == {"load", "temp", "replace"}
DeskStages == {"off", "find", "judge", "unlink"} \union CallStages \union FileStages
DeskEnds == {"ok", "running", "unreadable", "not found", "failed", "aborted"}
Hits == [asked : Keys, entry : Entry, used : Days] \union {Null}
Targets == Typed \union {{}}

Desks == [cmd : DeskCommands, mode : Modes, day : Days, limit : Nat, plan : Seq(Calls),
          stage : DeskStages, spent : Nat, charge : Nat, fd : {"none", "attached", "detached"},
          since : Days, made : Nat, hit : Hits, target : Targets, copy : Seq(Thesis),
          left : SUBSET Keys, overlap : BOOLEAN, end : DeskEnds]

(* No more is spent than a call that fitted the budget may have cost.      *)
WithinBudget(c) ==
    \/ c.spent <= c.limit
    \/ \E charge \in Charges, op \in {"search", "answer"} :
           c.spent <= c.limit + charge - Estimate[c.mode][op]

(* What was found in the cache answered the question and had not expired.  *)
HitSound(c) ==
    c.hit # Null =>
        /\ c.hit.entry.head.key = c.hit.asked
        /\ c.hit.entry.tail.at + Ttl >= c.hit.used

DeskShape(c) ==
    /\ c.stage \in CallStages => c.plan # <<>>
    /\ c.stage \in {"open", "close"} => c.charge \in Charges /\ Affordable(c)
    /\ c.fd # "none" => c.stage = "close"
    /\ c.cmd = "create" => c.made \in Ids
    /\ c.stage \in {"judge", "unlink"} => c.left # {}
    /\ WithinBudget(c)
    /\ HitSound(c)

Sound(c) == c \in Desks /\ DeskShape(c)

LEMMA DeskConstants ==
    /\ "fast" \in Modes /\ Limits \subseteq Nat \ {0} /\ Charges \subseteq Nat
    /\ \A mode \in Modes, op \in {"search", "answer"} : Estimate[mode][op] \in Nat
    /\ Ttl \in Nat /\ MaxTime \in Nat /\ MaxCommands \in Nat /\ 0 \in Days /\ Days \subseteq Nat
    /\ StartTheses \in Seq(Thesis) /\ Len(StartTheses) \in Nat
<1>1. StartTheses \in Seq(Thesis) /\ Len(StartTheses) \in Nat
  BY StartAssumption, LenProperties DEF StartAssumption
<1>2. QED
  BY <1>1, DeskAssumption DEF DeskAssumption, Days

LEMMA OffSound == Sound(Off)
<1>1. <<>> \in Seq(Calls) /\ <<>> \in Seq(Thesis) /\ Null \in Hits /\ {} \in Targets
  BY EmptySeq DEF Hits, Targets
<1>2. Off \in Desks
  BY <1>1, DeskConstants DEF Off, Desks, DeskCommands, DeskStages, DeskEnds
<1>3. WithinBudget(Off) /\ HitSound(Off)
  BY DEF Off, WithinBudget, HitSound
<1>4. DeskShape(Off)
  BY <1>3 DEF Off, DeskShape, CallStages, FileStages
<1>5. QED
  BY <1>2, <1>4 DEF Sound

(* No file is open, and theses.json is not held in memory.                 *)
Aside(c) == Sound(c) /\ c.fd = "none" /\ c.stage \notin {"temp", "replace"}

(* A command that is over keeps what it spent.                             *)
LEMMA OverSound ==
    ASSUME NEW c \in Desks, WithinBudget(c), NEW how \in DeskEnds
    PROVE  Aside(Over(c, how)) /\ Over(c, how).end = how
<1> DEFINE d == Over(c, how)
<1>1. Off \in Desks
  BY OffSound DEF Sound
<1>2. d \in Desks
  BY <1>1 DEF Over, Desks
<1>3. /\ d.mode = c.mode /\ d.limit = c.limit /\ d.spent = c.spent
      /\ d.stage = "off" /\ d.fd = "none" /\ d.cmd = "none" /\ d.hit = Null /\ d.end = how
  BY DEF Over, Off
<1> HIDE DEF d
<1>4. WithinBudget(d) /\ HitSound(d)
  BY <1>3 DEF WithinBudget, HitSound
<1>5. DeskShape(d)
  BY <1>3, <1>4 DEF DeskShape, CallStages, FileStages
<1>6. QED
  BY <1>2, <1>3, <1>5 DEF Sound, Aside, d

(* Going on to the calls that are left.                                    *)
LEMMA ProceedSound ==
    ASSUME NEW c \in Desks, NEW plan \in Seq(Calls), c.fd = "none",
           c.cmd = "create" => c.made \in Ids, WithinBudget(c), HitSound(c)
    PROVE  Aside(Proceed(c, plan))
<1>1. CASE plan # <<>>
  <2> DEFINE stage == IF Head(plan).cached THEN "read" ELSE "ask"
             d == [c EXCEPT !.plan = plan, !.since = 0, !.hit = Null, !.stage = stage]
  <2>1. stage \in {"read", "ask"} /\ Null \in Hits
    BY DEF Hits
  <2>2. Proceed(c, plan) = d
    BY <1>1 DEF Proceed
  <2> HIDE DEF stage
  <2>3. d \in Desks
    BY <2>1, DeskConstants DEF Desks, DeskStages, CallStages
  <2>4. /\ d.plan = plan /\ d.hit = Null /\ d.stage = stage /\ d.fd = c.fd /\ d.cmd = c.cmd
        /\ d.made = c.made /\ d.mode = c.mode /\ d.limit = c.limit /\ d.spent = c.spent
    BY DEF Desks
  <2> HIDE DEF d
  <2>5. WithinBudget(d) /\ HitSound(d)
    BY <2>4 DEF WithinBudget, HitSound
  <2>6. DeskShape(d)
    BY <1>1, <2>1, <2>4, <2>5 DEF DeskShape, FileStages
  <2>7. QED
    BY <2>1, <2>2, <2>3, <2>4, <2>6 DEF Sound, Aside
<1>2. CASE plan = <<>> /\ c.cmd = "create"
  <2> DEFINE d == [c EXCEPT !.plan = <<>>, !.stage = "load"]
  <2>1. Proceed(c, plan) = d
    BY <1>2 DEF Proceed
  <2>2. d \in Desks
    BY EmptySeq DEF Desks, DeskStages, FileStages
  <2>3. /\ d.hit = c.hit /\ d.stage = "load" /\ d.fd = c.fd /\ d.cmd = c.cmd
        /\ d.made = c.made /\ d.mode = c.mode /\ d.limit = c.limit /\ d.spent = c.spent
    BY DEF Desks
  <2> HIDE DEF d
  <2>4. WithinBudget(d) /\ HitSound(d)
    BY <2>3 DEF WithinBudget, HitSound
  <2>5. DeskShape(d)
    BY <1>2, <2>3, <2>4 DEF DeskShape, CallStages
  <2>6. QED
    BY <2>1, <2>2, <2>3, <2>5 DEF Sound, Aside
<1>3. CASE plan = <<>> /\ c.cmd # "create"
  <2>1. Proceed(c, plan) = Over(c, "ok")
    BY <1>3 DEF Proceed
  <2>2. QED
    BY <2>1, OverSound DEF DeskEnds
<1>4. QED
  BY <1>1, <1>2, <1>3

(* A command as it starts.                                                 *)
LEMMA BegunSound ==
    ASSUME NEW cmd \in DeskCommands, NEW mode \in Modes, NEW limit \in Nat, now \in Days
    PROVE  LET c == Begun(cmd, mode, limit) IN
           /\ c \in Desks /\ WithinBudget(c) /\ HitSound(c)
           /\ c.cmd = cmd /\ c.fd = "none" /\ c.hit = Null /\ c.plan = <<>> /\ c.mode = mode
           /\ c.spent = 0 /\ c.limit = limit
<1> DEFINE c == Begun(cmd, mode, limit)
<1>1. Off \in Desks
  BY OffSound DEF Sound
<1>2. c \in Desks
  BY <1>1 DEF Begun, Desks, DeskEnds
<1>3. /\ c.cmd = cmd /\ c.fd = "none" /\ c.hit = Null /\ c.plan = <<>> /\ c.mode = mode
      /\ c.spent = 0 /\ c.limit = limit
  BY DEF Begun, Off
<1> HIDE DEF c
<1>4. WithinBudget(c) /\ HitSound(c)
  BY <1>3 DEF WithinBudget, HitSound
<1>5. QED
  BY <1>2, <1>3, <1>4 DEF c

(* What a command does once a call has been answered or given up.          *)
LEMMA RecordedSound ==
    ASSUME NEW c \in Desks, NEW charge \in Charges, Affordable(c), c.plan # <<>>, c.fd = "none",
           c.cmd = "create" => c.made \in Ids, HitSound(c)
    PROVE  Aside(Recorded(c, charge))
<1>1. charge \in Nat /\ c.spent \in Nat /\ c.limit \in Nat /\ c.mode \in Modes /\ c.plan \in Seq(Calls)
  BY DeskConstants DEF Desks
<1>2. Head(c.plan) \in Calls /\ Tail(c.plan) \in Seq(Calls)
  BY <1>1, TailOf
<1>3. PICK total \in Nat : total = c.spent + charge
  BY <1>1
<1> DEFINE d == [c EXCEPT !.spent = total, !.charge = 0]
<1>4. Recorded(c, charge) = Proceed(d, Tail(c.plan))
  BY <1>3 DEF Recorded
<1>5. d \in Desks
  BY DEF Desks
<1>6. /\ d.spent = total /\ d.limit = c.limit /\ d.mode = c.mode /\ d.fd = c.fd
      /\ d.cmd = c.cmd /\ d.made = c.made /\ d.hit = c.hit
  BY DEF Desks
<1> HIDE DEF d
<1>7. WithinBudget(d)
  <2> DEFINE op == Head(c.plan).op
             e == Estimate[c.mode][op]
  <2>1. op \in {"search", "answer"}
    BY <1>2 DEF Calls
  <2>2. e \in Nat
    BY <1>1, <2>1, DeskConstants
  <2>3. c.spent + e <= c.limit
    BY DEF Affordable
  <2>4. Estimate[d.mode][op] = e
    BY <1>6
  <2> HIDE DEF op, e
  <2>5. d.spent <= d.limit + charge - e
    BY <1>1, <1>3, <1>6, <2>2, <2>3
  <2>6. QED
    BY <2>1, <2>4, <2>5 DEF WithinBudget
<1>8. HitSound(d)
  BY <1>6 DEF HitSound
<1>9. QED
  BY <1>2, <1>4, <1>5, <1>6, <1>7, <1>8, ProceedSound

-----------------------------------------------------------------------------
(* Research: the invariants, and the steps that only their command sees.   *)

ResearchTypes ==
    /\ now \in Days
    /\ cache \in [Keys -> Entry \union {Null}]
    /\ theses \in [whole : BOOLEAN, items : Seq(Thesis)]
    /\ desk \in [Procs -> Desks]
    /\ \A p \in Procs : DeskShape(desk[p])
    /\ launched \in 0..MaxCommands

(* What was written to an entry is filed under it, and is one answer       *)
(* unless two processes wrote to it.                                       *)
EntrySound(k, e) ==
    /\ e.head \in Answer /\ e.head.key = k
    /\ e.tail # Null => e.tail.key = k /\ (e.head # e.tail => e.shared)

(* Who has an entry open wrote its head, or it was shared.                 *)
WriterSound(p) ==
    desk[p].fd = "attached" =>
        LET k == KeyOf(desk[p]) IN
        /\ cache[k] \in Entry /\ EntrySound(k, cache[k])
        /\ cache[k].head = TheAnswer(p, desk[p].since) \/ cache[k].shared

CacheShape ==
    /\ \A k \in Keys : cache[k] # Null => EntrySound(k, cache[k])
    /\ \A p \in Procs : WriterSound(p)

(* Who is about to replace theses.json has what is in it, or was overtaken. *)
UpToDate(c) == c.stage \in {"temp", "replace"} => c.overlap \/ c.copy = theses.items

ThesesShape == theses.whole = TRUE /\ \A p \in Procs : UpToDate(desk[p])

ResearchSound == ResearchTypes /\ CacheShape /\ ThesesShape

(* A step of one command that touches no file.                             *)
Goes(p, c) ==
    /\ desk' = [desk EXCEPT ![p] = c]
    /\ now' = now /\ cache' = cache /\ theses' = theses
    /\ launched' \in 0..MaxCommands

LEMMA GoesSound ==
    ASSUME ResearchSound, NEW p \in Procs, NEW c, Sound(c), c.fd = "none", UpToDate(c), Goes(p, c)
    PROVE  ResearchSound'
<1>1. /\ desk' \in [Procs -> Desks] /\ c \in Desks
      /\ \A q \in Procs : desk'[q] = IF q = p THEN c ELSE desk[q]
  BY DEF ResearchSound, ResearchTypes, Goes, Sound
<1>2. /\ now' = now /\ cache' = cache /\ theses' = theses /\ launched' \in 0..MaxCommands
      /\ now \in Days /\ cache \in [Keys -> Entry \union {Null}]
      /\ theses \in [whole : BOOLEAN, items : Seq(Thesis)]
      /\ \A q \in Procs : DeskShape(desk[q])
  BY DEF ResearchSound, ResearchTypes, Goes
<1>3. \A q \in Procs : DeskShape(desk'[q])
  BY <1>1, <1>2 DEF Sound
<1>4. \A q \in Procs : desk'[q].fd = "attached" => desk'[q] = desk[q] /\ WriterSound(q)
  BY <1>1 DEF ResearchSound, CacheShape
<1>5. \A q \in Procs : WriterSound(q)'
  BY <1>2, <1>4 DEF WriterSound, TheAnswer
<1>6. \A q \in Procs : UpToDate(desk'[q])
  BY <1>1 DEF ResearchSound, ThesesShape
<1>7. ThesesShape'
  BY <1>2, <1>6 DEF ResearchSound, ThesesShape, UpToDate
<1>8. CacheShape'
  BY <1>2, <1>5 DEF ResearchSound, CacheShape
<1>9. ResearchTypes'
  BY <1>1, <1>2, <1>3 DEF ResearchTypes
<1>10. QED
  BY <1>7, <1>8, <1>9 DEF ResearchSound

LEMMA AsideSound ==
    ASSUME ResearchSound, NEW p \in Procs, NEW c, Aside(c), Goes(p, c)
    PROVE  ResearchSound'
  BY GoesSound DEF Aside, UpToDate

LEMMA StepGoes ==
    ASSUME ResearchTypes, NEW p \in Procs, NEW c, Step(p, c) \/ Launch(p, c) PROVE Goes(p, c)
<1>1. launched \in 0..MaxCommands /\ MaxCommands \in Nat
  BY DeskConstants DEF ResearchTypes
<1>2. CASE Step(p, c)
  BY <1>1, <1>2 DEF Step, Goes
<1>3. CASE Launch(p, c)
  BY <1>1, <1>3 DEF Launch, Goes
<1>4. QED
  BY <1>2, <1>3

LEMMA KeyOfIsKey == ASSUME NEW c \in Desks, c.plan # <<>> PROVE KeyOf(c) \in Keys
<1>1. Head(c.plan) \in Calls
  <2>1. c.plan \in Seq(Calls)
    BY DEF Desks
  <2>2. QED
    BY <2>1, TailOf
<1>2. Head(c.plan).what \in Topics /\ c.mode \in Modes /\ c.day \in Days /\ 0 \in Days
  BY <1>1, DeskConstants DEF Calls, Desks
<1>3. QED
  BY <1>2 DEF KeyOf, Keys

(* What an invariant of all commands says of one.                          *)
LEMMA DeskAt ==
    ASSUME ResearchTypes, NEW p \in Procs
    PROVE  /\ desk[p] \in Desks /\ Sound(desk[p]) /\ DeskShape(desk[p]) /\ now \in Days
           /\ WithinBudget(desk[p]) /\ HitSound(desk[p])
           /\ desk[p].cmd = "create" => desk[p].made \in Ids
  BY DEF ResearchTypes, Sound, DeskShape

LEMMA ShortSeqs ==
    ASSUME NEW S, NEW a \in S, NEW b \in S, NEW c \in S
    PROVE  /\ <<>> \in Seq(S) /\ <<a>> \in Seq(S) /\ <<a, b>> \in Seq(S) /\ <<a, b, c>> \in Seq(S)
           /\ <<a>> # <<>>
  OBVIOUS

(* The commands that ask Exa, as they start.                               *)
LEMMA BeginContextSound ==
    ASSUME ResearchSound, NEW p \in Procs, BeginContext(p) PROVE ResearchSound'
<1>1. ResearchTypes /\ now \in Days
  BY DEF ResearchSound, ResearchTypes
<1> DEFINE plan == <<Call("search", "news", TRUE), Call("search", "papers", TRUE), Call("search", "related", TRUE)>>
<1>2. PICK mode \in Modes, limit \in Limits : Launch(p, Proceed(Begun("context", mode, limit), plan))
  BY DEF BeginContext
<1>3. plan \in Seq(Calls)
  <2>1. /\ Call("search", "news", TRUE) \in Calls /\ Call("search", "papers", TRUE) \in Calls
        /\ Call("search", "related", TRUE) \in Calls
    BY DEF Call, Calls, Topics
  <2>2. QED
    BY <2>1, ShortSeqs
<1> HIDE DEF plan
<1>4. limit \in Nat
  BY DeskConstants
<1>5. Aside(Proceed(Begun("context", mode, limit), plan))
  BY <1>1, <1>3, <1>4, BegunSound, ProceedSound DEF DeskCommands
<1>6. QED
  BY <1>1, <1>2, <1>5, StepGoes, AsideSound

LEMMA BeginTopicSound ==
    ASSUME ResearchSound, NEW p \in Procs, BeginTopic(p) PROVE ResearchSound'
<1>1. ResearchTypes /\ now \in Days
  BY DEF ResearchSound, ResearchTypes
<1> DEFINE plan(mode, summary) ==
        (IF summary /\ mode # "fast" THEN <<Call("answer", "summary", TRUE)>> ELSE <<>>)
        \o <<Call("search", "topic", TRUE)>>
<1>2. PICK mode \in Modes, limit \in Limits, summary \in BOOLEAN :
        Launch(p, Proceed(Begun("topic", mode, limit), plan(mode, summary)))
  BY DEF BeginTopic
<1>3. plan(mode, summary) \in Seq(Calls)
  <2>1. Call("answer", "summary", TRUE) \in Calls /\ Call("search", "topic", TRUE) \in Calls
    BY DEF Call, Calls, Topics
  <2>2. /\ <<Call("answer", "summary", TRUE)>> \in Seq(Calls) /\ <<>> \in Seq(Calls)
        /\ <<Call("search", "topic", TRUE)>> \in Seq(Calls)
    BY <2>1, ShortSeqs
  <2>3. QED
    BY <2>2, ConcatProperties
<1> HIDE DEF plan
<1>4. limit \in Nat
  BY DeskConstants
<1>5. Aside(Proceed(Begun("topic", mode, limit), plan(mode, summary)))
  BY <1>1, <1>3, <1>4, BegunSound, ProceedSound DEF DeskCommands
<1>6. QED
  BY <1>1, <1>2, <1>5, StepGoes, AsideSound

LEMMA BeginCreateSound ==
    ASSUME ResearchSound, NEW p \in Procs, BeginCreate(p) PROVE ResearchSound'
<1>1. ResearchTypes /\ now \in Days
  BY DEF ResearchSound, ResearchTypes
<1> DEFINE made == Len(StartTheses) + launched + 1
           plan(mode, researched) ==
             IF ~researched THEN <<>>
             ELSE <<Call("search", "topic", FALSE), Call("search", "related", FALSE)>>
                  \o (IF mode = "fast" THEN <<>> ELSE <<Call("answer", "summary", FALSE)>>)
           begun(mode, limit) == [Begun("create", mode, limit) EXCEPT !.made = made]
<1>2. PICK mode \in Modes, limit \in Limits, researched \in BOOLEAN :
        Launch(p, Proceed(begun(mode, limit), plan(mode, researched)))
  BY DEF BeginCreate
<1>3. plan(mode, researched) \in Seq(Calls)
  <2>1. /\ Call("search", "topic", FALSE) \in Calls /\ Call("search", "related", FALSE) \in Calls
        /\ Call("answer", "summary", FALSE) \in Calls
    BY DEF Call, Calls, Topics
  <2>2. /\ <<Call("search", "topic", FALSE), Call("search", "related", FALSE)>> \in Seq(Calls)
        /\ <<Call("answer", "summary", FALSE)>> \in Seq(Calls) /\ <<>> \in Seq(Calls)
    BY <2>1, ShortSeqs
  <2>3. QED
    BY <2>2, ConcatProperties
<1>4. made \in Ids /\ made \in Nat
  BY <1>1, <1>2, DeskConstants DEF Launch, ResearchTypes, Ids
<1>5. limit \in Nat
  BY DeskConstants
<1> DEFINE b == Begun("create", mode, limit)
<1>6. b \in Desks /\ WithinBudget(b) /\ HitSound(b) /\ b.fd = "none" /\ b.spent = 0 /\ b.limit = limit /\ b.hit = Null
  BY <1>1, <1>5, BegunSound DEF DeskCommands
<1> DEFINE c == begun(mode, limit)
<1> HIDE DEF plan, made, b
<1>7. c = [b EXCEPT !.made = made]
  BY DEF b
<1> HIDE DEF c
<1>8. c \in Desks /\ c.made = made /\ c.fd = "none" /\ c.spent = 0 /\ c.limit = limit /\ c.hit = Null
  BY <1>4, <1>6, <1>7 DEF Desks
<1>9. WithinBudget(c) /\ HitSound(c)
  BY <1>5, <1>8 DEF WithinBudget, HitSound
<1>10. Aside(Proceed(c, plan(mode, researched)))
  BY <1>3, <1>4, <1>8, <1>9, ProceedSound
<1>11. QED
  BY <1>1, <1>2, <1>10, StepGoes, AsideSound DEF c

LEMMA BeginSuggestSound ==
    ASSUME ResearchSound, NEW p \in Procs, BeginSuggest(p) PROVE ResearchSound'
<1>1. ResearchTypes /\ now \in Days
  BY DEF ResearchSound, ResearchTypes
<1> DEFINE plan == <<Call("search", "topic", FALSE)>>
<1>2. PICK cmd \in {"suggest", "similar"}, mode \in Modes, limit \in Limits :
        Launch(p, Proceed(Begun(cmd, mode, limit), plan))
  BY DEF BeginSuggest
<1>3. plan \in Seq(Calls)
  <2>1. Call("search", "topic", FALSE) \in Calls
    BY DEF Call, Calls, Topics
  <2>2. QED
    BY <2>1, ShortSeqs
<1> HIDE DEF plan
<1>4. limit \in Nat /\ cmd \in DeskCommands /\ cmd # "create"
  BY DeskConstants DEF DeskCommands
<1>5. Aside(Proceed(Begun(cmd, mode, limit), plan))
  BY <1>1, <1>3, <1>4, BegunSound, ProceedSound
<1>6. QED
  BY <1>1, <1>2, <1>5, StepGoes, AsideSound

(* A command turns to what it does next.                                   *)
LEMMA TurnSound ==
    ASSUME NEW c, Sound(c), c.fd = "none", NEW stage \in DeskStages \ {"open", "close"},
           stage \in CallStages => c.plan # <<>>,
           stage \in {"judge", "unlink"} => c.left # {}
    PROVE  LET d == [c EXCEPT !.stage = stage] IN
           /\ Sound(d) /\ d.fd = "none" /\ d.stage = stage
           /\ d.copy = c.copy /\ d.overlap = c.overlap
           /\ stage \notin {"temp", "replace"} => Aside(d)
<1> DEFINE d == [c EXCEPT !.stage = stage]
<1>1. c \in Desks /\ DeskShape(c)
  BY DEF Sound
<1>2. d \in Desks
  BY <1>1 DEF Desks
<1>3. /\ d.plan = c.plan /\ d.hit = c.hit /\ d.stage = stage /\ d.fd = c.fd /\ d.cmd = c.cmd
      /\ d.made = c.made /\ d.mode = c.mode /\ d.limit = c.limit /\ d.spent = c.spent
      /\ d.left = c.left /\ d.copy = c.copy /\ d.overlap = c.overlap
  BY <1>1 DEF Desks
<1> HIDE DEF d
<1>4. WithinBudget(d) /\ HitSound(d)
  BY <1>1, <1>3 DEF DeskShape, WithinBudget, HitSound
<1>5. DeskShape(d)
  BY <1>1, <1>3, <1>4 DEF DeskShape
<1>6. QED
  BY <1>2, <1>3, <1>5 DEF Sound, Aside, d

LEMMA Repeated == ASSUME NEW S, NEW x \in S, NEW n \in Nat PROVE [i \in 1..n |-> x] \in Seq(S)
  OBVIOUS

(* Looking a thesis up before asking about it.                             *)
LEMMA BeginInvalidationSound ==
    ASSUME ResearchSound, NEW p \in Procs, BeginInvalidation(p) PROVE ResearchSound'
<1>1. ResearchTypes /\ now \in Days
  BY DEF ResearchSound, ResearchTypes
<1>2. PICK mode \in Modes, limit \in Limits, prefix \in Typed :
        Launch(p, [Begun("invalidation", mode, limit) EXCEPT !.stage = "find", !.target = prefix])
  BY DEF BeginInvalidation
<1> DEFINE b == Begun("invalidation", mode, limit)
           c == [b EXCEPT !.stage = "find", !.target = prefix]
<1>3. /\ b \in Desks /\ WithinBudget(b) /\ HitSound(b) /\ b.cmd = "invalidation" /\ b.fd = "none"
      /\ b.hit = Null
  <2>1. limit \in Nat
    BY DeskConstants
  <2>2. QED
    BY <1>1, <2>1, BegunSound DEF DeskCommands
<1>4. Launch(p, c)
  BY <1>2
<1> HIDE DEF b
<1>5. c \in Desks
  BY <1>3 DEF Desks, DeskStages, Targets
<1>6. /\ c.stage = "find" /\ c.fd = "none" /\ c.cmd = "invalidation" /\ c.hit = Null
      /\ c.mode = b.mode /\ c.limit = b.limit /\ c.spent = b.spent
  BY <1>3 DEF Desks
<1> HIDE DEF c
<1>7. WithinBudget(c) /\ HitSound(c)
  BY <1>3, <1>6 DEF WithinBudget, HitSound
<1>8. Aside(c)
  BY <1>5, <1>6, <1>7 DEF Aside, Sound, DeskShape, CallStages, FileStages
<1>9. QED
  BY <1>1, <1>4, <1>8, StepGoes, AsideSound

LEMMA FindThesisSound ==
    ASSUME ResearchSound, NEW p \in Procs, FindThesis(p) PROVE ResearchSound'
<1> DEFINE c == desk[p]
           plan(n) == [i \in 1..n |-> Call("search", "news", FALSE)]
<1>1. ResearchTypes
  BY DEF ResearchSound
<1>2. /\ c \in Desks /\ c.stage = "find" /\ DeskShape(c) /\ WithinBudget(c) /\ HitSound(c)
      /\ c.cmd = "create" => c.made \in Ids
  BY <1>1, DeskAt DEF FindThesis, At
<1>3. c.fd = "none"
  BY <1>2 DEF DeskShape
<1>4. ASSUME NEW n \in {2, 3} PROVE plan(n) \in Seq(Calls)
  <2>1. Call("search", "news", FALSE) \in Calls
    BY DEF Call, Calls, Topics
  <2>2. QED
    BY <2>1, Repeated
<1>5. \/ Step(p, Over(c, "unreadable")) \/ Step(p, Over(c, "not found"))
      \/ \E n \in {2, 3} : Step(p, Proceed(c, plan(n)))
  BY DEF FindThesis
<1> HIDE DEF plan, c
<1>6. Aside(Over(c, "unreadable")) /\ Aside(Over(c, "not found"))
  BY <1>2, OverSound DEF DeskEnds
<1>7. \A n \in {2, 3} : Aside(Proceed(c, plan(n)))
  BY <1>2, <1>3, <1>4, ProceedSound
<1>8. QED
  BY <1>1, <1>5, <1>6, <1>7, StepGoes, AsideSound

(* A call that does not fit, or fails.                                     *)
LEMMA AtAsk ==
    ASSUME ResearchTypes, NEW p \in Procs, At(p, "ask")
    PROVE  LET c == desk[p] IN
           /\ c \in Desks /\ Sound(c) /\ WithinBudget(c) /\ HitSound(c) /\ c.fd = "none"
           /\ c.cmd = "create" => c.made \in Ids
           /\ c.plan # <<>> /\ c.plan \in Seq(Calls) /\ Head(c.plan) \in Calls /\ Tail(c.plan) \in Seq(Calls)
<1> DEFINE c == desk[p]
<1>1. /\ c \in Desks /\ c.stage = "ask" /\ DeskShape(c) /\ Sound(c) /\ WithinBudget(c) /\ HitSound(c)
      /\ c.cmd = "create" => c.made \in Ids
  BY DeskAt DEF At
<1>2. c.fd = "none" /\ c.plan # <<>>
  BY <1>1 DEF DeskShape, CallStages
<1>3. c.plan \in Seq(Calls)
  BY <1>1 DEF Desks
<1>4. QED
  BY <1>1, <1>2, <1>3, TailOf

LEMMA ShortSound ==
    ASSUME ResearchSound, NEW p \in Procs, Short(p) PROVE ResearchSound'
<1> DEFINE c == desk[p]
<1>1. ResearchTypes /\ At(p, "ask") /\ Step(p, Proceed(c, AfterShort(c)))
  BY DEF ResearchSound, Short
<1>2. /\ c \in Desks /\ WithinBudget(c) /\ HitSound(c) /\ c.fd = "none"
      /\ c.cmd = "create" => c.made \in Ids
      /\ c.plan # <<>> /\ c.plan \in Seq(Calls) /\ Tail(c.plan) \in Seq(Calls)
  BY <1>1, AtAsk
<1> HIDE DEF c
<1>3. AfterShort(c) \in Seq(Calls)
  <2>1. Last(c.plan) \in Calls
    <3>1. Len(c.plan) \in Nat /\ Len(c.plan) # 0
      BY <1>2, LenProperties, EmptySeq
    <3>2. c.plan[Len(c.plan)] \in Calls
      BY <1>2, <3>1, ElementOfSeq
    <3>3. QED
      BY <3>2 DEF Last
  <2>2. <<>> \in Seq(Calls) /\ <<Last(c.plan)>> \in Seq(Calls)
    BY <2>1, ShortSeqs
  <2> DEFINE last == <<Last(c.plan)>>
  <2>3. AfterShort(c) \in {<<>>, last, Tail(c.plan)}
    BY DEF AfterShort
  <2>4. QED
    BY <1>2, <2>2, <2>3
<1>4. Aside(Proceed(c, AfterShort(c)))
  BY <1>2, <1>3, ProceedSound
<1>5. QED
  BY <1>1, <1>4, StepGoes, AsideSound

LEMMA RefusedSound ==
    ASSUME ResearchSound, NEW p \in Procs, Refused(p) PROVE ResearchSound'
<1> DEFINE c == desk[p]
<1>1. ResearchTypes /\ At(p, "ask") /\ Step(p, Failed(c))
  BY DEF ResearchSound, Refused, Asking
<1>2. /\ c \in Desks /\ WithinBudget(c) /\ HitSound(c) /\ c.fd = "none"
      /\ c.cmd = "create" => c.made \in Ids
      /\ Tail(c.plan) \in Seq(Calls)
  BY <1>1, AtAsk
<1> HIDE DEF c
<1>3. Aside(Over(c, "failed")) /\ Aside(Proceed(c, Tail(c.plan)))
  BY <1>2, OverSound, ProceedSound DEF DeskEnds
<1>4. Aside(Failed(c))
  BY <1>3 DEF Failed
<1>5. QED
  BY <1>1, <1>4, StepGoes, AsideSound

LEMMA AnsweredSound ==
    ASSUME ResearchSound, NEW p \in Procs, Answered(p) PROVE ResearchSound'
<1> DEFINE c == desk[p]
<1>1. ResearchTypes /\ At(p, "ask") /\ Affordable(c)
  BY DEF ResearchSound, Answered, Asking
<1>2. PICK charge \in Charges :
        Step(p, IF Head(c.plan).cached THEN [c EXCEPT !.stage = "open", !.charge = charge]
                ELSE Recorded(c, charge))
  BY DEF Answered
<1>3. /\ c \in Desks /\ Sound(c) /\ WithinBudget(c) /\ HitSound(c) /\ c.fd = "none"
      /\ c.cmd = "create" => c.made \in Ids
      /\ c.plan # <<>> /\ Head(c.plan) \in Calls
  BY <1>1, AtAsk
<1> HIDE DEF c
<1> DEFINE d == [c EXCEPT !.stage = "open", !.charge = charge]
<1>4. Aside(Recorded(c, charge))
  BY <1>1, <1>3, RecordedSound
<1>5. d \in Desks
  BY <1>3, DeskConstants DEF Desks, DeskStages, CallStages
<1>6. /\ d.plan = c.plan /\ d.hit = c.hit /\ d.stage = "open" /\ d.fd = c.fd /\ d.cmd = c.cmd
      /\ d.made = c.made /\ d.mode = c.mode /\ d.limit = c.limit /\ d.spent = c.spent
      /\ d.charge = charge
  BY <1>3 DEF Desks
<1>7. Step(p, d) \/ Step(p, Recorded(c, charge))
  BY <1>2
<1> HIDE DEF d
<1>8. WithinBudget(d) /\ HitSound(d) /\ Affordable(d)
  BY <1>1, <1>3, <1>6 DEF WithinBudget, HitSound, Affordable
<1>9. Aside(d)
  BY <1>3, <1>5, <1>6, <1>8 DEF Aside, Sound, DeskShape, CallStages, FileStages
<1>10. QED
  BY <1>1, <1>4, <1>7, <1>9, StepGoes, AsideSound

(* The cache, as far as it is only read.                                   *)
LEMMA ReadEntrySound ==
    ASSUME ResearchSound, NEW p \in Procs, ReadEntry(p) PROVE ResearchSound'
<1> DEFINE c == desk[p]
           k == KeyOf(c)
           e == cache[k]
           hit == [asked |-> [k EXCEPT !.mode = c.mode], entry |-> e, used |-> now]
<1>1. ResearchTypes /\ CacheShape
  BY DEF ResearchSound
<1>2. /\ c \in Desks /\ Sound(c) /\ DeskShape(c) /\ c.stage = "read" /\ now \in Days
      /\ WithinBudget(c) /\ HitSound(c)
      /\ c.cmd = "create" => c.made \in Ids
  BY <1>1, DeskAt DEF ReadEntry, At
<1>3. c.fd = "none" /\ c.plan # <<>> /\ c.plan \in Seq(Calls) /\ c.mode \in Modes
  BY <1>2 DEF DeskShape, CallStages, Desks
<1>4. Tail(c.plan) \in Seq(Calls)
  BY <1>3, TailOf
<1>5. k \in Keys
  BY <1>2, <1>3, KeyOfIsKey
<1>6. k.mode = c.mode /\ [k EXCEPT !.mode = c.mode] = k
  BY DEF KeyOf
<1>7. \/ Step(p, [c EXCEPT !.stage = "ask"])
      \/ Step(p, [c EXCEPT !.stage = "evict"])
      \/ /\ e # Null /\ TRUE \in Parses(e) /\ Fresh(e)
         /\ Step(p, [Proceed(c, Tail(c.plan)) EXCEPT !.hit = hit])
  BY DEF ReadEntry
<1>8. CASE Step(p, [c EXCEPT !.stage = "ask"])
  <2>1. Aside([c EXCEPT !.stage = "ask"])
    BY <1>2, <1>3, TurnSound DEF DeskStages, CallStages, FileStages
  <2>2. QED
    BY <1>1, <1>8, <2>1, StepGoes, AsideSound
<1>9. CASE Step(p, [c EXCEPT !.stage = "evict"])
  <2>1. Aside([c EXCEPT !.stage = "evict"])
    BY <1>2, <1>3, TurnSound DEF DeskStages, CallStages, FileStages
  <2>2. QED
    BY <1>1, <1>9, <2>1, StepGoes, AsideSound
<1>10. CASE /\ e # Null /\ TRUE \in Parses(e) /\ Fresh(e)
            /\ Step(p, [Proceed(c, Tail(c.plan)) EXCEPT !.hit = hit])
  <2> DEFINE b == Proceed(c, Tail(c.plan))
             d == [b EXCEPT !.hit = hit]
  <2>1. Aside(b)
    BY <1>2, <1>3, <1>4, ProceedSound
  <2>2. e \in Entry /\ EntrySound(k, e)
    BY <1>1, <1>5, <1>10 DEF ResearchTypes, CacheShape
  <2>3. hit \in Hits /\ hit.asked = k /\ hit.entry = e /\ hit.used = now
    BY <1>2, <1>5, <1>6, <2>2 DEF Hits
  <2>4. e.head.key = k /\ e.tail.at + Ttl >= now
    BY <1>10, <2>2 DEF EntrySound, Fresh
  <2>5. Step(p, d)
    BY <1>10
  <2> HIDE DEF b, hit
  <2>6. d \in Desks
    BY <2>1, <2>3 DEF Aside, Sound, Desks
  <2>7. /\ d.plan = b.plan /\ d.hit = hit /\ d.stage = b.stage /\ d.fd = b.fd /\ d.cmd = b.cmd
        /\ d.made = b.made /\ d.mode = b.mode /\ d.limit = b.limit /\ d.spent = b.spent
        /\ d.charge = b.charge /\ d.left = b.left
    BY <2>1 DEF Aside, Sound, Desks
  <2> HIDE DEF d
  <2>8. WithinBudget(d) /\ HitSound(d) /\ (Affordable(b) => Affordable(d))
    BY <2>1, <2>3, <2>4, <2>7 DEF Aside, Sound, DeskShape, WithinBudget, HitSound, Affordable
  <2>9. Aside(d)
    BY <2>1, <2>6, <2>7, <2>8 DEF Aside, Sound, DeskShape
  <2>10. QED
    BY <1>1, <2>5, <2>9, StepGoes, AsideSound
<1>11. QED
  BY <1>7, <1>8, <1>9, <1>10

LEMMA BeginClearSound ==
    ASSUME ResearchSound, NEW p \in Procs, BeginClear(p) PROVE ResearchSound'
<1>1. ResearchTypes /\ now \in Days
  BY DEF ResearchSound, ResearchTypes
<1> DEFINE files == {k \in Keys : cache[k] # Null}
<1>2. PICK cmd \in {"clear", "clear-expired"} :
        /\ files # {}
        /\ Launch(p, [Begun(cmd, "fast", 1) EXCEPT !.stage = "judge", !.left = files])
  BY DEF BeginClear
<1> DEFINE b == Begun(cmd, "fast", 1)
           c == [b EXCEPT !.stage = "judge", !.left = files]
<1>3. b \in Desks /\ WithinBudget(b) /\ HitSound(b) /\ b.cmd = cmd /\ b.fd = "none" /\ b.hit = Null
  BY <1>1, BegunSound, DeskConstants DEF DeskCommands
<1>4. Launch(p, c) /\ files \subseteq Keys /\ files # {}
  BY <1>2
<1> HIDE DEF b, files
<1>5. c \in Desks
  BY <1>3, <1>4 DEF Desks, DeskStages
<1>6. /\ c.stage = "judge" /\ c.left = files /\ c.fd = "none" /\ c.cmd = cmd /\ c.hit = Null
      /\ c.mode = b.mode /\ c.limit = b.limit /\ c.spent = b.spent
  BY <1>3 DEF Desks
<1> HIDE DEF c
<1>7. WithinBudget(c) /\ HitSound(c)
  BY <1>3, <1>6 DEF WithinBudget, HitSound
<1>8. Aside(c)
  BY <1>4, <1>5, <1>6, <1>7 DEF Aside, Sound, DeskShape, CallStages, FileStages
<1>9. QED
  BY <1>1, <1>4, <1>8, StepGoes, AsideSound

(* One file less to clear.                                                 *)
LEMMA OneFileLess ==
    ASSUME NEW c, Sound(c), c.fd = "none", c.stage \in {"judge", "unlink"}, NEW left \in SUBSET Keys, left # {}
    PROVE  Aside([c EXCEPT !.stage = "judge", !.left = left])
<1> DEFINE d == [c EXCEPT !.stage = "judge", !.left = left]
<1>1. c \in Desks /\ DeskShape(c)
  BY DEF Sound
<1>2. d \in Desks
  BY <1>1 DEF Desks, DeskStages
<1>3. /\ d.stage = "judge" /\ d.left = left /\ d.fd = c.fd /\ d.cmd = c.cmd /\ d.hit = c.hit
      /\ d.made = c.made /\ d.mode = c.mode /\ d.limit = c.limit /\ d.spent = c.spent
  BY <1>1 DEF Desks
<1> HIDE DEF d
<1>4. WithinBudget(d) /\ HitSound(d)
  BY <1>1, <1>3 DEF DeskShape, WithinBudget, HitSound
<1>5. DeskShape(d)
  BY <1>1, <1>3, <1>4 DEF DeskShape, CallStages, FileStages
<1>6. QED
  BY <1>2, <1>3, <1>5 DEF Aside, Sound, d

LEMMA Clearing ==
    ASSUME ResearchTypes, NEW p \in Procs, desk[p].stage \in {"judge", "unlink"}
    PROVE  LET c == desk[p]
               key == CHOOSE k \in c.left : TRUE
               rest == c.left \ {key}
           IN  /\ c \in Desks /\ Sound(c) /\ WithinBudget(c) /\ c.fd = "none"
               /\ c.left \in SUBSET Keys /\ c.left # {} /\ key \in Keys /\ rest \in SUBSET Keys
               /\ Aside(IF rest = {} THEN Over(c, "ok") ELSE [c EXCEPT !.stage = "judge", !.left = rest])
<1> DEFINE c == desk[p]
           key == CHOOSE k \in c.left : TRUE
           rest == c.left \ {key}
<1>1. c \in Desks /\ Sound(c) /\ DeskShape(c) /\ WithinBudget(c)
  BY DeskAt
<1>2. c.fd = "none" /\ c.left # {} /\ c.left \in SUBSET Keys
  BY <1>1 DEF DeskShape, Desks
<1>3. key \in Keys /\ rest \in SUBSET Keys
  BY <1>2
<1> HIDE DEF rest, key
<1>4. Aside(Over(c, "ok"))
  BY <1>1, OverSound DEF DeskEnds
<1>5. rest # {} => Aside([c EXCEPT !.stage = "judge", !.left = rest])
  BY <1>1, <1>2, <1>3, OneFileLess
<1>6. QED
  BY <1>1, <1>2, <1>3, <1>4, <1>5 DEF rest, key

LEMMA JudgeSound ==
    ASSUME ResearchSound, NEW p \in Procs, Judge(p) PROVE ResearchSound'
<1> DEFINE c == desk[p]
           key == CHOOSE k \in c.left : TRUE
           rest == c.left \ {key}
           after == IF rest = {} THEN Over(c, "ok") ELSE [c EXCEPT !.left = rest]
           clear == IF rest = {} THEN Over(c, "ok") ELSE [c EXCEPT !.stage = "judge", !.left = rest]
<1>1. ResearchTypes /\ c.stage = "judge"
  BY DEF ResearchSound, Judge, At
<1>2. c \in Desks /\ Sound(c) /\ c.fd = "none" /\ c.left # {} /\ Aside(clear)
  BY <1>1, Clearing
<1>3. Step(p, after) \/ Step(p, [c EXCEPT !.stage = "unlink"])
  BY DEF Judge
<1> HIDE DEF rest
<1>4. after = clear
  <2>1. [c EXCEPT !.left = rest] = [c EXCEPT !.stage = "judge", !.left = rest]
    BY <1>1, <1>2 DEF Desks
  <2>2. QED
    BY <2>1
<1>5. Aside([c EXCEPT !.stage = "unlink"])
  BY <1>2, TurnSound DEF DeskStages, CallStages, FileStages
<1>6. QED
  BY <1>1, <1>2, <1>3, <1>4, <1>5, StepGoes, AsideSound

(* theses.json, up to its replacement.                                     *)
LEMMA BeginChangeSound ==
    ASSUME ResearchSound, NEW p \in Procs, BeginChange(p) PROVE ResearchSound'
<1>1. ResearchTypes /\ now \in Days
  BY DEF ResearchSound, ResearchTypes
<1>2. PICK cmd \in {"edit", "resolve"}, prefix \in Typed :
        Launch(p, [Begun(cmd, "fast", 1) EXCEPT !.stage = "load", !.target = prefix])
  BY DEF BeginChange
<1> DEFINE b == Begun(cmd, "fast", 1)
           c == [b EXCEPT !.stage = "load", !.target = prefix]
<1>3. b \in Desks /\ WithinBudget(b) /\ HitSound(b) /\ b.cmd = cmd /\ b.fd = "none" /\ b.hit = Null
  BY <1>1, BegunSound, DeskConstants DEF DeskCommands
<1>4. Launch(p, c)
  BY <1>2
<1> HIDE DEF b
<1>5. c \in Desks
  BY <1>3 DEF Desks, DeskStages, FileStages, Targets
<1>6. /\ c.stage = "load" /\ c.fd = "none" /\ c.cmd = cmd /\ c.hit = Null
      /\ c.mode = b.mode /\ c.limit = b.limit /\ c.spent = b.spent
  BY <1>3 DEF Desks
<1> HIDE DEF c
<1>7. WithinBudget(c) /\ HitSound(c)
  BY <1>3, <1>6 DEF WithinBudget, HitSound
<1>8. Aside(c)
  BY <1>5, <1>6, <1>7 DEF Aside, Sound, DeskShape, CallStages, FileStages
<1>9. QED
  BY <1>1, <1>4, <1>8, StepGoes, AsideSound

LEMMA LoadThesesSound ==
    ASSUME ResearchSound, NEW p \in Procs, LoadTheses(p) PROVE ResearchSound'
<1> DEFINE c == desk[p]
           d == [c EXCEPT !.stage = "temp", !.copy = theses.items]
<1>1. ResearchTypes /\ theses.items \in Seq(Thesis)
  BY DEF ResearchSound, ResearchTypes
<1>2. c \in Desks /\ DeskShape(c) /\ WithinBudget(c) /\ HitSound(c) /\ c.stage = "load"
  BY <1>1, DeskAt DEF LoadTheses, At
<1>3. Step(p, Over(c, "unreadable")) \/ Step(p, Over(c, "not found")) \/ Step(p, d)
  BY DEF LoadTheses
<1>4. d \in Desks
  BY <1>1, <1>2 DEF Desks, DeskStages, FileStages
<1>5. /\ d.hit = c.hit /\ d.stage = "temp" /\ d.fd = c.fd /\ d.cmd = c.cmd
      /\ d.made = c.made /\ d.mode = c.mode /\ d.limit = c.limit /\ d.spent = c.spent
      /\ d.copy = theses.items
  BY <1>2 DEF Desks
<1> HIDE DEF c, d
<1>6. Aside(Over(c, "unreadable")) /\ Aside(Over(c, "not found"))
  BY <1>2, OverSound DEF DeskEnds
<1>7. WithinBudget(d) /\ HitSound(d)
  BY <1>2, <1>5 DEF WithinBudget, HitSound
<1>8. Sound(d) /\ d.fd = "none"
  BY <1>2, <1>4, <1>5, <1>7 DEF Sound, DeskShape, CallStages, FileStages
<1>9. UpToDate(d)
  BY <1>5 DEF UpToDate
<1>10. QED
  BY <1>1, <1>3, <1>6, <1>8, <1>9, StepGoes, AsideSound, GoesSound

LEMMA WriteTempSound ==
    ASSUME ResearchSound, NEW p \in Procs, WriteTemp(p) PROVE ResearchSound'
<1> DEFINE c == desk[p]
           d == [c EXCEPT !.stage = "replace"]
<1>1. ResearchTypes /\ UpToDate(c) /\ Step(p, d)
  BY DEF ResearchSound, ThesesShape, WriteTemp
<1>2. Sound(c) /\ DeskShape(c) /\ c.stage = "temp"
  BY <1>1, DeskAt DEF WriteTemp, At
<1>3. c.fd = "none"
  BY <1>2 DEF DeskShape, FileStages
<1>4. Sound(d) /\ d.fd = "none" /\ d.stage = "replace" /\ d.copy = c.copy /\ d.overlap = c.overlap
  BY <1>2, <1>3, TurnSound DEF DeskStages, CallStages, FileStages
<1> HIDE DEF d
<1>5. UpToDate(d)
  BY <1>1, <1>2, <1>4 DEF UpToDate
<1>6. QED
  BY <1>1, <1>4, <1>5, StepGoes, GoesSound

LEMMA AbortSound ==
    ASSUME ResearchSound, NEW p \in Procs, Abort(p) PROVE ResearchSound'
<1> DEFINE c == desk[p]
<1>1. ResearchTypes /\ Step(p, Over(c, "aborted"))
  BY DEF ResearchSound, Abort
<1>2. c \in Desks /\ WithinBudget(c)
  BY <1>1, DeskAt
<1>3. Aside(Over(c, "aborted"))
  BY <1>2, OverSound DEF DeskEnds
<1>4. QED
  BY <1>1, <1>3, StepGoes, AsideSound

LEMMA TickSound ==
    ASSUME ResearchSound, Tick PROVE ResearchSound'
<1>1. now' \in Days
  BY DeskConstants DEF ResearchSound, ResearchTypes, Tick, Days
<1>2. UNCHANGED <<cache, theses, desk, launched>>
  BY DEF Tick
<1>3. ResearchTypes'
  BY <1>1, <1>2 DEF ResearchSound, ResearchTypes
<1>4. CacheShape' /\ ThesesShape'
  BY <1>2 DEF ResearchSound, CacheShape, WriterSound, TheAnswer, ThesesShape, UpToDate
<1>5. QED
  BY <1>3, <1>4 DEF ResearchSound

-----------------------------------------------------------------------------
(* Research: the steps on the cache.                                       *)

(* An entry is unlinked: who had it open goes on with a file nobody reads. *)
LEMMA UnlinkedSound ==
    ASSUME ResearchSound, NEW p \in Procs, NEW c, Aside(c), NEW key \in Keys,
           cache' = [cache EXCEPT ![key] = Null],
           desk' = Unlinked(key, [desk EXCEPT ![p] = c]),
           now' = now, theses' = theses, launched' = launched
    PROVE  ResearchSound'
<1>1. /\ ResearchTypes /\ CacheShape /\ ThesesShape /\ c \in Desks /\ DeskShape(c) /\ c.fd = "none"
      /\ UpToDate(c)
  BY DEF ResearchSound, Aside, Sound, UpToDate
<1> DEFINE was(q) == IF q = p THEN c ELSE desk[q]
           away(q) == [was(q) EXCEPT !.fd = "detached"]
<1>2. \A q \in Procs : was(q) \in Desks /\ DeskShape(was(q)) /\ UpToDate(was(q))
  BY <1>1 DEF ResearchTypes, ThesesShape
<1>3. \A q \in Procs :
        desk'[q] = IF was(q).fd = "attached" /\ KeyOf(was(q)) = key THEN away(q) ELSE was(q)
  BY <1>1 DEF ResearchTypes, Unlinked
<1>4. DOMAIN desk' = Procs /\ desk' = [q \in Procs |-> desk'[q]]
  BY DEF Unlinked
<1> HIDE DEF was
<1>5. ASSUME NEW q \in Procs
      PROVE  /\ away(q) \in Desks
             /\ was(q).fd = "attached" => DeskShape(away(q)) /\ away(q).fd = "detached"
             /\ UpToDate(away(q))
  <2> DEFINE d == was(q)
             a == away(q)
  <2>1. d \in Desks /\ DeskShape(d) /\ UpToDate(d)
    BY <1>2
  <2> HIDE DEF d
  <2>2. a = [d EXCEPT !.fd = "detached"]
    BY DEF d
  <2> HIDE DEF a
  <2>3. a \in Desks
    BY <2>1, <2>2 DEF Desks
  <2>4. /\ a.plan = d.plan /\ a.hit = d.hit /\ a.stage = d.stage /\ a.fd = "detached" /\ a.cmd = d.cmd
        /\ a.made = d.made /\ a.mode = d.mode /\ a.limit = d.limit /\ a.spent = d.spent
        /\ a.charge = d.charge /\ a.left = d.left /\ a.copy = d.copy /\ a.overlap = d.overlap
    BY <2>1, <2>2 DEF Desks
  <2>5. WithinBudget(a) /\ HitSound(a) /\ (Affordable(d) => Affordable(a))
    BY <2>1, <2>4 DEF DeskShape, WithinBudget, HitSound, Affordable
  <2>6. d.fd = "attached" => DeskShape(a)
    BY <2>1, <2>4, <2>5 DEF DeskShape
  <2>7. UpToDate(a)
    BY <2>1, <2>4 DEF UpToDate
  <2>8. QED
    BY <2>3, <2>4, <2>6, <2>7 DEF a, d
<1> HIDE DEF away
<1>6. /\ desk' \in [Procs -> Desks]
      /\ \A q \in Procs : DeskShape(desk'[q]) /\ UpToDate(desk'[q])
  BY <1>2, <1>3, <1>4, <1>5
<1>7. cache' \in [Keys -> Entry \union {Null}] /\ \A k \in Keys : cache'[k] = IF k = key THEN Null ELSE cache[k]
  BY <1>1 DEF ResearchTypes
<1>8. ResearchTypes'
  BY <1>1, <1>6, <1>7 DEF ResearchTypes
<1>9. ASSUME NEW q \in Procs, desk'[q].fd = "attached"
      PROVE  desk'[q] = desk[q] /\ KeyOf(desk[q]) # key /\ KeyOf(desk[q]) \in Keys
  <2>1. desk'[q] = was(q) /\ KeyOf(was(q)) # key
    BY <1>3, <1>5, <1>9
  <2>2. q # p /\ was(q) = desk[q]
    BY <1>1, <1>9, <2>1 DEF was
  <2>3. desk[q].plan # <<>>
    BY <1>2, <1>9, <2>1, <2>2 DEF DeskShape, CallStages
  <2>4. QED
    BY <1>2, <2>1, <2>2, <2>3, KeyOfIsKey
<1>10. ASSUME NEW q \in Procs PROVE WriterSound(q)'
  <2>1. CASE desk'[q].fd = "attached"
    <3>1. WriterSound(q)
      BY <1>1 DEF CacheShape
    <3>2. cache'[KeyOf(desk[q])] = cache[KeyOf(desk[q])]
      BY <1>7, <1>9, <2>1
    <3>3. QED
      BY <1>9, <2>1, <3>1, <3>2 DEF WriterSound, TheAnswer
  <2>2. CASE desk'[q].fd # "attached"
    BY <2>2 DEF WriterSound
  <2>3. QED
    BY <2>1, <2>2
<1>11. CacheShape'
  BY <1>1, <1>7, <1>10 DEF CacheShape
<1>12. ThesesShape'
  BY <1>1, <1>6 DEF ThesesShape, UpToDate
<1>13. QED
  BY <1>8, <1>11, <1>12 DEF ResearchSound

LEMMA EvictEntrySound ==
    ASSUME ResearchSound, NEW p \in Procs, EvictEntry(p) PROVE ResearchSound'
<1> DEFINE c == desk[p]
           d == [c EXCEPT !.stage = "ask"]
           key == KeyOf(c)
<1>1. ResearchTypes
  BY DEF ResearchSound
<1>2. Sound(c) /\ c \in Desks /\ DeskShape(c) /\ c.stage = "evict"
  BY <1>1, DeskAt DEF EvictEntry, At
<1>3. c.fd = "none" /\ c.plan # <<>>
  BY <1>2 DEF DeskShape, CallStages
<1>4. key \in Keys /\ Aside(d)
  BY <1>2, <1>3, KeyOfIsKey, TurnSound DEF DeskStages, CallStages, FileStages
<1>5. /\ cache' = [cache EXCEPT ![key] = Null]
      /\ desk' = Unlinked(key, [desk EXCEPT ![p] = d])
      /\ now' = now /\ theses' = theses /\ launched' = launched
  BY DEF EvictEntry
<1> HIDE DEF d, key
<1>6. QED
  BY <1>4, <1>5, UnlinkedSound

LEMMA UnlinkSound ==
    ASSUME ResearchSound, NEW p \in Procs, Unlink(p) PROVE ResearchSound'
<1> DEFINE c == desk[p]
           key == CHOOSE k \in c.left : TRUE
           rest == c.left \ {key}
           after == IF rest = {} THEN Over(c, "ok") ELSE [c EXCEPT !.stage = "judge", !.left = rest]
<1>1. ResearchTypes /\ c.stage = "unlink"
  BY DEF ResearchSound, Unlink, At
<1>2. key \in Keys /\ Aside(after)
  BY <1>1, Clearing
<1>3. /\ cache' = [cache EXCEPT ![key] = Null]
      /\ desk' = Unlinked(key, [desk EXCEPT ![p] = after])
      /\ now' = now /\ theses' = theses /\ launched' = launched
  BY DEF Unlink
<1> HIDE DEF key, after
<1>4. QED
  BY <1>2, <1>3, UnlinkedSound

(* An answer is filed under the question it answers.                       *)
LEMMA TheAnswerIs ==
    ASSUME ResearchTypes, NEW p \in Procs, NEW at \in Days, KeyOf(desk[p]) \in Keys
    PROVE  LET a == TheAnswer(p, at) IN a \in Answer /\ a.key = KeyOf(desk[p]) /\ a.at = at
<1> DEFINE k == KeyOf(desk[p])
<1>1. k.mode = desk[p].mode /\ [k EXCEPT !.mode = desk[p].mode] = k
  BY DEF KeyOf
<1>2. TheAnswer(p, at) = [key |-> k, at |-> at, by |-> p]
  BY <1>1 DEF TheAnswer
<1> HIDE DEF k
<1>3. k \in Keys
  BY DEF k
<1>4. QED
  BY <1>2, <1>3 DEF Answer, k

(* Opening an entry for writing.                                           *)
LEMMA OpenEntrySound ==
    ASSUME ResearchSound, NEW p \in Procs, OpenEntry(p) PROVE ResearchSound'
<1> DEFINE c == desk[p]
           key == KeyOf(c)
           others == {q \in Procs \ {p} : desk[q].fd = "attached" /\ KeyOf(desk[q]) = key}
           answer == TheAnswer(p, now)
           e == [head |-> answer, tail |-> Null, shared |-> others # {}]
           d == [c EXCEPT !.stage = "close", !.fd = "attached", !.since = now]
<1>1. ResearchTypes /\ CacheShape /\ ThesesShape /\ now \in Days /\ desk \in [Procs -> Desks]
  BY DEF ResearchSound, ResearchTypes
<1>2. c \in Desks /\ DeskShape(c) /\ WithinBudget(c) /\ HitSound(c) /\ c.stage = "open"
  BY <1>1, DeskAt DEF OpenEntry, At
<1>3. c.plan # <<>> /\ c.charge \in Charges /\ Affordable(c)
  BY <1>2 DEF DeskShape, CallStages
<1>4. key \in Keys
  BY <1>2, <1>3, KeyOfIsKey
<1>5. answer \in Answer /\ answer.key = key
  BY <1>1, <1>4, TheAnswerIs
<1>6. /\ cache' = [cache EXCEPT ![key] = e]
      /\ desk' = [desk EXCEPT ![p] = d]
      /\ now' = now /\ theses' = theses /\ launched' = launched
  <2>1. desk' = [desk EXCEPT ![p].stage = "close", ![p].fd = "attached", ![p].since = now]
    BY DEF OpenEntry
  <2>2. desk' = [desk EXCEPT ![p] = d]
    BY <1>1, <2>1 DEF Desks
  <2>3. QED
    BY <2>2 DEF OpenEntry
<1> HIDE DEF answer, others
<1>7. /\ e \in Entry /\ e.head = answer /\ e.tail = Null /\ e.shared = (others # {})
      /\ EntrySound(key, e)
  BY <1>5 DEF Entry, EntrySound
<1>8. d \in Desks
  BY <1>1, <1>2 DEF Desks, DeskStages, CallStages
<1>9. /\ d.plan = c.plan /\ d.hit = c.hit /\ d.stage = "close" /\ d.fd = "attached" /\ d.cmd = c.cmd
      /\ d.made = c.made /\ d.mode = c.mode /\ d.limit = c.limit /\ d.spent = c.spent
      /\ d.charge = c.charge /\ d.since = now /\ d.day = c.day
  BY <1>2 DEF Desks
<1>10. KeyOf(d) = key
  BY <1>9 DEF KeyOf
<1> HIDE DEF d, e
<1>11. DeskShape(d) /\ UpToDate(d)
  <2>1. WithinBudget(d) /\ HitSound(d) /\ Affordable(d)
    BY <1>2, <1>3, <1>9 DEF WithinBudget, HitSound, Affordable
  <2>2. QED
    BY <1>2, <1>3, <1>9, <2>1 DEF DeskShape, UpToDate, FileStages
<1> HIDE DEF key
<1>12. /\ desk' \in [Procs -> Desks] /\ \A q \in Procs : desk'[q] = IF q = p THEN d ELSE desk[q]
       /\ cache' \in [Keys -> Entry \union {Null}]
       /\ \A k \in Keys : cache'[k] = IF k = key THEN e ELSE cache[k]
  BY <1>1, <1>4, <1>6, <1>7, <1>8 DEF ResearchTypes
<1>13. ResearchTypes'
  BY <1>1, <1>6, <1>11, <1>12 DEF ResearchTypes
<1>14. ThesesShape'
  BY <1>1, <1>6, <1>11, <1>12 DEF ThesesShape, UpToDate
<1>15. ASSUME NEW q \in Procs, desk'[q].fd = "attached" PROVE WriterSound(q)'
  <2>1. CASE q = p
    <3>1. KeyOf(desk'[q]) = key /\ cache'[key] = e /\ desk'[q].since = now
      BY <1>4, <1>9, <1>10, <1>12, <2>1
    <3>2. TheAnswer(q, desk[q].since)' = answer
      <4>1. TheAnswer(q, desk[q].since)' =
              [key |-> [KeyOf(desk'[q]) EXCEPT !.mode = desk'[q].mode], at |-> desk'[q].since, by |-> q]
        BY DEF TheAnswer
      <4>2. answer = [key |-> [key EXCEPT !.mode = c.mode], at |-> now, by |-> p]
        BY DEF answer, TheAnswer, key
      <4>3. desk'[q].mode = c.mode
        BY <1>9, <1>12, <2>1
      <4>4. QED
        BY <2>1, <3>1, <4>1, <4>2, <4>3
    <3>3. QED
      BY <1>7, <3>1, <3>2 DEF WriterSound
  <2>2. CASE q # p /\ KeyOf(desk[q]) = key
    <3>1. desk'[q] = desk[q] /\ desk[q].fd = "attached"
      BY <1>12, <1>15, <2>2
    <3>2. q \in others
      BY <2>2, <3>1 DEF others, key
    <3>3. e.shared
      BY <1>7, <3>2
    <3>4. cache'[key] = e
      BY <1>4, <1>12
    <3>5. QED
      BY <1>7, <2>2, <3>1, <3>3, <3>4 DEF WriterSound
  <2>3. CASE q # p /\ KeyOf(desk[q]) # key
    <3>1. desk'[q] = desk[q] /\ desk[q].fd = "attached" /\ desk[q] \in Desks /\ DeskShape(desk[q])
      BY <1>1, <1>12, <1>15, <2>3 DEF ResearchTypes
    <3>2. desk[q].plan # <<>>
      BY <3>1 DEF DeskShape, CallStages
    <3>3. cache'[KeyOf(desk[q])] = cache[KeyOf(desk[q])]
      BY <1>12, <2>3, <3>1, <3>2, KeyOfIsKey
    <3>4. WriterSound(q)
      BY <1>1 DEF CacheShape
    <3>5. QED
      BY <3>1, <3>3, <3>4 DEF WriterSound, TheAnswer
  <2>4. QED
    BY <2>1, <2>2, <2>3
<1>16. CacheShape'
  <2>1. \A q \in Procs : WriterSound(q)'
    BY <1>15 DEF WriterSound
  <2>2. \A k \in Keys : cache'[k] # Null => EntrySound(k, cache'[k])
    BY <1>1, <1>7, <1>12 DEF CacheShape
  <2>3. QED
    BY <2>1, <2>2 DEF CacheShape
<1>17. QED
  BY <1>13, <1>14, <1>16 DEF ResearchSound

(* Writing the rest of an answer, if the entry is still there.             *)
LEMMA CloseEntrySound ==
    ASSUME ResearchSound, NEW p \in Procs, CloseEntry(p) PROVE ResearchSound'
<1> DEFINE c == desk[p]
           key == KeyOf(c)
           answer == TheAnswer(p, c.since)
           e == cache[key]
           f == [e EXCEPT !.tail = answer]
           b == [c EXCEPT !.fd = "none"]
           d == Recorded(b, c.charge)
<1>1. ResearchTypes /\ CacheShape /\ ThesesShape /\ desk \in [Procs -> Desks]
  BY DEF ResearchSound, ResearchTypes
<1>2. c \in Desks /\ DeskShape(c) /\ HitSound(c) /\ c.stage = "close"
  BY <1>1, DeskAt DEF CloseEntry, At
<1>3. c.plan # <<>> /\ c.charge \in Charges /\ Affordable(c) /\ c.since \in Days
  BY <1>2 DEF DeskShape, CallStages, Desks
<1>4. key \in Keys
  BY <1>2, <1>3, KeyOfIsKey
<1>5. answer \in Answer /\ answer.key = key
  BY <1>1, <1>3, <1>4, TheAnswerIs
<1>6. Aside(d)
  <2>1. b \in Desks
    BY <1>2 DEF Desks
  <2>2. /\ b.plan = c.plan /\ b.hit = c.hit /\ b.fd = "none" /\ b.cmd = c.cmd
        /\ b.made = c.made /\ b.mode = c.mode /\ b.limit = c.limit /\ b.spent = c.spent
    BY <1>2 DEF Desks
  <2> HIDE DEF b
  <2>3. HitSound(b) /\ Affordable(b) /\ (b.cmd = "create" => b.made \in Ids)
    BY <1>2, <1>3, <2>2 DEF HitSound, Affordable, DeskShape
  <2>4. QED
    BY <1>3, <2>1, <2>2, <2>3, RecordedSound
<1>7. /\ desk' = [desk EXCEPT ![p] = d]
      /\ now' = now /\ theses' = theses /\ launched' = launched
      /\ c.fd # "attached" => cache' = cache
      /\ c.fd = "attached" => cache' = [cache EXCEPT ![key] = f]
  BY <1>1, <1>4 DEF CloseEntry, ResearchTypes
<1> HIDE DEF d
<1>8. CASE c.fd # "attached"
  <2>1. Goes(p, d)
    BY <1>1, <1>7, <1>8 DEF Goes, ResearchTypes
  <2>2. QED
    BY <1>6, <2>1, AsideSound
<1>9. CASE c.fd = "attached"
  <2>1. e \in Entry /\ EntrySound(key, e) /\ (e.head = answer \/ e.shared)
    BY <1>1, <1>9 DEF CacheShape, WriterSound
  <2> HIDE DEF answer, e
  <2>2. f \in Entry /\ f.head = e.head /\ f.tail = answer /\ f.shared = e.shared
    BY <1>5, <2>1 DEF Entry
  <2> HIDE DEF f
  <2>3. EntrySound(key, f)
    BY <1>5, <2>1, <2>2 DEF EntrySound
  <2> HIDE DEF key
  <2>4. /\ desk' \in [Procs -> Desks] /\ \A q \in Procs : desk'[q] = IF q = p THEN d ELSE desk[q]
        /\ cache' \in [Keys -> Entry \union {Null}]
        /\ \A k \in Keys : cache'[k] = IF k = key THEN f ELSE cache[k]
    BY <1>1, <1>4, <1>6, <1>7, <1>9, <2>2 DEF ResearchTypes, Aside, Sound
  <2>5. ResearchTypes'
    BY <1>1, <1>6, <1>7, <2>4 DEF ResearchTypes, Aside, Sound
  <2>6. ThesesShape'
    BY <1>1, <1>6, <1>7, <2>4 DEF ThesesShape, UpToDate, Aside
  <2>7. ASSUME NEW q \in Procs, desk'[q].fd = "attached" PROVE WriterSound(q)'
    <3>1. q # p /\ desk'[q] = desk[q] /\ desk[q].fd = "attached"
      BY <1>6, <2>4, <2>7 DEF Aside
    <3>2. WriterSound(q) /\ desk[q] \in Desks /\ DeskShape(desk[q])
      BY <1>1 DEF CacheShape, ResearchTypes
    <3>3. KeyOf(desk[q]) \in Keys
      <4>1. desk[q].plan # <<>>
        BY <3>1, <3>2 DEF DeskShape, CallStages
      <4>2. QED
        BY <3>2, <4>1, KeyOfIsKey
    <3>4. CASE KeyOf(desk[q]) = key
      <4>1. e.head = TheAnswer(q, desk[q].since) \/ e.shared
        BY <3>1, <3>2, <3>4 DEF WriterSound, e
      <4>2. cache'[key] = f
        BY <1>4, <2>4
      <4>3. f.head = TheAnswer(q, desk[q].since)' \/ f.shared
        BY <2>2, <3>1, <4>1 DEF TheAnswer
      <4>4. QED
        BY <2>2, <2>3, <3>1, <3>4, <4>2, <4>3 DEF WriterSound
    <3>5. CASE KeyOf(desk[q]) # key
      <4>1. cache'[KeyOf(desk[q])] = cache[KeyOf(desk[q])]
        BY <2>4, <3>3, <3>5
      <4>2. QED
        BY <3>1, <3>2, <4>1 DEF WriterSound, TheAnswer
    <3>6. QED
      BY <3>4, <3>5
  <2>8. CacheShape'
    <3>1. \A q \in Procs : WriterSound(q)'
      BY <2>7 DEF WriterSound
    <3>2. \A k \in Keys : cache'[k] # Null => EntrySound(k, cache'[k])
      BY <1>1, <2>3, <2>4 DEF CacheShape
    <3>3. QED
      BY <3>1, <3>2 DEF CacheShape
  <2>9. QED
    BY <2>5, <2>6, <2>8 DEF ResearchSound
<1>10. QED
  BY <1>8, <1>9

-----------------------------------------------------------------------------
(* Research: replacing theses.json.                                        *)

LEMMA Replaced ==
    ASSUME NEW S, NEW s \in Seq(S), NEW i, NEW x, i \in 1..Len(s) => x \in S
    PROVE  [s EXCEPT ![i] = x] \in Seq(S)
<1> DEFINE t == [s EXCEPT ![i] = x]
<1>1. /\ s \in [1..Len(s) -> S] /\ Len(s) \in Nat
  BY LenProperties
<1>2. t \in [1..Len(s) -> S]
  BY <1>1
<1> HIDE DEF t
<1>3. t \in Seq(S)
  BY <1>1, <1>2, SeqDef
<1>4. QED
  BY <1>3 DEF t

LEMMA ChangedIs ==
    ASSUME NEW items \in Seq(Thesis), NEW c, c.cmd = "create" => c.made \in Ids
    PROVE  Changed(items, c) \in Seq(Thesis)
<1>1. /\ DOMAIN items = 1..Len(items) /\ Len(items) \in Nat
      /\ \A i \in 1..Len(items) : items[i] \in Thesis
  BY SeqIndices
<1>2. CASE c.cmd = "create"
  <2> DEFINE t == [id |-> c.made, edited |-> FALSE, status |-> "active"]
  <2>1. t \in Thesis
    BY <1>2 DEF Thesis
  <2>2. Changed(items, c) = Append(items, t)
    BY <1>2 DEF Changed
  <2> HIDE DEF t
  <2>3. QED
    BY <2>1, <2>2, AppendedTo
<1>3. CASE c.cmd # "create"
  <2> DEFINE i == FirstMatch(items, c.target)
             a == [items[i] EXCEPT !.edited = TRUE]
             b == [items[i] EXCEPT !.status = "resolved"]
  <2>1. Changed(items, c) \in {items, [items EXCEPT ![i] = a], [items EXCEPT ![i] = b]}
    BY <1>3 DEF Changed
  <2>2. i \in 1..Len(items) => a \in Thesis /\ b \in Thesis
    BY <1>1 DEF Thesis
  <2> HIDE DEF i, a, b
  <2>3. [items EXCEPT ![i] = a] \in Seq(Thesis) /\ [items EXCEPT ![i] = b] \in Seq(Thesis)
    BY <2>2, Replaced
  <2>4. QED
    BY <2>1, <2>3
<1>4. QED
  BY <1>2, <1>3

LEMMA ReplaceSound ==
    ASSUME ResearchSound, NEW p \in Procs, Replace(p)
    PROVE  /\ ResearchSound'
           /\ ThesesStep
<1> DEFINE c == desk[p]
           items == Changed(c.copy, c)
           over == Over(c, "ok")
           seen(q) == [desk[q] EXCEPT !.overlap = @ \/ desk[q].stage \in {"temp", "replace"}]
<1>1. ResearchTypes /\ CacheShape /\ ThesesShape /\ desk \in [Procs -> Desks]
  BY DEF ResearchSound, ResearchTypes
<1>2. c \in Desks /\ DeskShape(c) /\ WithinBudget(c) /\ c.stage = "replace" /\ UpToDate(c)
  BY <1>1, DeskAt DEF Replace, At, ThesesShape
<1>3. /\ theses' = [whole |-> TRUE, items |-> items]
      /\ desk' = [q \in Procs |-> IF q = p THEN over ELSE seen(q)]
      /\ now' = now /\ cache' = cache /\ launched' = launched
  BY DEF Replace
<1>4. items \in Seq(Thesis)
  <2>1. (c.cmd = "create" => c.made \in Ids) /\ c.copy \in Seq(Thesis)
    BY <1>2 DEF DeskShape, Desks
  <2>2. QED
    BY <2>1, ChangedIs
<1>5. Aside(over) /\ over.end = "ok"
  BY <1>2, OverSound DEF DeskEnds
<1>6. ASSUME NEW q \in Procs
      PROVE  LET d == seen(q) IN
             /\ d \in Desks /\ DeskShape(d)
             /\ d.stage \in {"temp", "replace"} => d.overlap
             /\ d.fd = desk[q].fd /\ KeyOf(d) = KeyOf(desk[q])
             /\ d.mode = desk[q].mode /\ d.since = desk[q].since
  <2> DEFINE a == desk[q]
             d == seen(q)
  <2>1. a \in Desks /\ DeskShape(a)
    BY <1>1 DEF ResearchTypes
  <2> HIDE DEF a
  <2>2. PICK o \in BOOLEAN : o = (a.overlap \/ a.stage \in {"temp", "replace"})
    OBVIOUS
  <2>3. d = [a EXCEPT !.overlap = o]
    BY <2>2 DEF a
  <2> HIDE DEF d
  <2>4. d \in Desks
    BY <2>1, <2>3 DEF Desks
  <2>5. /\ d.plan = a.plan /\ d.hit = a.hit /\ d.stage = a.stage /\ d.fd = a.fd /\ d.cmd = a.cmd
        /\ d.made = a.made /\ d.mode = a.mode /\ d.limit = a.limit /\ d.spent = a.spent
        /\ d.charge = a.charge /\ d.left = a.left /\ d.overlap = o /\ d.day = a.day
        /\ d.since = a.since
    BY <2>1, <2>3 DEF Desks
  <2>6. WithinBudget(d) /\ HitSound(d) /\ (Affordable(a) => Affordable(d)) /\ KeyOf(d) = KeyOf(a)
    BY <2>1, <2>5 DEF DeskShape, WithinBudget, HitSound, Affordable, KeyOf
  <2>7. DeskShape(d)
    BY <2>1, <2>5, <2>6 DEF DeskShape
  <2>8. QED
    BY <2>2, <2>4, <2>5, <2>6, <2>7 DEF a, d
<1> HIDE DEF items, over, seen
<1>7. /\ desk' \in [Procs -> Desks]
      /\ \A q \in Procs : DeskShape(desk'[q]) /\ (desk'[q].stage \in {"temp", "replace"} => desk'[q].overlap)
      /\ desk'[p] = over
  BY <1>3, <1>5, <1>6 DEF Aside, Sound
<1>8. theses' \in [whole : BOOLEAN, items : Seq(Thesis)] /\ theses'.whole = TRUE /\ theses'.items = items
  BY <1>3, <1>4
<1>9. ResearchTypes'
  BY <1>1, <1>3, <1>7, <1>8 DEF ResearchTypes
<1>10. ThesesShape'
  BY <1>7, <1>8 DEF ThesesShape, UpToDate
<1>11. ASSUME NEW q \in Procs, desk'[q].fd = "attached" PROVE WriterSound(q)'
  <2>1. q # p /\ desk'[q] = seen(q)
    BY <1>3, <1>5, <1>11 DEF Aside
  <2>2. /\ desk[q].fd = "attached" /\ KeyOf(desk'[q]) = KeyOf(desk[q])
        /\ desk'[q].mode = desk[q].mode /\ desk'[q].since = desk[q].since
    BY <1>6, <1>11, <2>1
  <2>3. WriterSound(q)
    BY <1>1 DEF CacheShape
  <2>4. QED
    BY <1>3, <2>2, <2>3 DEF WriterSound, TheAnswer
<1>12. CacheShape'
  <2>1. \A q \in Procs : WriterSound(q)'
    BY <1>11 DEF WriterSound
  <2>2. QED
    BY <1>1, <1>3, <2>1 DEF CacheShape
<1>13. ThesesStep
  <2>1. At(p, "replace") /\ desk'[p].end = "ok"
    BY <1>2, <1>5, <1>7 DEF At
  <2>2. ~c.overlap => theses'.items = Changed(theses.items, c)
    BY <1>2, <1>8 DEF UpToDate, items
  <2>3. QED
    BY <1>8, <2>1, <2>2 DEF ThesesStep
<1>14. QED
  BY <1>9, <1>10, <1>12, <1>13 DEF ResearchSound

-----------------------------------------------------------------------------
(* Research: the theorems.                                                 *)

LEMMA ResearchSoundInit == ResearchInit => ResearchSound
<1> SUFFICES ASSUME ResearchInit PROVE ResearchSound
  OBVIOUS
<1>1. /\ now = 0 /\ cache = [k \in Keys |-> Null] /\ theses = [whole |-> TRUE, items |-> StartTheses]
      /\ desk = [p \in Procs |-> Off] /\ launched = 0
  BY DEF ResearchInit
<1>2. Off \in Desks /\ DeskShape(Off)
  BY OffSound DEF Sound
<1>3. Off.fd = "none" /\ Off.stage = "off"
  BY DEF Off
<1>4. ResearchTypes
  BY <1>1, <1>2, DeskConstants DEF ResearchTypes
<1>5. CacheShape
  BY <1>1, <1>3 DEF CacheShape, WriterSound
<1>6. ThesesShape
  BY <1>1, <1>3 DEF ThesesShape, UpToDate
<1>7. QED
  BY <1>4, <1>5, <1>6 DEF ResearchSound

(* A step on theses.json is its replacement by one command.                *)
LEMMA ResearchStep ==
    ASSUME ResearchSound, ResearchNext
    PROVE  ResearchSound' /\ ThesesStep
<1>1. theses.whole = TRUE
  BY DEF ResearchSound, ThesesShape
<1>2. CASE Tick
  BY <1>1, <1>2, TickSound DEF ThesesStep, Tick
<1>3. ASSUME NEW p \in Procs,
             \/ BeginContext(p) \/ BeginTopic(p) \/ BeginCreate(p) \/ BeginSuggest(p)
             \/ BeginInvalidation(p) \/ BeginClear(p) \/ BeginChange(p)
      PROVE  ResearchSound' /\ theses' = theses
  <2>1. ResearchSound'
    BY <1>3, BeginContextSound, BeginTopicSound, BeginCreateSound, BeginSuggestSound,
       BeginInvalidationSound, BeginClearSound, BeginChangeSound
  <2>2. theses' = theses
    BY <1>3 DEF BeginContext, BeginTopic, BeginCreate, BeginSuggest, BeginInvalidation, BeginClear,
                BeginChange, Launch
  <2>3. QED
    BY <2>1, <2>2
<1>4. ASSUME NEW p \in Procs, FindThesis(p) \/ Short(p) \/ Refused(p) \/ Answered(p)
      PROVE  ResearchSound' /\ theses' = theses
  <2>1. ResearchSound'
    BY <1>4, FindThesisSound, ShortSound, RefusedSound, AnsweredSound
  <2>2. theses' = theses
    BY <1>4 DEF FindThesis, Short, Refused, Answered, Step
  <2>3. QED
    BY <2>1, <2>2
<1>5. ASSUME NEW p \in Procs,
             \/ ReadEntry(p) \/ EvictEntry(p) \/ OpenEntry(p) \/ CloseEntry(p) \/ Judge(p) \/ Unlink(p)
      PROVE  ResearchSound' /\ theses' = theses
  <2>1. ResearchSound'
    BY <1>5, ReadEntrySound, EvictEntrySound, OpenEntrySound, CloseEntrySound, JudgeSound, UnlinkSound
  <2>2. theses' = theses
    BY <1>5 DEF ReadEntry, EvictEntry, OpenEntry, CloseEntry, Judge, Unlink, Step
  <2>3. QED
    BY <2>1, <2>2
<1>6. ASSUME NEW p \in Procs, LoadTheses(p) \/ WriteTemp(p) \/ Abort(p)
      PROVE  ResearchSound' /\ theses' = theses
  <2>1. ResearchSound'
    BY <1>6, LoadThesesSound, WriteTempSound, AbortSound
  <2>2. theses' = theses
    BY <1>6 DEF LoadTheses, WriteTemp, Abort, Step
  <2>3. QED
    BY <2>1, <2>2
<1>7. ASSUME NEW p \in Procs, Replace(p) PROVE ResearchSound' /\ ThesesStep
  BY <1>7, ReplaceSound
<1>8. theses' = theses => ThesesStep
  BY <1>1 DEF ThesesStep
<1>9. QED
  BY <1>2, <1>3, <1>4, <1>5, <1>6, <1>7, <1>8 DEF ResearchNext

LEMMA ResearchStutters == ASSUME ResearchSound, UNCHANGED research PROVE ResearchSound'
<1>1. ResearchTypes' /\ ThesesShape'
  BY DEF research, ResearchSound, ResearchTypes, ThesesShape, UpToDate
<1>2. CacheShape'
  BY DEF research, ResearchSound, CacheShape, WriterSound, TheAnswer
<1>3. QED
  BY <1>1, <1>2 DEF ResearchSound

LEMMA ResearchInvariant == ResearchSpec => []ResearchSound
<1>1. ResearchInit => ResearchSound
  BY ResearchSoundInit
<1>2. ResearchSound /\ [ResearchNext]_research => ResearchSound'
  BY ResearchStep, ResearchStutters
<1>3. QED
  BY <1>1, <1>2, PTL DEF ResearchSpec

(* theses.json is always whole, and a command changes in it only what it   *)
(* was asked to, unless another one replaced the file in between: what     *)
(* ThesisManager saves is what it loaded.                                  *)
THEOREM NoThesisIsLost == ResearchSpec => ThesesKept
<1>1. ResearchInit => ResearchSound
  BY ResearchSoundInit
<1>2. ResearchSound /\ [ResearchNext]_research => ResearchSound' /\ [ThesesStep]_research
  BY ResearchStep, ResearchStutters
<1>3. QED
  BY <1>1, <1>2, PTL DEF ResearchSpec, ThesesKept

(* Both at once: no step of any command loses what is in a file.           *)
THEOREM NothingIsLost == FilesSpec => FilesKept
  BY NoThesisIsLost, NoAlertIsLost DEF FilesSpec, FilesKept

(* No command exceeds its budget by more than a call's cost exceeded its   *)
(* estimate: ExaBudget.can_spend is asked before every call, and what was  *)
(* spent is recorded before the next.                                      *)
THEOREM BudgetsHold == ResearchSpec => []SpendBounded
<1>1. ResearchSound => SpendBounded
  BY DEF ResearchSound, ResearchTypes, DeskShape, WithinBudget, SpendBounded
<1>2. QED
  BY <1>1, ResearchInvariant, PTL

(* What ExaCache returns answers the question asked, in its mode and for   *)
(* its day, and had not expired; only entries two processes wrote to at    *)
(* once hold parts of two answers.                                         *)
THEOREM CacheIsSound == ResearchSpec => []CacheSound
<1>1. ResearchSound => CacheSound
  <2> SUFFICES ASSUME ResearchSound PROVE CacheSound
    OBVIOUS
  <2>1. ResearchTypeOK
    <3>1. theses.items \in Seq(Thesis) /\ theses.whole \in BOOLEAN
      BY DEF ResearchSound, ResearchTypes
    <3>2. \A i \in DOMAIN theses.items : theses.items[i] \in Thesis
      BY <3>1, SeqIndices
    <3>3. QED
      BY <3>1, <3>2 DEF ResearchSound, ResearchTypes, ResearchTypeOK
  <2>2. \A k \in Keys : cache[k] # Null /\ cache[k].tail # Null =>
          /\ cache[k].head.key = k /\ cache[k].tail.key = k
          /\ cache[k].head # cache[k].tail => cache[k].shared
    BY DEF ResearchSound, CacheShape, EntrySound
  <2>3. \A p \in Procs : HitSound(desk[p])
    BY DEF ResearchSound, ResearchTypes, DeskShape
  <2>4. QED
    BY <2>1, <2>2, <2>3 DEF CacheSound, HitSound
<1>2. QED
  BY <1>1, ResearchInvariant, PTL
====
