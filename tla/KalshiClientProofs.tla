-------------------------- MODULE KalshiClientProofs --------------------------
(***************************************************************************)
(* What a request goes through, what the streaming client promises, and    *)
(* what the scripts say that record the exchange's answers.  A request     *)
(* takes tokens from the bucket, then it is sent and sent again.           *)
(*                                                                         *)
(* For every set of callers, bucket size and set of costs: the token       *)
(* bucket's type invariant, the exact account of the tokens it hands out,  *)
(* and the bound that follows from it.  For any calls, endpoints and       *)
(* number of attempts, on a network that delays and loses copies for ever: *)
(* repeating a request is harmless, what a call returns is true, and the   *)
(* retry loop implements OrderSubmission.  For any finite set of           *)
(* subscribing tasks and any number of connections, drops and attempts:    *)
(* the connection that is read carries every tracked subscription, and     *)
(* besides it only as many connections stay open as reconnects were        *)
(* disturbed by a concurrent subscribe().  For any command lines,          *)
(* credentials and fields, and answers to every request in turn: what a    *)
(* recorder leaves at the exchange has a failure to explain it, it writes  *)
(* only what it was asked to, and a green check can be relied on.          *)
(***************************************************************************)
EXTENDS TokenBucket, OrderClient, KalshiWebSocket, GoldenFixtures, SequenceTheorems, FiniteSetTheorems,
    WellFoundedInduction, TLAPS


(* While nobody sleeps the time slept so far has passed; while somebody    *)
(* sleeps it had passed before the sleep began, which is when lastUpdate   *)
(* was written, and the sleep lasts exactly the deficit.                   *)
SleepAccount ==
    /\ lastUpdate <= now
    /\ holder = NoOne => slept <= now
    /\ holder # NoOne =>
          /\ slept <= lastUpdate
          /\ holder \in Callers
          /\ tokens < cost[holder]
          /\ wakeAt = lastUpdate + (cost[holder] - tokens)

(* The inductive invariant: what the theorems need of the state.           *)
BucketInv == BucketTypeOK /\ LockDiscipline /\ SleepAccount /\ ExactAccount

-----------------------------------------------------------------------------
(* A refill leaves a whole number of tokens between what was there and the *)
(* size of the bucket, and never credits more than the time that passed.   *)
LEMMA RefilledBounds ==
    ASSUME BucketTypeOK, lastUpdate <= now
    PROVE  /\ Refilled \in 0..MaxTokens
           /\ Refilled <= tokens + (now - lastUpdate)
  BY BucketAssumption DEF BucketTypeOK, Refilled

(* What asyncio.Lock's queue looks like after the first waiter left it ...  *)
LEMMA TailFacts ==
    ASSUME NEW q \in Seq(Callers), q # <<>>
    PROVE  /\ Head(q) = q[1]
           /\ Len(q) \in Nat \ {0}
           /\ Tail(q) \in Seq(Callers)
           /\ Len(Tail(q)) = Len(q) - 1
           /\ \A i \in 1..Len(Tail(q)) : Tail(q)[i] = q[i + 1]
  BY HeadTailProperties, LenProperties, EmptySeq

(* ... and after the i-th one was cancelled.                               *)
LEMMA RemoveAtFacts ==
    ASSUME NEW q \in Seq(Callers), NEW i \in 1..Len(q)
    PROVE  /\ RemoveAt(q, i) \in Seq(Callers)
           /\ Len(RemoveAt(q, i)) = Len(q) - 1
           /\ \A j \in 1..(Len(q) - 1) :
                 RemoveAt(q, i)[j] = IF j < i THEN q[j] ELSE q[j + 1]
<1> DEFINE front == SubSeq(q, 1, i - 1)
           back  == SubSeq(q, i + 1, Len(q))
<1>1. Len(q) \in Nat
  BY LenProperties
<1>2. /\ front \in Seq(Callers)
      /\ Len(front) = i - 1
      /\ \A j \in 1..(i - 1) : front[j] = q[j]
  BY <1>1, SubSeqProperties
<1>3. /\ back \in Seq(Callers)
      /\ Len(back) = Len(q) - i
      /\ \A j \in 1..(Len(q) - i) : back[j] = q[i + j]
  BY <1>1, SubSeqProperties
<1>4. RemoveAt(q, i) = front \o back
  BY DEF RemoveAt
<1> HIDE DEF front, back
<1>5. /\ front \o back \in Seq(Callers)
      /\ Len(front \o back) = Len(front) + Len(back)
      /\ \A j \in 1..(Len(front) + Len(back)) :
            (front \o back)[j] = IF j <= Len(front) THEN front[j] ELSE back[j - Len(front)]
  BY <1>2, <1>3, ConcatProperties
<1>0. Len(front) + Len(back) = Len(q) - 1
  BY <1>1, <1>2, <1>3
<1>6. \A j \in 1..(Len(q) - 1) :
         (front \o back)[j] = IF j < i THEN q[j] ELSE q[j + 1]
  <2> TAKE j \in 1..(Len(q) - 1)
  <2>1. CASE j < i
    <3>1. j <= Len(front) /\ j \in 1..(i - 1)
      BY <2>1, <1>1, <1>2
    <3>2. QED
      BY <3>1, <2>1, <1>2, <1>5, <1>0
  <2>2. CASE j >= i
    <3>1. j - (i - 1) \in 1..(Len(q) - i) /\ i + (j - (i - 1)) = j + 1
      BY <2>2, <1>1
    <3>2. back[j - (i - 1)] = q[j + 1]
      BY <3>1, <1>3
    <3>3. ~(j <= Len(front)) /\ Len(front) = i - 1
      BY <2>2, <1>1, <1>2
    <3>4. ~(j < i)
      BY <2>2, <1>1
    <3>5. QED
      BY <3>2, <3>3, <3>4, <1>5, <1>0
  <2>3. j < i \/ j >= i
    BY <1>1
  <2>4. QED
    BY <2>1, <2>2, <2>3
<1>7. QED
  BY <1>4, <1>5, <1>6, <1>0

-----------------------------------------------------------------------------
LEMMA CostIsNatural ==
    ASSUME BucketTypeOK, NEW c \in Callers
    PROVE  cost[c] \in Nat
<1>1. cost[c] \in {0} \cup Costs
  BY Zenon DEF BucketTypeOK
<1>2. Costs \subseteq Nat
  BY BucketAssumption, Zenon
<1>3. 0 \in Nat
  OBVIOUS
<1>4. QED
  BY <1>1, <1>2, <1>3, Zenon

LEMMA InitBucketInv == BucketInit => BucketInv
  BY BucketAssumption, EmptySeq
  DEF BucketInit, BucketInv, BucketTypeOK, LockDiscipline, SleepAccount, ExactAccount

LEMMA RequestIInv ==
    ASSUME BucketInv, NEW c \in Callers, NEW n \in Costs, Request(c, n)
    PROVE  BucketInv'
<1> USE BucketAssumption DEF BucketInv
<1>1. /\ queue' \in Seq(Callers)
      /\ Len(queue) \in Nat
      /\ Len(queue') = Len(queue) + 1
      /\ \A i \in 1..Len(queue) : queue'[i] = queue[i]
      /\ queue'[Len(queue) + 1] = c
  BY AppendProperties, LenProperties DEF BucketTypeOK, Request
<1>2. /\ cost'[c] = n
      /\ \A d \in Callers : d # c => cost'[d] = cost[d]
  BY DEF BucketTypeOK, Request
<1>3. /\ holder # c
      /\ \A i \in 1..Len(queue) : queue[i] # c /\ queue[i] \in Callers
  BY <1>1 DEF BucketTypeOK, LockDiscipline, Request
<1>4. BucketTypeOK'
  BY <1>1 DEF BucketTypeOK, Request
<1>5. LockDiscipline'
  BY <1>1, <1>2, <1>3 DEF BucketTypeOK, LockDiscipline, Request
<1>6. SleepAccount'
  BY <1>2, <1>3 DEF BucketTypeOK, SleepAccount, Request
<1>7. ExactAccount'
  BY DEF ExactAccount, Request
<1>8. QED
  BY <1>4, <1>5, <1>6, <1>7

(* Leaving the head of the queue: whoever takes the lock.                  *)
LEMMA TakeLockFacts ==
    ASSUME BucketInv, NEW c \in Callers, TakeLock(c)
    PROVE  /\ queue' \in Seq(Callers)
           /\ Len(queue) \in Nat \ {0}
           /\ Len(queue') = Len(queue) - 1
           /\ \A i \in 1..Len(queue') : queue'[i] \in Callers \ {c} /\ cost[queue'[i]] # 0
           /\ \A i, j \in 1..Len(queue') : queue'[i] = queue'[j] => i = j
           /\ \A d \in Callers : (cost[d] # 0 /\ d # c) => \E i \in 1..Len(queue') : queue'[i] = d
           /\ Refilled \in 0..MaxTokens
           /\ Refilled <= tokens + (now - lastUpdate)
           /\ cost[c] \in Nat \ {0}
<1> USE BucketAssumption DEF BucketInv
<1>1. /\ queue' = Tail(queue)
      /\ c = Head(queue)
      /\ queue # <<>>
      /\ queue \in Seq(Callers)
      /\ holder = NoOne
  BY DEF TakeLock, BucketTypeOK
<1>2. /\ queue' \in Seq(Callers)
      /\ Len(queue) \in Nat \ {0}
      /\ Len(queue') = Len(queue) - 1
      /\ \A i \in 1..Len(queue') : queue'[i] = queue[i + 1]
      /\ queue[1] = c
  BY <1>1, TailFacts
<1>3. /\ \A i \in 1..Len(queue') : i + 1 \in 1..Len(queue) /\ 1 \in 1..Len(queue) /\ i + 1 # 1
      /\ \A i \in 1..Len(queue) : queue[i] \in Callers /\ cost[queue[i]] # 0
      /\ \A i, j \in 1..Len(queue) : queue[i] = queue[j] => i = j
  BY <1>1, <1>2 DEF LockDiscipline
<1>0. \A i \in 1..Len(queue') : queue'[i] \in Callers \ {c} /\ cost[queue'[i]] # 0
  BY <1>2, <1>3
<1>b. \A i, j \in 1..Len(queue') : queue'[i] = queue'[j] => i = j
  BY <1>2, <1>3
<1>4. ASSUME NEW d \in Callers, cost[d] # 0, d # c
      PROVE  \E i \in 1..Len(queue') : queue'[i] = d
  <2>1. PICK j \in 1..Len(queue) : queue[j] = d
    BY <1>1, <1>4 DEF LockDiscipline
  <2>2. j - 1 \in 1..Len(queue') /\ (j - 1) + 1 = j
    BY <2>1, <1>2, <1>4
  <2>3. QED
    BY <2>1, <2>2, <1>2
<1>5. Refilled \in 0..MaxTokens /\ Refilled <= tokens + (now - lastUpdate)
  BY RefilledBounds DEF SleepAccount
<1>6. cost[c] \in Nat \ {0}
  <2>1. 1 \in 1..Len(queue)
    BY <1>2
  <2>2. cost[c] # 0
    BY <2>1, <1>2, <1>3
  <2>3. QED
    BY <2>2 DEF BucketTypeOK
<1>7. QED
  BY <1>2, <1>4, <1>5, <1>6, <1>0, <1>b

LEMMA AcquireNowIInv ==
    ASSUME BucketInv, NEW c \in Callers, AcquireNow(c)
    PROVE  BucketInv'
<1> USE BucketAssumption DEF BucketInv
<1>1. TakeLock(c)
  BY DEF AcquireNow
<1>2. /\ cost'[c] = 0
      /\ \A d \in Callers : d # c => cost'[d] = cost[d]
  BY DEF BucketTypeOK, AcquireNow
<1>3. BucketTypeOK'
  BY <1>1, TakeLockFacts, SMTT(40) DEF BucketTypeOK, AcquireNow, TakeLock
<1>4. LockDiscipline'
  <2>1. \A i \in 1..Len(queue') : queue'[i] \in Callers /\ cost'[queue'[i]] # 0
    BY <1>1, <1>2, TakeLockFacts
  <2>2. \A i, j \in 1..Len(queue') : queue'[i] = queue'[j] => i = j
    BY <1>1, TakeLockFacts
  <2>3. \A d \in Callers : cost'[d] # 0 => \E i \in 1..Len(queue') : queue'[i] = d
    BY <1>1, <1>2, TakeLockFacts
  <2>4. QED
    BY <2>1, <2>2, <2>3 DEF LockDiscipline, AcquireNow, TakeLock
<1>5. SleepAccount'
  BY <1>1 DEF BucketTypeOK, SleepAccount, AcquireNow, TakeLock
<1>6. ExactAccount'
  BY <1>1, TakeLockFacts, SMTT(40) DEF BucketTypeOK, ExactAccount, AcquireNow, TakeLock
<1>7. QED
  BY <1>3, <1>4, <1>5, <1>6

LEMMA StartSleepIInv ==
    ASSUME BucketInv, NEW c \in Callers, StartSleep(c)
    PROVE  BucketInv'
<1> USE BucketAssumption DEF BucketInv
<1>1. TakeLock(c)
  BY DEF StartSleep
<1>2. BucketTypeOK'
  BY <1>1, TakeLockFacts DEF BucketTypeOK, StartSleep, TakeLock
<1>3. LockDiscipline'
  <2>1. \A i \in 1..Len(queue') : cost'[queue'[i]] # 0
    BY <1>1, TakeLockFacts DEF StartSleep
  <2>2. \A i, j \in 1..Len(queue') : queue'[i] = queue'[j] => i = j
    BY <1>1, TakeLockFacts
  <2>3. \A d \in Callers : cost'[d] # 0 => d = c \/ \E i \in 1..Len(queue') : queue'[i] = d
    BY <1>1, TakeLockFacts DEF StartSleep
  <2>4. cost'[c] # 0 /\ \A i \in 1..Len(queue') : queue'[i] # c
    BY <1>1, TakeLockFacts DEF StartSleep
  <2>5. QED
    BY <2>1, <2>2, <2>3, <2>4 DEF LockDiscipline, StartSleep
<1>4. SleepAccount'
  BY <1>1, TakeLockFacts DEF BucketTypeOK, SleepAccount, StartSleep, TakeLock
<1>5. ExactAccount'
  BY <1>1, TakeLockFacts DEF BucketTypeOK, ExactAccount, StartSleep, TakeLock
<1>6. QED
  BY <1>2, <1>3, <1>4, <1>5

(* Giving up the lock: the holder is not queued, so all others still are.  *)
LEMMA ReleaseFacts ==
    ASSUME BucketInv, NEW c \in Callers, holder = c, holder' = NoOne,
           queue' = queue, cost' = [cost EXCEPT ![c] = 0]
    PROVE  LockDiscipline'
<1> USE BucketAssumption DEF BucketInv
<1>1. \A i \in 1..Len(queue) : queue[i] \in Callers /\ queue[i] # c
  BY DEF BucketTypeOK, LockDiscipline
<1>2. /\ cost'[c] = 0
      /\ \A d \in Callers : d # c => cost'[d] = cost[d]
  BY DEF BucketTypeOK
<1>3. QED
  BY <1>1, <1>2 DEF LockDiscipline

(* The one step that pays twice: the account grows by the sleep's length.  *)
LEMMA WakeIInv ==
    ASSUME BucketInv, NEW c \in Callers, Wake(c)
    PROVE  BucketInv'
<1> USE BucketAssumption DEF BucketInv
<1>0. cost[c] \in Nat /\ tokens \in Nat /\ lastUpdate \in Nat
  BY CostIsNatural DEF BucketTypeOK
<1>b. holder = c /\ holder # NoOne
  BY DEF Wake
<1>1. /\ cost[c] \in Nat
      /\ wakeAt - lastUpdate = cost[c] - tokens
      /\ cost[c] - tokens \in Nat
      /\ slept <= lastUpdate
  <2>1. slept <= lastUpdate /\ tokens < cost[c] /\ wakeAt = lastUpdate + (cost[c] - tokens)
    BY <1>b DEF SleepAccount
  <2>2. QED
    BY <1>0, <2>1
<1>2. BucketTypeOK'
  BY <1>1 DEF BucketTypeOK, Wake
<1>3. LockDiscipline'
  BY ReleaseFacts DEF Wake
<1>4. SleepAccount'
  BY <1>1 DEF BucketTypeOK, SleepAccount, Wake
<1>5. ExactAccount'
  BY <1>1 DEF BucketTypeOK, ExactAccount, Wake
<1>6. QED
  BY <1>2, <1>3, <1>4, <1>5

LEMMA CancelQueuedIInv ==
    ASSUME BucketInv, NEW c \in Callers, CancelQueued(c)
    PROVE  BucketInv'
<1> USE BucketAssumption DEF BucketInv
<1>1. PICK i \in 1..Len(queue) : queue[i] = c /\ queue' = RemoveAt(queue, i)
  BY DEF CancelQueued
<1>2. /\ queue \in Seq(Callers)
      /\ Len(queue) \in Nat
      /\ \A j \in 1..Len(queue) : queue[j] \in Callers
  BY LenProperties DEF BucketTypeOK
<1>3. /\ queue' \in Seq(Callers)
      /\ Len(queue') = Len(queue) - 1
      /\ \A j \in 1..Len(queue') :
            queue'[j] = IF j < i THEN queue[j] ELSE queue[j + 1]
  BY <1>1, <1>2, RemoveAtFacts
<1>4. /\ cost'[c] = 0
      /\ \A d \in Callers : d # c => cost'[d] = cost[d]
      /\ holder' = holder /\ holder # c
  BY <1>1 DEF BucketTypeOK, LockDiscipline, CancelQueued
<1>5. BucketTypeOK'
  BY <1>3 DEF BucketTypeOK, CancelQueued
<1>6. LockDiscipline'
  <2>1. ASSUME NEW j \in 1..Len(queue')
        PROVE  queue'[j] # c /\ \E k \in 1..Len(queue) : queue'[j] = queue[k]
    <3>1. PICK k \in 1..Len(queue) : k # i /\ queue'[j] = queue[k]
      <4>1. CASE j < i
        BY <1>2, <1>3, <4>1
      <4>2. CASE ~(j < i)
        <5>1. j + 1 \in 1..Len(queue) /\ j + 1 # i /\ queue'[j] = queue[j + 1]
          BY <1>2, <1>3, <4>2
        <5>2. QED
          BY <5>1
      <4>3. QED
        BY <4>1, <4>2
    <3>2. \A x, y \in 1..Len(queue) : queue[x] = queue[y] => x = y
      BY DEF LockDiscipline
    <3>3. QED
      BY <1>1, <3>1, <3>2
  <2>2. \A j, k \in 1..Len(queue') : queue'[j] = queue'[k] => j = k
    <3> DEFINE was(j) == IF j < i THEN j ELSE j + 1
    <3>1. \A j \in 1..Len(queue') : was(j) \in 1..Len(queue) /\ queue'[j] = queue[was(j)]
      BY <1>2, <1>3
    <3>2. \A j, k \in 1..Len(queue') : was(j) = was(k) => j = k
      BY <1>2, <1>3
    <3> HIDE DEF was
    <3>3. QED
      BY <3>1, <3>2 DEF LockDiscipline
  <2>3. ASSUME NEW d \in Callers, cost'[d] # 0, holder # d
        PROVE  \E j \in 1..Len(queue') : queue'[j] = d
    <3>1. PICK k \in 1..Len(queue) : queue[k] = d
      BY <1>4, <2>3 DEF LockDiscipline
    <3>2. k # i
      BY <3>1, <2>3, <1>1, <1>4
    <3>3. CASE k < i
      BY <3>1, <3>3, <1>2, <1>3
    <3>4. CASE k > i
      <4>1. k - 1 \in 1..Len(queue') /\ ~(k - 1 < i) /\ (k - 1) + 1 = k
        BY <3>4, <1>2, <1>3
      <4>2. QED
        BY <4>1, <3>1, <1>3
    <3>5. QED
      BY <3>2, <3>3, <3>4, <1>2
  <2>4. holder # NoOne => cost'[holder] # 0 /\ \A j \in 1..Len(queue') : queue'[j] # holder
    BY <1>4, <2>1 DEF LockDiscipline, BucketTypeOK
  <2>5. \A j \in 1..Len(queue') : cost'[queue'[j]] # 0
    BY <1>2, <1>4, <2>1 DEF LockDiscipline
  <2>6. QED
    BY <1>4, <2>2, <2>3, <2>4, <2>5 DEF LockDiscipline
<1>7. SleepAccount'
  BY <1>4 DEF BucketTypeOK, SleepAccount, CancelQueued
<1>8. ExactAccount'
  BY DEF ExactAccount, CancelQueued
<1>9. QED
  BY <1>5, <1>6, <1>7, <1>8

LEMMA CancelAsleepIInv ==
    ASSUME BucketInv, NEW c \in Callers, CancelAsleep(c)
    PROVE  BucketInv'
<1> USE BucketAssumption DEF BucketInv
<1>1. BucketTypeOK'
  BY DEF BucketTypeOK, CancelAsleep
<1>2. LockDiscipline'
  BY ReleaseFacts DEF CancelAsleep
<1>3. SleepAccount'
  BY DEF BucketTypeOK, SleepAccount, CancelAsleep
<1>4. ExactAccount'
  BY DEF ExactAccount, CancelAsleep
<1>5. QED
  BY <1>1, <1>2, <1>3, <1>4

LEMMA TickIInv == BucketInv /\ Tick => BucketInv'
  BY DEF BucketInv, BucketTypeOK, LockDiscipline, SleepAccount, ExactAccount, Tick

LEMMA StutterIInv == BucketInv /\ UNCHANGED bucket => BucketInv'
  BY DEF BucketInv, BucketTypeOK, LockDiscipline, SleepAccount, ExactAccount, bucket

-----------------------------------------------------------------------------
(* The invariant is inductive: one case per action.                        *)
LEMMA BucketInductive == BucketSpec => []BucketInv
<1>1. BucketInv /\ [BucketNext]_bucket => BucketInv'
  <2> SUFFICES ASSUME BucketInv, [BucketNext]_bucket
               PROVE  BucketInv'
    OBVIOUS
  <2>1. CASE Tick
    BY <2>1, TickIInv
  <2>2. ASSUME NEW c \in Callers, NEW n \in Costs, Request(c, n)
        PROVE  BucketInv'
    BY <2>2, RequestIInv
  <2>3. ASSUME NEW c \in Callers, AcquireNow(c)
        PROVE  BucketInv'
    BY <2>3, AcquireNowIInv
  <2>4. ASSUME NEW c \in Callers, StartSleep(c)
        PROVE  BucketInv'
    BY <2>4, StartSleepIInv
  <2>5. ASSUME NEW c \in Callers, Wake(c)
        PROVE  BucketInv'
    BY <2>5, WakeIInv
  <2>6. ASSUME NEW c \in Callers, CancelQueued(c)
        PROVE  BucketInv'
    BY <2>6, CancelQueuedIInv
  <2>7. ASSUME NEW c \in Callers, CancelAsleep(c)
        PROVE  BucketInv'
    BY <2>7, CancelAsleepIInv
  <2>8. CASE UNCHANGED bucket
    BY <2>8, StutterIInv
  <2>9. QED
    BY <2>1, <2>2, <2>3, <2>4, <2>5, <2>6, <2>7, <2>8 DEF BucketNext
<1>2. QED
  BY InitBucketInv, <1>1, PTL DEF BucketSpec

(* The state of the bucket keeps its type: in particular the bucket is     *)
(* never overdrawn and never holds more than its size.                     *)
THEOREM BucketTypeCorrect == BucketSpec => []BucketTypeOK
  BY BucketInductive, PTL DEF BucketInv

(* Everybody waiting for tokens is in exactly one place, whatever is       *)
(* cancelled when (the asyncio.Lock protocol of acquire).                  *)
THEOREM LockDisciplineHolds == BucketSpec => []LockDiscipline
  BY BucketInductive, PTL DEF BucketInv

(* The exact account of the tokens handed out.                             *)
THEOREM ExactAccountHolds == BucketSpec => []ExactAccount
  BY BucketInductive, PTL DEF BucketInv

(* The three together: types, account and lock, as one invariant of        *)
(* acquire().                                                              *)
THEOREM BucketIsSound == BucketSpec => []BucketSound
<1>1. BucketTypeOK /\ ExactAccount /\ LockDiscipline => BucketSound
  BY DEF BucketSound
<1>2. QED
  BY BucketTypeCorrect, ExactAccountHolds, LockDisciplineHolds, <1>1, PTL

(* From the exact account and "time slept has passed": acquire() never     *)
(* hands out more than the burst plus twice the rate.                      *)
THEOREM TwiceRateBoundHolds == BucketSpec => []TwiceRateBound
<1>1. BucketInv => TwiceRateBound
  BY BucketAssumption DEF BucketInv, BucketTypeOK, SleepAccount, ExactAccount, TwiceRateBound
<1>2. QED
  BY BucketInductive, <1>1, PTL

-----------------------------------------------------------------------------
(* The copies of a request on their way, and how often the exchange carried *)
(* it out or still may.                                                     *)
Copies(r) == {n \in Attempts : <<r, n>> \in net}
Promised(r) == applied[r] + Cardinality(Copies(r))

(* Nothing was sent.                                                        *)
Unsent(r) == pc[r] \in {"idle", "acquire"} \/ outcome[r] \in {"invalid", "simulated"}

(* The last attempt is accounted for: it timed out, or the exchange said    *)
(* that it did nothing.                                                     *)
Settled(r) ==
    \/ pc[r] = "backoff"
    \/ pc[r] = "sent" /\ reply[r] \in {"throttled", "refused"}
    \/ outcome[r] = "error" /\ reply[r] # "broken"

(* The account of attempts: every one but the last was answered with 429 or *)
(* is counted as unanswered.                                                *)
AttemptsCounted(r) ==
    /\ Unsent(r) => attempt[r] = 0 /\ applied[r] = 0 /\ Copies(r) = {} /\ reply[r] = "none"
    /\ pc[r] = "backoff" => attempt[r] < MaxRetries
    /\ pc[r] = "sent" => unanswered[r] < attempt[r]
    /\ unanswered[r] <= attempt[r]
    /\ \A n \in Copies(r) : n <= attempt[r]
    /\ Promised(r) <= unanswered[r] + 1
    /\ Settled(r) => Promised(r) <= unanswered[r]

(* How a call ends, and on what word.                                       *)
EndsTrue(r) ==
    /\ pc[r] = "idle" => endpoint[r] = "none"
    /\ pc[r] # "done" <=> outcome[r] = "none"
    /\ outcome[r] = "ok" => reply[r] = "ok"
    /\ reply[r] = "ok" /\ r \notin Having("read") => applied[r] >= 1

(* The client_order_id of a call is taken when the call is carried out.     *)
KeyTaken(r) ==
    /\ <<r, 1>> \in seen => r \in Having("keyed")
    /\ r \in Having("keyed") => /\ applied[r] <= 1
                                /\ applied[r] = 1 <=> <<r, 1>> \in seen

Good(r) == AttemptsCounted(r) /\ EndsTrue(r) /\ KeyTaken(r)

(* The inductive invariant.                                                 *)
IInv == TypeOK /\ \A r \in Requests : Good(r)

-----------------------------------------------------------------------------
LEMMA CopiesFinite ==
    ASSUME NEW r
    PROVE  /\ IsFiniteSet(Copies(r))
           /\ Cardinality(Copies(r)) \in Nat
           /\ Cardinality(Copies(r)) = 0 <=> Copies(r) = {}
<1>1. IsFiniteSet(Attempts)
  BY ClientAssumption, FS_Interval DEF Attempts
<1>2. Copies(r) \in SUBSET Attempts
  BY DEF Copies
<1>3. IsFiniteSet(Copies(r))
  BY <1>1, <1>2, FS_Subset
<1>4. QED
  BY <1>3, FS_CardinalityType, FS_EmptySet

LEMMA CopiesFiniteNext ==
    ASSUME NEW r
    PROVE  /\ IsFiniteSet(Copies(r)')
           /\ Cardinality(Copies(r)') \in Nat
           /\ Cardinality(Copies(r)') = 0 <=> Copies(r)' = {}
<1>1. IsFiniteSet(Attempts)
  BY ClientAssumption, FS_Interval DEF Attempts
<1>2. Copies(r)' \in SUBSET Attempts
  BY DEF Copies
<1>3. IsFiniteSet(Copies(r)')
  BY <1>1, <1>2, FS_Subset
<1>4. QED
  BY <1>3, FS_CardinalityType, FS_EmptySet

(* A copy that is sent, and one that arrives or is lost.                    *)
LEMMA CopySent ==
    ASSUME NEW r, NEW n \in Attempts, net' = net \cup {<<r, n>>}
    PROVE  /\ Copies(r)' = Copies(r) \cup {n}
           /\ Cardinality(Copies(r)') <= Cardinality(Copies(r)) + 1
<1>1. Copies(r)' = Copies(r) \cup {n}
  BY DEF Copies
<1> DEFINE C == Copies(r)
<1>2. IsFiniteSet(C) /\ Cardinality(C) \in Nat
  BY CopiesFinite
<1>3. Cardinality(C \cup {n}) = IF n \in C THEN Cardinality(C) ELSE Cardinality(C) + 1
  BY <1>2, FS_AddElement
<1> HIDE DEF C
<1>4. Cardinality(C \cup {n}) <= Cardinality(C) + 1
  BY <1>2, <1>3
<1>5. QED
  BY <1>1, <1>4 DEF C

LEMMA CopyGone ==
    ASSUME NEW r, NEW n \in Attempts, <<r, n>> \in net, net' = net \ {<<r, n>>}
    PROVE  /\ Copies(r)' = Copies(r) \ {n}
           /\ Cardinality(Copies(r)') = Cardinality(Copies(r)) - 1
<1>1. Copies(r)' = Copies(r) \ {n} /\ n \in Copies(r)
  BY DEF Copies
<1>2. QED
  BY <1>1, CopiesFinite, FS_RemoveElement

(* A call no step of which is taken stays as it is.                         *)
Same(q) ==
    /\ endpoint'[q] = endpoint[q] /\ pc'[q] = pc[q] /\ attempt'[q] = attempt[q]
    /\ reply'[q] = reply[q] /\ outcome'[q] = outcome[q] /\ applied'[q] = applied[q]
    /\ unanswered'[q] = unanswered[q]
    /\ Copies(q)' = Copies(q)
    /\ <<q, 1>> \in seen' <=> <<q, 1>> \in seen

LEMMA SameStaysGood ==
    ASSUME NEW q \in Requests, Good(q), Same(q)
    PROVE  Good(q)'
<1>1. \A effect : q \in Having(effect)' <=> q \in Having(effect)
  BY DEF Same, Having
<1>2. (Unsent(q)' <=> Unsent(q)) /\ (Settled(q)' <=> Settled(q)) /\ Promised(q)' = Promised(q)
  BY DEF Same, Unsent, Settled, Promised
<1>3. AttemptsCounted(q)'
  BY <1>2 DEF Good, AttemptsCounted, Same
<1>4. EndsTrue(q)' /\ KeyTaken(q)'
  BY <1>1 DEF Good, EndsTrue, KeyTaken, Same
<1>5. QED
  BY <1>3, <1>4 DEF Good

LEMMA InitIInv == Init => IInv
<1> SUFFICES ASSUME Init PROVE IInv
  OBVIOUS
<1>1. TypeOK
  BY ClientAssumption DEF Init, TypeOK
<1>2. ASSUME NEW r \in Requests PROVE Good(r)
  <2>1. Copies(r) = {} /\ Cardinality(Copies(r)) = 0
    BY CopiesFinite DEF Init, Copies
  <2>2. QED
    BY <2>1, ClientAssumption DEF Init, Good, AttemptsCounted, EndsTrue, KeyTaken, Unsent, Settled, Promised, Having
<1>3. QED
  BY <1>1, <1>2 DEF IInv
-----------------------------------------------------------------------------
(* What the invariant says of the call that takes a step.                   *)
LEMMA CallFacts ==
    ASSUME IInv, NEW r \in Requests
    PROVE  /\ endpoint[r] \in Endpoints \cup {"none"}
           /\ pc[r] \in {"idle", "acquire", "sent", "backoff", "done"}
           /\ attempt[r] \in 0..MaxRetries /\ attempt[r] \in Nat
           /\ reply[r] \in {"none", "ok", "throttled", "refused", "broken"}
           /\ outcome[r] \in {"none", "invalid", "simulated", "ok", "error", "cancelled"}
           /\ applied[r] \in Nat /\ unanswered[r] \in Nat
           /\ Cardinality(Copies(r)) \in Nat
           /\ MaxRetries \in Nat \ {0}
           /\ AttemptsCounted(r) /\ EndsTrue(r) /\ KeyTaken(r)
  BY CopiesFinite, ClientAssumption DEF IInv, TypeOK, Good

(* What does not touch the exchange leaves the copies of every call.        *)
LEMMA ExchangeUntouched ==
    ASSUME UNCHANGED Exchange
    PROVE  /\ net' = net /\ seen' = seen /\ applied' = applied
           /\ \A q : Copies(q)' = Copies(q)
  BY DEF Exchange, Copies

LEMMA CallGood ==
    ASSUME IInv, NEW r \in Requests, NEW e \in Endpoints, Call(r, e)
    PROVE  TypeOK' /\ Good(r)' /\ \A q \in Requests \ {r} : Same(q)
<1>1. TypeOK'
  BY DEF IInv, TypeOK, Call, Exchange
<1>2. \A q : Copies(q)' = Copies(q)
  BY ExchangeUntouched DEF Call
<1>3. \A q \in Requests \ {r} : Same(q)
  BY <1>2 DEF IInv, TypeOK, Call, Exchange, Same
<1>4. /\ endpoint'[r] = e /\ pc[r] = "idle" /\ pc'[r] = "acquire"
      /\ UNCHANGED <<attempt, reply, outcome, net, seen, applied, unanswered>>
  BY DEF IInv, TypeOK, Call, Exchange
<1>5. AttemptsCounted(r)'
  BY <1>2, <1>4, CallFacts DEF AttemptsCounted, Unsent, Settled, Promised, EndsTrue
<1>6. EndsTrue(r)'
  BY <1>4, CallFacts DEF EndsTrue, AttemptsCounted, Unsent
<1>7. applied[r] = 0 /\ <<r, 1>> \notin seen
  BY <1>4, CallFacts, ClientAssumption DEF EndsTrue, AttemptsCounted, Unsent, KeyTaken, Having
<1>8. KeyTaken(r)'
  BY <1>4, <1>7 DEF KeyTaken
<1>9. QED
  BY <1>1, <1>3, <1>5, <1>6, <1>8 DEF Good

LEMMA ReturnEarlyGood ==
    ASSUME IInv, NEW r \in Requests, ReturnEarly(r)
    PROVE  TypeOK' /\ Good(r)' /\ \A q \in Requests \ {r} : Same(q)
<1>1. TypeOK'
  BY DEF IInv, TypeOK, ReturnEarly, End, Exchange
<1>2. \A q : Copies(q)' = Copies(q)
  BY ExchangeUntouched DEF ReturnEarly
<1>3. \A q \in Requests \ {r} : Same(q)
  BY <1>2 DEF IInv, TypeOK, ReturnEarly, End, Exchange, Same
<1>4. /\ pc[r] = "idle" /\ pc'[r] = "done" /\ outcome'[r] \in {"invalid", "simulated"}
      /\ UNCHANGED <<endpoint, attempt, reply, net, seen, applied, unanswered>>
  BY DEF IInv, TypeOK, ReturnEarly, End, Exchange
<1>5. AttemptsCounted(r)'
  BY <1>2, <1>4, CallFacts DEF AttemptsCounted, Unsent, Settled, Promised, EndsTrue
<1>6. EndsTrue(r)' /\ KeyTaken(r)'
  BY <1>4, CallFacts DEF EndsTrue, AttemptsCounted, Unsent, KeyTaken, Having
<1>7. QED
  BY <1>1, <1>3, <1>5, <1>6 DEF Good

(* A copy more is an attempt more, and the attempts before it are settled.  *)
LEMMA SendGood ==
    ASSUME IInv, NEW r \in Requests, Send(r)
    PROVE  TypeOK' /\ Good(r)' /\ \A q \in Requests \ {r} : Same(q)
<1>1. attempt[r] < MaxRetries /\ attempt[r] + 1 \in Attempts
  BY CallFacts DEF Send, AttemptsCounted, Unsent, Attempts
<1>2. TypeOK'
  BY <1>1, CallFacts DEF IInv, TypeOK, Send, Attempts
<1>3. \A q \in Requests \ {r} : Copies(q)' = Copies(q)
  BY DEF Send, Copies
<1>4. \A q \in Requests \ {r} : Same(q)
  BY <1>3 DEF IInv, TypeOK, Send, Same
<1>5. /\ pc[r] \in {"acquire", "backoff"} /\ pc'[r] = "sent" /\ attempt'[r] = attempt[r] + 1
      /\ reply'[r] = "none"
      /\ UNCHANGED <<endpoint, outcome, seen, applied, unanswered>>
  BY DEF IInv, TypeOK, Send
<1>6. /\ Copies(r)' = Copies(r) \cup {attempt[r] + 1}
      /\ Cardinality(Copies(r)') <= Cardinality(Copies(r)) + 1
  BY <1>1, CopySent DEF Send
<1>7. Cardinality(Copies(r)') \in Nat
  BY CopiesFiniteNext
<1>8. outcome[r] = "none"
  BY <1>5, CallFacts DEF EndsTrue
<1>9. Promised(r) <= unanswered[r]
  BY <1>5, CallFacts, CopiesFinite DEF AttemptsCounted, Unsent, Settled, Promised
<1>10. Promised(r)' <= unanswered'[r] + 1
  BY <1>5, <1>6, <1>7, <1>9, CallFacts DEF Promised
<1>11. ~Unsent(r)' /\ ~Settled(r)'
  BY <1>5, <1>8 DEF Unsent, Settled
<1>12. \A n \in Copies(r)' : n <= attempt'[r]
  <2>1. \A n \in Copies(r) : n \in Nat
    BY ClientAssumption DEF Copies, Attempts
  <2>2. \A n \in Copies(r) : n <= attempt[r]
    BY CallFacts DEF AttemptsCounted
  <2>3. QED
    BY <1>5, <1>6, <2>1, <2>2, CallFacts
<1>13. AttemptsCounted(r)'
  BY <1>5, <1>10, <1>11, <1>12, CallFacts DEF AttemptsCounted
<1>14. EndsTrue(r)'
  BY <1>5, <1>8 DEF EndsTrue
<1>15. KeyTaken(r)'
  BY <1>5, CallFacts DEF KeyTaken, Having
<1>16. QED
  BY <1>2, <1>4, <1>13, <1>14, <1>15 DEF Good

(* Receive and LoseCopy take a copy of one call from the network.           *)
LEMMA CopyGoneGood ==
    ASSUME IInv, NEW r \in Requests, NEW n \in Attempts, <<r, n>> \in net, net' = net \ {<<r, n>>}
    PROVE  /\ Cardinality(Copies(r)') = Cardinality(Copies(r)) - 1
           /\ Cardinality(Copies(r)') \in Nat
           /\ Copies(r)' \subseteq Copies(r) /\ Copies(r) # {}
           /\ ~Unsent(r) /\ pc[r] \in {"sent", "backoff", "done"}
           /\ \A q \in Requests \ {r} : Copies(q)' = Copies(q)
<1>1. n \in Copies(r)
  BY DEF Copies
<1>2. ~Unsent(r)
  BY <1>1, CallFacts DEF AttemptsCounted
<1>3. \A q \in Requests \ {r} : Copies(q)' = Copies(q)
  BY DEF Copies
<1>4. pc[r] \in {"sent", "backoff", "done"}
  BY <1>2, CallFacts DEF Unsent
<1>5. Copies(r)' \subseteq Copies(r)
  BY CopyGone
<1>6. QED
  BY <1>1, <1>2, <1>3, <1>4, <1>5, CopyGone, CopiesFiniteNext

LEMMA LoseCopyGood ==
    ASSUME IInv, NEW r \in Requests, NEW n \in Attempts, LoseCopy(r, n)
    PROVE  TypeOK' /\ Good(r)' /\ \A q \in Requests \ {r} : Same(q)
<1>1. /\ <<r, n>> \in net /\ net' = net \ {<<r, n>>}
      /\ UNCHANGED <<endpoint, pc, attempt, reply, outcome, seen, applied, unanswered>>
  BY DEF LoseCopy
<1>2. TypeOK'
  BY <1>1 DEF IInv, TypeOK
<1>3. \A q \in Requests \ {r} : Same(q)
  BY <1>1, CopyGoneGood DEF Same
<1>4. /\ Cardinality(Copies(r)') \in Nat /\ Cardinality(Copies(r)') = Cardinality(Copies(r)) - 1
      /\ Copies(r)' \subseteq Copies(r)
      /\ ~Unsent(r)
  BY <1>1, CopyGoneGood
<1>5. Promised(r)' <= Promised(r) /\ Promised(r)' \in Nat /\ Promised(r) \in Nat
  BY <1>1, <1>4, CallFacts DEF Promised
<1>6. ~Unsent(r)' /\ (Settled(r)' <=> Settled(r))
  BY <1>1, <1>4 DEF Unsent, Settled
<1>7. AttemptsCounted(r)'
  BY <1>1, <1>4, <1>5, <1>6, CallFacts DEF AttemptsCounted
<1>8. EndsTrue(r)' /\ KeyTaken(r)'
  BY <1>1, CallFacts DEF EndsTrue, KeyTaken, Having
<1>9. QED
  BY <1>2, <1>3, <1>7, <1>8 DEF Good

(* A copy that arrives is carried out, which moves it from the copies to    *)
(* what was applied, or is not, which settles it.                           *)
LEMMA ReceiveGood ==
    ASSUME IInv, NEW r \in Requests, NEW n \in Attempts, Receive(r, n)
    PROVE  TypeOK' /\ Good(r)' /\ \A q \in Requests \ {r} : Same(q)
<1>1. /\ <<r, n>> \in net /\ net' = net \ {<<r, n>>}
      /\ UNCHANGED <<endpoint, pc, attempt, outcome, unanswered>>
  BY DEF Receive
<1>2. PICK applies \in BOOLEAN :
          /\ applies => /\ r \notin Having("read")
                        /\ r \in Having("keyed") => <<r, 1>> \notin seen
          /\ applied' = IF applies THEN [applied EXCEPT ![r] = @ + 1] ELSE applied
          /\ seen' = IF applies /\ r \in Having("keyed") THEN seen \cup {<<r, 1>>} ELSE seen
          /\ \E answer \in Answers(r, n, applies) :
                reply' = IF pc[r] = "sent" /\ attempt[r] = n
                         THEN [reply EXCEPT ![r] = answer] ELSE reply
  BY DEF Receive, ClientOrderId
<1>3. PICK answer \in Answers(r, n, applies) :
          reply' = IF pc[r] = "sent" /\ attempt[r] = n
                   THEN [reply EXCEPT ![r] = answer] ELSE reply
  BY <1>2
<1>4. /\ answer \in {"ok", "throttled", "refused", "broken"}
      /\ applies => answer \in {"ok", "broken"}
      /\ ~applies /\ answer = "ok" =>
            r \in Having("read") \/ (r \in Having("keyed") /\ <<r, 1>> \in seen)
  BY <1>3 DEF Answers, ClientOrderId
<1>5. TypeOK'
  <2>1. applied' \in [Requests -> Nat]
    BY <1>2 DEF IInv, TypeOK
  <2>2. reply' \in [Requests -> {"none", "ok", "throttled", "refused", "broken"}]
    BY <1>3, <1>4 DEF IInv, TypeOK
  <2>3. seen' \subseteq Requests \X Attempts
    BY <1>2, ClientAssumption DEF IInv, TypeOK, Attempts
  <2>4. QED
    BY <1>1, <2>1, <2>2, <2>3 DEF IInv, TypeOK
<1>6. \A q \in Requests \ {r} : Same(q)
  <2>1. \A q \in Requests \ {r} : applied'[q] = applied[q]
    BY <1>2 DEF IInv, TypeOK
  <2>2. \A q \in Requests \ {r} : reply'[q] = reply[q]
    BY <1>3 DEF IInv, TypeOK
  <2>3. \A q \in Requests \ {r} : <<q, 1>> \in seen' <=> <<q, 1>> \in seen
    BY <1>2
  <2>4. QED
    BY <1>1, <2>1, <2>2, <2>3, CopyGoneGood DEF Same
<1>7. /\ Cardinality(Copies(r)') \in Nat /\ Cardinality(Copies(r)') = Cardinality(Copies(r)) - 1
      /\ Copies(r)' \subseteq Copies(r)
      /\ ~Unsent(r)
  BY <1>1, CopyGoneGood
<1>8. applied'[r] = IF applies THEN applied[r] + 1 ELSE applied[r]
  BY <1>2 DEF IInv, TypeOK
<1>9. reply'[r] = IF pc[r] = "sent" /\ attempt[r] = n THEN answer ELSE reply[r]
  BY <1>3 DEF IInv, TypeOK
<1>10. Promised(r)' = IF applies THEN Promised(r) ELSE Promised(r) - 1
  BY <1>7, <1>8, CallFacts DEF Promised
<1>11. Promised(r)' \in Nat /\ Promised(r) \in Nat
  BY <1>7, <1>8, CallFacts DEF Promised
<1>12. ~Unsent(r)'
  BY <1>1, <1>7 DEF Unsent
<1>13. Settled(r)' => Promised(r)' <= unanswered'[r]
  <2>1. CASE pc[r] = "sent" /\ attempt[r] = n
    <3>1. outcome[r] = "none"
      BY <2>1, CallFacts DEF EndsTrue
    <3>2. Settled(r)' => ~applies
      BY <1>1, <1>4, <1>9, <2>1, <3>1 DEF Settled
    <3>3. QED
      BY <1>1, <1>10, <1>11, <3>2, CallFacts DEF AttemptsCounted
  <2>2. CASE ~(pc[r] = "sent" /\ attempt[r] = n)
    <3>1. Settled(r)' <=> Settled(r)
      BY <1>1, <1>9, <2>2 DEF Settled
    <3>2. QED
      BY <1>1, <1>10, <1>11, <3>1, CallFacts DEF AttemptsCounted
  <2>3. QED
    BY <2>1, <2>2
<1>14. AttemptsCounted(r)'
  BY <1>1, <1>7, <1>10, <1>11, <1>12, <1>13, CallFacts DEF AttemptsCounted
<1>15. \A effect : r \in Having(effect)' <=> r \in Having(effect)
  BY <1>1 DEF Having
<1>16. EndsTrue(r)'
  <2>1. outcome'[r] = "ok" => reply'[r] = "ok"
    BY <1>1, <1>9, CallFacts DEF EndsTrue
  <2>2. reply'[r] = "ok" /\ r \notin Having("read") => applied'[r] >= 1
    BY <1>4, <1>8, <1>9, CallFacts DEF EndsTrue, KeyTaken
  <2>3. QED
    BY <1>1, <1>15, <2>1, <2>2, CallFacts DEF EndsTrue
<1>17. KeyTaken(r)'
  <2>1. <<r, 1>> \in seen' => r \in Having("keyed")
    BY <1>2, CallFacts DEF KeyTaken
  <2>2. r \in Having("keyed") => applied'[r] <= 1 /\ (applied'[r] = 1 <=> <<r, 1>> \in seen')
    BY <1>2, <1>8, CallFacts DEF KeyTaken
  <2>3. QED
    BY <1>15, <2>1, <2>2 DEF KeyTaken
<1>18. QED
  BY <1>5, <1>6, <1>14, <1>16, <1>17 DEF Good

(* An attempt that is settled leads to another one, or to an error.         *)
LEMMA RetryGood ==
    ASSUME IInv, NEW r \in Requests, pc[r] = "sent", Retry(r),
           UNCHANGED <<endpoint, attempt, reply, Exchange>>,
           unanswered' \in [Requests -> 0..MaxRetries],
           \A q \in Requests \ {r} : unanswered'[q] = unanswered[q],
           unanswered'[r] <= attempt[r], Promised(r) <= unanswered'[r],
           unanswered[r] <= unanswered'[r]
    PROVE  TypeOK' /\ Good(r)' /\ \A q \in Requests \ {r} : Same(q)
<1>1. /\ net' = net /\ seen' = seen /\ applied' = applied
      /\ \A q : Copies(q)' = Copies(q)
      /\ UNCHANGED <<endpoint, attempt, reply>>
  BY ExchangeUntouched
<1>2. \/ attempt[r] < MaxRetries /\ pc' = [pc EXCEPT ![r] = "backoff"] /\ outcome' = outcome
      \/ pc' = [pc EXCEPT ![r] = "done"] /\ outcome' = [outcome EXCEPT ![r] = "error"]
  BY DEF Retry, End
<1>3. pc' \in [Requests -> {"idle", "acquire", "sent", "backoff", "done"}]
  BY <1>2 DEF IInv, TypeOK
<1>4. outcome' \in [Requests -> {"none", "invalid", "simulated", "ok", "error", "cancelled"}]
  BY <1>2 DEF IInv, TypeOK
<1>5. TypeOK'
  BY <1>1, <1>3, <1>4 DEF IInv, TypeOK
<1>6. \A q \in Requests \ {r} : pc'[q] = pc[q] /\ outcome'[q] = outcome[q]
  BY <1>2 DEF IInv, TypeOK
<1>7. \A q \in Requests \ {r} : Same(q)
  BY <1>1, <1>6 DEF Same
<1>8. \/ attempt[r] < MaxRetries /\ pc'[r] = "backoff" /\ outcome'[r] = "none"
      \/ pc'[r] = "done" /\ outcome'[r] = "error"
  BY <1>2, CallFacts DEF EndsTrue, IInv, TypeOK
<1>9. ~Unsent(r)'
  BY <1>8 DEF Unsent
<1>10. Promised(r)' = Promised(r)
  BY <1>1 DEF Promised
<1>11. AttemptsCounted(r)'
  BY <1>1, <1>8, <1>9, <1>10, CallFacts DEF AttemptsCounted, Promised, TypeOK
<1>12. EndsTrue(r)' /\ KeyTaken(r)'
  BY <1>1, <1>8, CallFacts DEF EndsTrue, KeyTaken, Having
<1>13. QED
  BY <1>5, <1>7, <1>11, <1>12 DEF Good

(* Any other end: the call returns, raises or is cancelled, and nothing is  *)
(* promised that was not before.                                            *)
LEMMA EndGood ==
    ASSUME IInv, NEW r \in Requests, NEW how \in {"ok", "error", "cancelled"},
           r \in Running, End(r, how),
           UNCHANGED <<endpoint, attempt, reply, Exchange, unanswered>>,
           how = "ok" => reply[r] = "ok",
           how = "error" /\ reply[r] # "broken" => Promised(r) <= unanswered[r]
    PROVE  TypeOK' /\ Good(r)' /\ \A q \in Requests \ {r} : Same(q)
<1>1. /\ net' = net /\ seen' = seen /\ applied' = applied
      /\ \A q : Copies(q)' = Copies(q)
      /\ UNCHANGED <<endpoint, attempt, reply, unanswered>>
  BY ExchangeUntouched
<1>2. pc' = [pc EXCEPT ![r] = "done"] /\ outcome' = [outcome EXCEPT ![r] = how]
  BY DEF End
<1>3. TypeOK'
  BY <1>1, <1>2 DEF IInv, TypeOK
<1>4. \A q \in Requests \ {r} : pc'[q] = pc[q] /\ outcome'[q] = outcome[q]
  BY <1>2 DEF IInv, TypeOK
<1>5. \A q \in Requests \ {r} : Same(q)
  BY <1>1, <1>4 DEF Same
<1>6. pc'[r] = "done" /\ outcome'[r] = how
  BY <1>2 DEF IInv, TypeOK
<1>7. ~Unsent(r)'
  BY <1>6 DEF Unsent
<1>8. Promised(r)' = Promised(r)
  BY <1>1 DEF Promised
<1>9. Settled(r)' => Promised(r)' <= unanswered'[r]
  BY <1>1, <1>6, <1>8 DEF Settled
<1>10. AttemptsCounted(r)'
  BY <1>1, <1>6, <1>7, <1>8, <1>9, CallFacts DEF AttemptsCounted
<1>11. EndsTrue(r)' /\ KeyTaken(r)'
  BY <1>1, <1>6, CallFacts DEF EndsTrue, KeyTaken, Having
<1>12. QED
  BY <1>3, <1>5, <1>10, <1>11 DEF Good

LEMMA TimeOutGood ==
    ASSUME IInv, NEW r \in Requests, TimeOut(r)
    PROVE  TypeOK' /\ Good(r)' /\ \A q \in Requests \ {r} : Same(q)
<1>1. /\ pc[r] = "sent" /\ Retry(r) /\ UNCHANGED <<endpoint, attempt, reply, Exchange>>
      /\ unanswered' = [unanswered EXCEPT ![r] = @ + 1]
  BY DEF TimeOut
<1>2. unanswered'[r] = unanswered[r] + 1 /\ \A q \in Requests \ {r} : unanswered'[q] = unanswered[q]
  BY <1>1 DEF IInv, TypeOK
<1>3. unanswered[r] < attempt[r] /\ Promised(r) <= unanswered[r] + 1
  BY <1>1, CallFacts DEF AttemptsCounted
<1>4. unanswered' \in [Requests -> 0..MaxRetries]
  BY <1>1, <1>3, CallFacts DEF IInv, TypeOK
<1>5. unanswered'[r] <= attempt[r] /\ Promised(r) <= unanswered'[r] /\ unanswered[r] <= unanswered'[r]
  BY <1>2, <1>3, CallFacts
<1>6. QED
  BY <1>1, <1>2, <1>4, <1>5, RetryGood

LEMMA HandleGood ==
    ASSUME IInv, NEW r \in Requests, Handle(r)
    PROVE  TypeOK' /\ Good(r)' /\ \A q \in Requests \ {r} : Same(q)
<1>1. pc[r] = "sent" /\ r \in Running /\ UNCHANGED <<endpoint, attempt, reply, Exchange, unanswered>>
  BY DEF Handle, Running
<1>2. reply[r] \in {"throttled", "refused"} => Promised(r) <= unanswered[r]
  BY <1>1, CallFacts DEF AttemptsCounted, Settled
<1>3. CASE reply[r] = "ok" /\ End(r, "ok")
  BY <1>1, <1>3, EndGood
<1>4. CASE reply[r] \in {"refused", "broken"} /\ End(r, "error")
  BY <1>1, <1>2, <1>4, EndGood
<1>5. CASE reply[r] = "throttled" /\ Retry(r)
  <2>1. unanswered' \in [Requests -> 0..MaxRetries] /\ \A q : unanswered'[q] = unanswered[q]
    BY <1>1 DEF IInv, TypeOK
  <2>2. unanswered'[r] <= attempt[r] /\ Promised(r) <= unanswered'[r] /\ unanswered[r] <= unanswered'[r]
    BY <1>1, <1>2, <1>5, CallFacts DEF AttemptsCounted
  <2>3. QED
    BY <1>1, <1>5, <2>1, <2>2, RetryGood
<1>6. CASE reply[r] = "throttled" /\ endpoint[r] \notin LenientHeader /\ End(r, "error")
  BY <1>1, <1>2, <1>6, EndGood
<1>7. QED
  BY <1>3, <1>4, <1>5, <1>6 DEF Handle

LEMMA CancelGood ==
    ASSUME IInv, NEW r \in Requests, Cancel(r)
    PROVE  TypeOK' /\ Good(r)' /\ \A q \in Requests \ {r} : Same(q)
  BY EndGood DEF Cancel

LEMMA NextIInv == IInv /\ [Next]_vars => IInv'
<1> SUFFICES ASSUME IInv, [Next]_vars PROVE IInv'
  OBVIOUS
<1>1. ASSUME NEW r \in Requests, TypeOK' /\ Good(r)' /\ \A q \in Requests \ {r} : Same(q)
      PROVE  IInv'
  <2>1. \A q \in Requests \ {r} : Good(q)'
    BY <1>1, SameStaysGood DEF IInv
  <2>2. QED
    BY <1>1, <2>1 DEF IInv
<1>2. ASSUME NEW r \in Requests, NEW e \in Endpoints, Call(r, e) PROVE IInv'
  BY <1>1, <1>2, CallGood
<1>3. ASSUME NEW r \in Requests, ReturnEarly(r) PROVE IInv'
  BY <1>1, <1>3, ReturnEarlyGood
<1>4. ASSUME NEW r \in Requests, Send(r) PROVE IInv'
  BY <1>1, <1>4, SendGood
<1>5. ASSUME NEW r \in Requests, TimeOut(r) PROVE IInv'
  BY <1>1, <1>5, TimeOutGood
<1>6. ASSUME NEW r \in Requests, Handle(r) PROVE IInv'
  BY <1>1, <1>6, HandleGood
<1>7. ASSUME NEW r \in Requests, Cancel(r) PROVE IInv'
  BY <1>1, <1>7, CancelGood
<1>8. ASSUME NEW r \in Requests, NEW n \in Attempts, Receive(r, n) PROVE IInv'
  BY <1>1, <1>8, ReceiveGood
<1>9. ASSUME NEW r \in Requests, NEW n \in Attempts, LoseCopy(r, n) PROVE IInv'
  BY <1>1, <1>9, LoseCopyGood
<1>10. CASE UNCHANGED vars
  <2>1. \A q : Copies(q)' = Copies(q)
    BY <1>10 DEF vars, Copies
  <2>2. \A q \in Requests : Same(q)
    BY <1>10, <2>1 DEF vars, Same
  <2>3. TypeOK'
    BY <1>10 DEF IInv, TypeOK, vars
  <2>4. QED
    BY <2>2, <2>3, SameStaysGood DEF IInv
<1>11. QED
  BY <1>2, <1>3, <1>4, <1>5, <1>6, <1>7, <1>8, <1>9, <1>10 DEF Next, ClientStep

LEMMA Inductive == Spec => []IInv
  BY InitIInv, NextIInv, PTL DEF Spec

-----------------------------------------------------------------------------
(* However copies are delayed, lost or sent again, a call with a            *)
(* client_order_id is carried out at most once, and any other at most once  *)
(* more than attempts went unanswered (the retry loops of _base.py,         *)
(* orders.py, trading.py and order_groups.py).                              *)
THEOREM RepeatingIsHarmless == Spec => []RepeatsHarmless
<1>1. ASSUME IInv PROVE RepeatsHarmless
  <2>1. TypeOK
    BY <1>1 DEF IInv
  <2>2. KeyedAppliedOnce
    BY <1>1, CallFacts DEF KeyedAppliedOnce, KeyTaken, Having
  <2>3. ASSUME NEW r \in Requests PROVE applied[r] <= 1 + unanswered[r]
    BY <1>1, CallFacts DEF AttemptsCounted, Promised
  <2>4. QED
    BY <2>1, <2>2, <2>3 DEF RepeatsHarmless, RepeatsOnlyUnanswered
<1>2. QED
  BY Inductive, <1>1, PTL

(* What a call of the client tells its caller is so: success was carried    *)
(* out, a clean refusal was not and will not be.                            *)
THEOREM OutcomesAreTrue == Spec => []OutcomeIsTrue
<1>1. ASSUME IInv PROVE OutcomeIsTrue
  <2> SUFFICES ASSUME NEW r \in Requests
               PROVE  /\ outcome[r] = "ok" /\ r \notin Having("read") => applied[r] >= 1
                      /\ outcome[r] = "error" /\ unanswered[r] = 0 /\ reply[r] # "broken" =>
                            applied[r] = 0 /\ ~Pending(r)
                      /\ outcome[r] \in {"invalid", "simulated"} => applied[r] = 0 /\ ~Pending(r)
    BY DEF OutcomeIsTrue
  <2>1. Copies(r) = {} => ~Pending(r)
    BY DEF Copies, Pending
  <2>2. outcome[r] = "ok" /\ r \notin Having("read") => applied[r] >= 1
    BY <1>1, CallFacts DEF EndsTrue
  <2>3. ASSUME outcome[r] = "error", unanswered[r] = 0, reply[r] # "broken"
        PROVE  applied[r] = 0 /\ Cardinality(Copies(r)) = 0
    <3>1. Promised(r) <= 0
      BY <1>1, <2>3, CallFacts DEF AttemptsCounted, Settled
    <3>2. QED
      BY <1>1, <3>1, CallFacts DEF Promised
  <2>4. outcome[r] \in {"invalid", "simulated"} => applied[r] = 0 /\ Copies(r) = {}
    BY <1>1, CallFacts DEF AttemptsCounted, Unsent
  <2>5. QED
    BY <2>1, <2>2, <2>3, <2>4, CopiesFinite
<1>2. QED
  BY Inductive, <1>1, PTL

-----------------------------------------------------------------------------
(* The state OrderSubmission sees, call by call.                            *)
Wire(r) ==
    /\ r \in Having("keyed") /\ applied[r] = 0
    /\ r \in Running \/ Pending(r)
Placed(r) == IF r \in Having("keyed") THEN applied[r] ELSE 0

Seen(r) == <<SubmissionStatus(r), Wire(r), Placed(r)>>

(* The steps OrderSubmission allows one call, and the one that leaves it.   *)
OneStep(r) ==
    \/ Seen(r)' = Seen(r)
    \/ SubmissionStatus(r) = "idle" /\ Seen(r)' = <<"open", TRUE, Placed(r)>>
    \/ Wire(r) /\ Placed(r) = 0 /\ Seen(r)' = <<SubmissionStatus(r), FALSE, 1>>
    \/ SubmissionStatus(r) = "open" /\ Placed(r) = 1 /\ Seen(r)' = <<"ok", Wire(r), Placed(r)>>
    \/ /\ SubmissionStatus(r) = "open"
       /\ \E still \in {FALSE, Wire(r)} : Seen(r)' = <<"failed", still, Placed(r)>>
    \/ SubmissionStatus(r) = "failed" /\ Seen(r)' = <<"failed", FALSE, Placed(r)>>

LEMMA PendingCopies == \A r : Pending(r) <=> Copies(r) # {}
  BY DEF Pending, Copies

LEMMA PendingCopiesNext == \A r : Pending(r)' <=> Copies(r)' # {}
  BY DEF Pending, Copies

LEMMA SameSeen ==
    ASSUME NEW q \in Requests, Same(q)
    PROVE  Seen(q)' = Seen(q)
<1>1. \A effect : q \in Having(effect)' <=> q \in Having(effect)
  BY DEF Same, Having
<1>2. q \in Running' <=> q \in Running
  BY DEF Same, Running
<1>3. Pending(q)' <=> Pending(q)
  BY PendingCopies, PendingCopiesNext DEF Same
<1>4. SubmissionStatus(q)' = SubmissionStatus(q)
  BY <1>1, <1>2 DEF SubmissionStatus, Same
<1>5. Wire(q)' = Wire(q)
  BY <1>1, <1>2, <1>3 DEF Wire, Same
<1>6. Placed(q)' = Placed(q)
  BY <1>1 DEF Placed, Same
<1>7. QED
  BY <1>4, <1>5, <1>6 DEF Seen

(* A step of one call is a step of OrderSubmission or none.                 *)
LEMMA OneStepIsNext ==
    ASSUME NEW r \in Requests, OneStep(r), \A q \in Requests \ {r} : Seen(q)' = Seen(q)
    PROVE  [Submission!Next]_(Submission!vars)
<1> DEFINE S == [q \in Requests |-> SubmissionStatus(q)]
           W == [q \in Requests |-> Wire(q)]
           P == [q \in Requests |-> Placed(q)]
<1>1. /\ S' = [S EXCEPT ![r] = SubmissionStatus(r)']
      /\ W' = [W EXCEPT ![r] = Wire(r)']
      /\ P' = [P EXCEPT ![r] = Placed(r)']
  <2>1. \A q \in Requests \ {r} : /\ SubmissionStatus(q)' = SubmissionStatus(q)
                                  /\ Wire(q)' = Wire(q) /\ Placed(q)' = Placed(q)
    BY DEF Seen
  <2>2. QED
    BY <2>1
<1>2. /\ S[r] = SubmissionStatus(r) /\ W[r] = Wire(r) /\ P[r] = Placed(r)
      /\ S = [S EXCEPT ![r] = S[r]] /\ W = [W EXCEPT ![r] = W[r]] /\ P = [P EXCEPT ![r] = P[r]]
  OBVIOUS
<1>3. Submission!vars = <<S, W, P>> /\ Submission!vars' = <<S', W', P'>>
  BY DEF Submission!vars, Wire, Placed
<1>4. /\ Submission!Open(r) <=> S[r] = "idle" /\ S' = [S EXCEPT ![r] = "open"]
                                /\ W' = [W EXCEPT ![r] = TRUE] /\ P' = P
      /\ Submission!Place(r) <=> W[r] /\ P[r] = 0 /\ P' = [P EXCEPT ![r] = 1]
                                 /\ W' = [W EXCEPT ![r] = FALSE] /\ S' = S
      /\ Submission!Answer(r) <=> S[r] = "open" /\ P[r] = 1 /\ S' = [S EXCEPT ![r] = "ok"]
                                  /\ W' = W /\ P' = P
      /\ Submission!Fail(r) <=> S[r] = "open" /\ S' = [S EXCEPT ![r] = "failed"]
                                /\ (\E still \in {FALSE, W[r]} : W' = [W EXCEPT ![r] = still])
                                /\ P' = P
      /\ Submission!Lose(r) <=> S[r] = "failed" /\ W' = [W EXCEPT ![r] = FALSE]
                                /\ S' = S /\ P' = P
  BY DEF Submission!Open, Submission!Place, Submission!Answer, Submission!Fail, Submission!Lose,
         Wire, Placed
<1> HIDE DEF S, W, P
<1>5. CASE Seen(r)' = Seen(r)
  <2>1. <<S', W', P'>> = <<S, W, P>>
    BY <1>1, <1>2, <1>5 DEF Seen
  <2>2. QED
    BY <1>3, <2>1
<1>6. CASE SubmissionStatus(r) = "idle" /\ Seen(r)' = <<"open", TRUE, Placed(r)>>
  <2>1. /\ S' = [S EXCEPT ![r] = "open"]
        /\ W' = [W EXCEPT ![r] = TRUE]
        /\ P' = [P EXCEPT ![r] = Placed(r)]
    BY <1>1, <1>6 DEF Seen
  <2>2. S[r] = "idle" /\ P' = P
    BY <1>2, <1>6, <2>1, Zenon
  <2>3. Submission!Open(r)
    BY <1>4, <2>1, <2>2, Zenon
  <2>4. QED
    BY <2>3 DEF Submission!Next
<1>7. CASE Wire(r) /\ Placed(r) = 0 /\ Seen(r)' = <<SubmissionStatus(r), FALSE, 1>>
  <2>1. /\ S' = [S EXCEPT ![r] = SubmissionStatus(r)]
        /\ W' = [W EXCEPT ![r] = FALSE]
        /\ P' = [P EXCEPT ![r] = 1]
    BY <1>1, <1>7 DEF Seen
  <2>2. W[r] /\ P[r] = 0 /\ S' = S
    BY <1>2, <1>7, <2>1, Zenon
  <2>3. Submission!Place(r)
    BY <1>4, <2>1, <2>2, Zenon
  <2>4. QED
    BY <2>3 DEF Submission!Next
<1>8. CASE SubmissionStatus(r) = "open" /\ Placed(r) = 1 /\ Seen(r)' = <<"ok", Wire(r), Placed(r)>>
  <2>1. /\ S' = [S EXCEPT ![r] = "ok"]
        /\ W' = [W EXCEPT ![r] = Wire(r)]
        /\ P' = [P EXCEPT ![r] = Placed(r)]
    BY <1>1, <1>8 DEF Seen
  <2>2. S[r] = "open" /\ P[r] = 1 /\ W' = W /\ P' = P
    BY <1>2, <1>8, <2>1, Zenon
  <2>3. Submission!Answer(r)
    BY <1>4, <2>1, <2>2, Zenon
  <2>4. QED
    BY <2>3 DEF Submission!Next
<1>9. ASSUME SubmissionStatus(r) = "open",
             NEW still \in {FALSE, Wire(r)}, Seen(r)' = <<"failed", still, Placed(r)>>
      PROVE  [Submission!Next]_(Submission!vars)
  <2>1. /\ S' = [S EXCEPT ![r] = "failed"]
        /\ W' = [W EXCEPT ![r] = still]
        /\ P' = [P EXCEPT ![r] = Placed(r)]
    BY <1>1, <1>9 DEF Seen
  <2>2. S[r] = "open" /\ still \in {FALSE, W[r]} /\ P' = P
    BY <1>2, <1>9, <2>1, Zenon
  <2>3. Submission!Fail(r)
    BY <1>4, <2>1, <2>2, Zenon
  <2>4. QED
    BY <2>3 DEF Submission!Next
<1>10. CASE SubmissionStatus(r) = "failed" /\ Seen(r)' = <<"failed", FALSE, Placed(r)>>
  <2>1. /\ S' = [S EXCEPT ![r] = "failed"]
        /\ W' = [W EXCEPT ![r] = FALSE]
        /\ P' = [P EXCEPT ![r] = Placed(r)]
    BY <1>1, <1>10 DEF Seen
  <2>2. S[r] = "failed" /\ S' = S /\ P' = P
    BY <1>2, <1>10, <2>1, Zenon
  <2>3. Submission!Lose(r)
    BY <1>4, <2>1, <2>2, Zenon
  <2>4. QED
    BY <2>3 DEF Submission!Next
<1>11. QED
  BY <1>5, <1>6, <1>7, <1>8, <1>9, <1>10 DEF OneStep

(* Calls of other endpoints, and calls before they start, are no submission. *)
LEMMA NoSubmission ==
    ASSUME NEW r \in Requests, r \notin Having("keyed")
    PROVE  Seen(r) = <<"idle", FALSE, 0>>
  BY DEF Seen, SubmissionStatus, Wire, Placed

LEMMA NoSubmissionNext ==
    ASSUME NEW r \in Requests, r \notin Having("keyed")'
    PROVE  Seen(r)' = <<"idle", FALSE, 0>>
  BY DEF Seen, SubmissionStatus, Wire, Placed

LEMMA IdleIsUnkeyed ==
    ASSUME IInv, NEW r \in Requests, pc[r] = "idle"
    PROVE  endpoint[r] = "none" /\ \A effect : r \notin Having(effect)
  BY CallFacts, ClientAssumption DEF EndsTrue, Having

LEMMA CallSeen ==
    ASSUME IInv, NEW r \in Requests, NEW e \in Endpoints, Call(r, e)
    PROVE  OneStep(r)
<1>1. Seen(r) = <<"idle", FALSE, 0>>
  BY IdleIsUnkeyed, NoSubmission DEF Call
<1>2. /\ pc[r] = "idle" /\ pc'[r] = "acquire" /\ applied'[r] = applied[r]
  BY DEF IInv, TypeOK, Call, Exchange
<1>3. applied'[r] = 0
  BY <1>2, CallFacts DEF AttemptsCounted, Unsent
<1>4. CASE r \in Having("keyed")'
  <2>1. r \in Running'
    BY <1>2 DEF Running
  <2>2. Seen(r)' = <<"open", TRUE, 0>>
    BY <1>3, <1>4, <2>1 DEF Seen, SubmissionStatus, Wire, Placed
  <2>3. QED
    BY <1>1, <2>2 DEF OneStep, Seen
<1>5. CASE r \notin Having("keyed")'
  BY <1>1, <1>5, NoSubmissionNext DEF OneStep
<1>6. QED
  BY <1>4, <1>5

LEMMA ReturnEarlySeen ==
    ASSUME IInv, NEW r \in Requests, ReturnEarly(r)
    PROVE  OneStep(r)
<1>1. r \notin Having("keyed") /\ r \notin Having("keyed")'
  BY IdleIsUnkeyed DEF ReturnEarly, Having
<1>2. QED
  BY <1>1, NoSubmission, NoSubmissionNext DEF OneStep

LEMMA SendSeen ==
    ASSUME IInv, NEW r \in Requests, Send(r)
    PROVE  OneStep(r)
<1>1. r \in Running /\ r \in Running' /\ applied' = applied
  BY DEF IInv, TypeOK, Send, Running
<1>2. r \in Having("keyed") <=> r \in Having("keyed")'
  BY DEF Send, Having
<1>3. Seen(r)' = Seen(r)
  BY <1>1, <1>2 DEF Seen, SubmissionStatus, Wire, Placed
<1>4. QED
  BY <1>3 DEF OneStep

(* A call that ended well was carried out: nothing of it is on the wire.    *)
LEMMA EndedSeen ==
    ASSUME IInv, NEW r \in Requests, r \in Having("keyed"), r \notin Running
    PROVE  /\ SubmissionStatus(r) \in {"ok", "failed"}
           /\ SubmissionStatus(r) = "ok" => Wire(r) = FALSE
<1>1. outcome[r] = "ok" => applied[r] >= 1
  BY CallFacts, ClientAssumption DEF EndsTrue, Having
<1>2. SubmissionStatus(r) = "ok" => outcome[r] = "ok"
  BY DEF SubmissionStatus
<1>3. QED
  BY <1>1, <1>2, CallFacts DEF SubmissionStatus, Wire

(* One copy less of a call that was not carried out by it.                  *)
LEMMA CopyGoneSeen ==
    ASSUME IInv, NEW r \in Requests, UNCHANGED <<endpoint, pc, outcome>>,
           applied'[r] = applied[r], Copies(r)' \subseteq Copies(r)
    PROVE  OneStep(r)
<1>1. /\ r \in Having("keyed") <=> r \in Having("keyed")'
      /\ r \in Running <=> r \in Running'
  BY DEF Having, Running
<1>2. SubmissionStatus(r)' = SubmissionStatus(r) /\ Placed(r)' = Placed(r)
  BY <1>1 DEF SubmissionStatus, Placed
<1>3. Wire(r)' => Wire(r)
  BY <1>1, PendingCopies, PendingCopiesNext DEF Wire
<1>4. r \notin Having("keyed") \/ r \in Running => Wire(r)' = Wire(r)
  BY <1>1 DEF Wire
<1>5. CASE Wire(r)' = Wire(r)
  BY <1>2, <1>5 DEF OneStep, Seen
<1>6. CASE Wire(r)' # Wire(r)
  <2>1. Wire(r) = TRUE /\ Wire(r)' = FALSE
    BY <1>3, <1>6 DEF Wire
  <2>2. r \in Having("keyed") /\ r \notin Running
    BY <1>4, <1>6
  <2>3. SubmissionStatus(r) = "failed"
    BY <2>1, <2>2, EndedSeen
  <2>4. Seen(r)' = <<"failed", FALSE, Placed(r)>>
    BY <1>2, <2>1, <2>3 DEF Seen
  <2>5. QED
    BY <2>3, <2>4 DEF OneStep
<1>7. QED
  BY <1>5, <1>6

LEMMA LoseCopySeen ==
    ASSUME IInv, NEW r \in Requests, NEW n \in Attempts, LoseCopy(r, n)
    PROVE  OneStep(r)
  BY CopyGoneGood, CopyGoneSeen DEF LoseCopy

LEMMA ReceiveSeen ==
    ASSUME IInv, NEW r \in Requests, NEW n \in Attempts, Receive(r, n)
    PROVE  OneStep(r)
<1>1. /\ <<r, n>> \in net /\ net' = net \ {<<r, n>>}
      /\ UNCHANGED <<endpoint, pc, outcome>>
  BY DEF Receive
<1>2. PICK applies \in BOOLEAN :
          /\ applies => (r \in Having("keyed") => <<r, 1>> \notin seen)
          /\ applied' = IF applies THEN [applied EXCEPT ![r] = @ + 1] ELSE applied
  BY DEF Receive, ClientOrderId
<1>3. CASE ~applies
  BY <1>1, <1>2, <1>3, CopyGoneGood, CopyGoneSeen
<1>4. CASE r \notin Having("keyed")
  <2>1. r \notin Having("keyed")'
    BY <1>1, <1>4 DEF Having
  <2>2. QED
    BY <1>4, <2>1, NoSubmission, NoSubmissionNext DEF OneStep
<1>5. CASE applies /\ r \in Having("keyed")
  <2>1. applied[r] = 0
    BY <1>2, <1>5, CallFacts DEF KeyTaken
  <2>2. applied'[r] = 1
    BY <1>2, <1>5, <2>1 DEF IInv, TypeOK
  <2>3. /\ r \in Having("keyed")'
        /\ r \in Running <=> r \in Running'
    BY <1>1, <1>5 DEF Having, Running
  <2>4. Pending(r)
    BY <1>1 DEF Pending
  <2>5. Wire(r) /\ Placed(r) = 0
    BY <1>5, <2>1, <2>4 DEF Wire, Placed
  <2>6. Seen(r)' = <<SubmissionStatus(r), FALSE, 1>>
    BY <1>1, <1>5, <2>2, <2>3 DEF Seen, SubmissionStatus, Wire, Placed
  <2>7. QED
    BY <2>5, <2>6 DEF OneStep
<1>6. QED
  BY <1>3, <1>4, <1>5

(* The retry loop goes on, or ends the call.                                *)
LEMMA LoopSeen ==
    ASSUME IInv, NEW r \in Requests, r \in Running,
           UNCHANGED <<endpoint, Exchange>>,
           \/ pc' = [pc EXCEPT ![r] = "backoff"]
           \/ \E how \in {"ok", "error", "cancelled"} : End(r, how) /\ (how = "ok" => reply[r] = "ok")
    PROVE  OneStep(r)
<1>1. /\ applied' = applied /\ Copies(r)' = Copies(r)
      /\ r \in Having("keyed") <=> r \in Having("keyed")'
  BY ExchangeUntouched DEF Having
<1>2. CASE r \notin Having("keyed")
  BY <1>1, <1>2, NoSubmission, NoSubmissionNext DEF OneStep
<1>3. CASE r \in Having("keyed") /\ pc' = [pc EXCEPT ![r] = "backoff"]
  <2>1. r \in Running'
    BY <1>3 DEF IInv, TypeOK, Running
  <2>2. Seen(r)' = Seen(r)
    BY <1>1, <1>3, <2>1 DEF Seen, SubmissionStatus, Wire, Placed
  <2>3. QED
    BY <2>2 DEF OneStep
<1>4. ASSUME r \in Having("keyed"), NEW how \in {"ok", "error", "cancelled"},
             End(r, how), how = "ok" => reply[r] = "ok"
      PROVE  OneStep(r)
  <2>1. pc'[r] = "done" /\ outcome'[r] = how
    BY <1>4 DEF End, IInv, TypeOK
  <2>2. r \notin Running'
    BY <2>1 DEF Running
  <2>3. SubmissionStatus(r) = "open" /\ Placed(r)' = Placed(r)
    BY <1>1, <1>4 DEF SubmissionStatus, Placed
  <2>4. CASE how = "ok"
    <3>1. applied[r] = 1
      <4>1. r \notin Having("read")
        BY <1>4 DEF Having
      <4>2. reply[r] = "ok"
        BY <1>4, <2>4
      <4>3. EndsTrue(r) /\ KeyTaken(r) /\ applied[r] \in Nat
        BY CallFacts
      <4>4. QED
        BY <1>4, <4>1, <4>2, <4>3 DEF EndsTrue, KeyTaken
    <3>2. Wire(r) = FALSE /\ Wire(r)' = FALSE /\ Placed(r) = 1
      BY <1>1, <1>4, <3>1 DEF Wire, Placed
    <3>3. SubmissionStatus(r)' = "ok"
      BY <1>1, <1>4, <2>1, <2>2, <2>4 DEF SubmissionStatus
    <3>4. Seen(r)' = <<"ok", Wire(r), Placed(r)>>
      BY <2>3, <3>2, <3>3 DEF Seen
    <3>5. QED
      BY <2>3, <3>2, <3>4 DEF OneStep
  <2>5. CASE how # "ok"
    <3>1. SubmissionStatus(r)' = "failed"
      BY <1>1, <1>4, <2>1, <2>2, <2>5 DEF SubmissionStatus
    <3>2. Wire(r)' \in {FALSE, Wire(r)}
      BY <1>1, <1>4 DEF Wire
    <3>3. Seen(r)' = <<"failed", Wire(r)', Placed(r)>>
      BY <2>3, <3>1 DEF Seen
    <3>4. QED
      BY <2>3, <3>2, <3>3 DEF OneStep
  <2>6. QED
    BY <2>4, <2>5
<1>5. QED
  BY <1>2, <1>3, <1>4

LEMMA TimeOutSeen ==
    ASSUME IInv, NEW r \in Requests, TimeOut(r)
    PROVE  OneStep(r)
<1>1. r \in Running /\ UNCHANGED <<endpoint, Exchange>>
  BY DEF TimeOut, Running
<1>2. pc' = [pc EXCEPT ![r] = "backoff"] \/ End(r, "error")
  BY DEF TimeOut, Retry
<1>3. QED
  BY <1>1, <1>2, LoopSeen

LEMMA HandleSeen ==
    ASSUME IInv, NEW r \in Requests, Handle(r)
    PROVE  OneStep(r)
<1>1. r \in Running /\ UNCHANGED <<endpoint, Exchange>>
  BY DEF Handle, Running
<1>2. pc' = [pc EXCEPT ![r] = "backoff"] \/ End(r, "error") \/ (reply[r] = "ok" /\ End(r, "ok"))
  BY DEF Handle, Retry
<1>3. QED
  BY <1>1, <1>2, LoopSeen

LEMMA CancelSeen ==
    ASSUME IInv, NEW r \in Requests, Cancel(r)
    PROVE  OneStep(r)
<1>1. r \in Running /\ UNCHANGED <<endpoint, Exchange>> /\ End(r, "cancelled")
  BY DEF Cancel
<1>2. QED
  BY <1>1, LoopSeen

LEMMA InitSeen == Init => Submission!Init
<1> SUFFICES ASSUME Init PROVE Submission!Init
  OBVIOUS
<1>1. \A r \in Requests : r \notin Having("keyed")
  BY ClientAssumption DEF Init, Having
<1>2. QED
  BY <1>1 DEF Submission!Init, SubmissionStatus

LEMMA NextSeen == IInv /\ [Next]_vars => [Submission!Next]_(Submission!vars)
<1> SUFFICES ASSUME IInv, [Next]_vars PROVE [Submission!Next]_(Submission!vars)
  OBVIOUS
<1>1. ASSUME NEW r \in Requests, OneStep(r), \A q \in Requests \ {r} : Same(q)
      PROVE  [Submission!Next]_(Submission!vars)
  <2>1. \A q \in Requests \ {r} : Seen(q)' = Seen(q)
    BY <1>1, SameSeen
  <2>2. QED
    BY <1>1, <2>1, OneStepIsNext
<1>2. ASSUME NEW r \in Requests, NEW e \in Endpoints, Call(r, e)
      PROVE  [Submission!Next]_(Submission!vars)
  BY <1>1, <1>2, CallGood, CallSeen
<1>3. ASSUME NEW r \in Requests, ReturnEarly(r) PROVE [Submission!Next]_(Submission!vars)
  BY <1>1, <1>3, ReturnEarlyGood, ReturnEarlySeen
<1>4. ASSUME NEW r \in Requests, Send(r) PROVE [Submission!Next]_(Submission!vars)
  BY <1>1, <1>4, SendGood, SendSeen
<1>5. ASSUME NEW r \in Requests, TimeOut(r) PROVE [Submission!Next]_(Submission!vars)
  BY <1>1, <1>5, TimeOutGood, TimeOutSeen
<1>6. ASSUME NEW r \in Requests, Handle(r) PROVE [Submission!Next]_(Submission!vars)
  BY <1>1, <1>6, HandleGood, HandleSeen
<1>7. ASSUME NEW r \in Requests, Cancel(r) PROVE [Submission!Next]_(Submission!vars)
  BY <1>1, <1>7, CancelGood, CancelSeen
<1>8. ASSUME NEW r \in Requests, NEW n \in Attempts, Receive(r, n)
      PROVE  [Submission!Next]_(Submission!vars)
  BY <1>1, <1>8, ReceiveGood, ReceiveSeen
<1>9. ASSUME NEW r \in Requests, NEW n \in Attempts, LoseCopy(r, n)
      PROVE  [Submission!Next]_(Submission!vars)
  BY <1>1, <1>9, LoseCopyGood, LoseCopySeen
<1>10. CASE UNCHANGED vars
  BY <1>10 DEF vars, Submission!vars, SubmissionStatus, Having, Running, Pending
<1>11. QED
  BY <1>2, <1>3, <1>4, <1>5, <1>6, <1>7, <1>8, <1>9, <1>10 DEF Next, ClientStep

(* Whatever is delayed, lost or retried, create_order and amend_order look  *)
(* to the trade executor like one request that is placed at most once and   *)
(* answered only then.                                                      *)
THEOREM ImplementsOrderSubmission == Spec => ImplementsSubmission
  BY Inductive, InitSeen, NextSeen, PTL DEF Spec, ImplementsSubmission, Submission!Spec

-----------------------------------------------------------------------------

Resubscribing == {"resubscribe", "resubscribing"}

(* Before connect() nothing is tracked; afterwards ws is the last           *)
(* connection made.                                                        *)
Wiring ==
    /\ ws = made
    /\ ws = 0 => subs = {} /\ loop = "out"

(* What is tracked has been sent on ws, or _resubscribe has it still to     *)
(* send, or it is late.  While the loop sleeps or connects nothing is       *)
(* promised: the next connection starts from all of subs.                   *)
Coverage ==
    /\ (loop \in {"out", "top", "read", "handle"} /\ ws # 0) => subs \ late \subseteq known[ws]
    /\ loop \in Resubscribing => subs \ late \subseteq known[ws] \cup todo

(* The connection that is about to be leaked: ws, once the loop sleeps      *)
(* while it is open, or while the set _resubscribe iterates over has grown, *)
(* for the iteration will then raise.                                      *)
Doomed ==
    IF loop \in {"sleep", "connect"} /\ ws \in open THEN 1
    ELSE IF loop \in Resubscribing /\ subs # iterated THEN 1
    ELSE 0

Leaks == Cardinality(open \ {ws}) + Doomed <= raced

(* Each disturbance is another task's subscription.                         *)
TrackedUsers == {u \in Users : user[u] = "subscribed"}

RacesCounted == raced \in Nat /\ raced <= Cardinality(TrackedUsers)

(* StreamTypeOK without the bound on raced, which follows.                  *)
Types ==
    /\ autoReconnect \in BOOLEAN
    /\ running \in BOOLEAN
    /\ made \in 0..MaxConnections
    /\ open \subseteq 1..made
    /\ known \in [Connections -> SUBSET Subscriptions]
    /\ subs \subseteq Subscriptions
    /\ handlers \subseteq Users
    /\ user \in [Users -> {"idle", "sending", "subscribed", "failed"}]
    /\ sentOn \in [Users -> 0..made]
    /\ loop \in {"out", "top", "read", "handle"} \cup Reconnecting \cup Over
    /\ origin \in {"check", "exhausted", "exception"}
    /\ attempts \in 0..(MaxReconnect - 1)
    /\ todo \subseteq subs /\ iterated \subseteq subs /\ sending \subseteq subs
    /\ closer \in {"idle", "closing", "closed"}
    /\ drops \in 0..MaxDrops
    /\ late \subseteq subs

(* The inductive invariant.                                                 *)
StreamInv == Types /\ Wiring /\ Coverage /\ Leaks /\ RacesCounted

-----------------------------------------------------------------------------
(* Connections are finitely many, and so are users.                         *)
LEMMA OpenIsFinite ==
    ASSUME Types, NEW S, S \subseteq open
    PROVE  IsFiniteSet(S) /\ Cardinality(S) \in Nat
<1>1. IsFiniteSet(1..made)
  BY FS_Interval DEF Types
<1>2. S \in SUBSET (1..made)
  BY DEF Types
<1>3. QED
  BY <1>1, <1>2, FS_Subset, FS_CardinalityType

LEMMA OpenConnections ==
    ASSUME Types
    PROVE  \A c \in open : c \in Connections /\ c \in 1..made
  BY WebSocketAssumption DEF Types, Connections

LEMMA TrackingIsFinite ==
    /\ IsFiniteSet(TrackedUsers)
    /\ Cardinality(TrackedUsers) \in Nat
    /\ Cardinality(TrackedUsers) <= Cardinality(Users)
<1>1. TrackedUsers \in SUBSET Users
  BY DEF TrackedUsers
<1>2. QED
  BY <1>1, WebSocketAssumption, FS_Subset, FS_CardinalityType

(* What closes leaks nothing.                                               *)
LEMMA FewerOpen ==
    ASSUME Types, NEW S, S \subseteq open \ {ws}
    PROVE  Cardinality(S) \in Nat /\ Cardinality(S) <= Cardinality(open \ {ws})
<1>1. IsFiniteSet(open \ {ws})
  BY OpenIsFinite
<1>2. QED
  BY <1>1, OpenIsFinite, FS_Subset

LEMMA InitStreamInv == ASSUME StreamInit PROVE StreamInv
<1>1. Types
  <2>1. autoReconnect \in BOOLEAN /\ running \in BOOLEAN
    BY DEF StreamInit
  <2>2. attempts \in 0..(MaxReconnect - 1) /\ drops \in 0..MaxDrops /\ made \in 0..MaxConnections
    BY WebSocketAssumption DEF StreamInit
  <2>3. known \in [Connections -> SUBSET Subscriptions]
    BY DEF StreamInit
  <2>4. /\ user \in [Users -> {"idle", "sending", "subscribed", "failed"}]
        /\ sentOn \in [Users -> 0..made]
    BY DEF StreamInit
  <2>5. QED
    BY <2>1, <2>2, <2>3, <2>4 DEF StreamInit, Types
<1>2. Wiring /\ Coverage
  BY DEF StreamInit, Wiring, Coverage, Resubscribing
<1>3. Leaks
  <2>1. open \ {ws} = {} /\ Doomed = 0 /\ raced = 0
    BY DEF StreamInit, Doomed, Resubscribing
  <2>2. QED
    BY <2>1, FS_EmptySet DEF Leaks
<1>4. RacesCounted
  BY TrackingIsFinite DEF StreamInit, RacesCounted
<1>5. QED
  BY <1>1, <1>2, <1>3, <1>4 DEF StreamInv

-----------------------------------------------------------------------------
Places == {"out", "top", "read", "handle"} \cup Reconnecting \cup Over

LEMMA DoomedIsOne == Doomed \in {0, 1}
  BY DEF Doomed

LEMMA LeaksFact ==
    ASSUME StreamInv
    PROVE  /\ Cardinality(open \ {ws}) \in Nat /\ raced \in Nat /\ Doomed \in {0, 1}
           /\ Cardinality(open \ {ws}) + Doomed <= raced
  BY FewerOpen, DoomedIsOne DEF StreamInv, Leaks, RacesCounted

(* A step that neither makes nor tracks anything keeps the invariant if the *)
(* subscriptions stay covered and no connection becomes doomed.             *)
LEMMA LoopMoves ==
    ASSUME StreamInv, UNCHANGED <<autoReconnect, ws, made, known, Tracking>>,
           running' \in BOOLEAN, open' \subseteq open,
           loop' \in Places, origin' \in {"check", "exhausted", "exception"},
           attempts' \in 0..(MaxReconnect - 1),
           todo' \subseteq subs, iterated' \subseteq subs, sending' \subseteq subs,
           closer' \in {"idle", "closing", "closed"}, drops' \in 0..MaxDrops,
           ws = 0 => loop' = "out", Coverage',
           Doomed' = 0 \/ Doomed' = Doomed
    PROVE  StreamInv'
<1>1. Types'
  BY DEF StreamInv, Types, Tracking, Places
<1>2. Wiring'
  BY DEF StreamInv, Wiring, Tracking
<1>3. Leaks'
  <2>1. Cardinality(open' \ {ws}) <= Cardinality(open \ {ws}) /\ Cardinality(open' \ {ws}) \in Nat
    BY FewerOpen DEF StreamInv
  <2>2. ws' = ws /\ raced' = raced
    BY DEF Tracking
  <2>3. QED
    BY <2>1, <2>2, LeaksFact DEF Leaks
<1>4. RacesCounted'
  BY DEF StreamInv, RacesCounted, TrackedUsers, Tracking
<1>5. QED
  BY <1>1, <1>2, <1>3, <1>4 DEF StreamInv

(* A loop that reads, or is over, leaks nothing.                            *)
LEMMA LoopReads ==
    ASSUME StreamInv, loop' \notin Reconnecting \/ (loop' = "sleep" /\ ws' \notin open')
    PROVE  Doomed' = 0
  BY DEF Doomed, Reconnecting, Resubscribing

LEMMA GoToMoves ==
    ASSUME StreamInv, NEW l \in Places, GoTo(l), UNCHANGED <<attempts, todo, iterated, sending>>,
           origin' \in {"check", "exhausted", "exception"},
           ws = 0 => l = "out", Coverage', Doomed' = 0 \/ Doomed' = Doomed
    PROVE  StreamInv'
<1>1. /\ loop' = l
      /\ UNCHANGED <<running, autoReconnect, ws, made, open, known, Tracking, closer, drops>>
  BY DEF GoTo, Connection
<1>2. QED
  BY <1>1, LoopMoves DEF StreamInv, Types

LEMMA RunStep == ASSUME StreamInv, Run PROVE StreamInv'
<1>1. GoTo("top") /\ UNCHANGED Retrying /\ loop = "out" /\ ws # 0
  BY DEF Run
<1>2. Coverage'
  BY <1>1 DEF StreamInv, Coverage, GoTo, Connection, Tracking, Resubscribing
<1>3. Doomed' = 0
  BY <1>1, LoopReads DEF GoTo, Reconnecting
<1>4. QED
  BY <1>1, <1>2, <1>3, GoToMoves DEF Retrying, Places, StreamInv, Types

LEMMA ReconnectStarts ==
    ASSUME StreamInv, NEW from \in {"check", "exhausted", "exception"}, StartReconnect(from),
           ws \notin open, ws # 0
    PROVE  StreamInv'
<1>1. GoTo("sleep") /\ origin' = from /\ attempts' = 0 /\ UNCHANGED <<todo, iterated, sending>>
  BY DEF StartReconnect
<1>2. Coverage'
  BY <1>1 DEF StreamInv, Coverage, GoTo, Resubscribing
<1>3. Doomed' = 0
  BY <1>1, LoopReads DEF GoTo, Connection
<1>4. /\ loop' = "sleep"
      /\ UNCHANGED <<running, autoReconnect, ws, made, open, known, Tracking, closer, drops>>
  BY <1>1 DEF GoTo, Connection
<1>5. attempts' \in 0..(MaxReconnect - 1)
  BY <1>1, WebSocketAssumption
<1>6. QED
  BY <1>1, <1>2, <1>3, <1>4, <1>5, LoopMoves DEF StreamInv, Types, Places, Reconnecting

(* The loop goes from one place where it reads to another.                  *)
LEMMA ReadingMoves ==
    ASSUME StreamInv, NEW l \in {"top", "read", "handle", "returned"}, GoTo(l), UNCHANGED Retrying,
           loop \in {"top", "read", "handle"}
    PROVE  StreamInv'
<1>1. ws # 0
  BY DEF StreamInv, Wiring
<1>2. Coverage'
  BY <1>1 DEF StreamInv, Coverage, GoTo, Connection, Tracking, Resubscribing
<1>3. Doomed' = 0
  BY LoopReads DEF GoTo, Reconnecting
<1>4. QED
  BY <1>1, <1>2, <1>3, GoToMoves DEF Retrying, Places, Over, StreamInv, Types

LEMMA TopStep == ASSUME StreamInv, Top PROVE StreamInv'
<1>1. loop = "top" /\ ws # 0
  BY DEF Top, StreamInv, Wiring
<1>2. CASE ws \notin open /\ StartReconnect("check")
  BY <1>1, <1>2, ReconnectStarts
<1>3. CASE (GoTo("returned") \/ GoTo("read")) /\ UNCHANGED Retrying
  BY <1>1, <1>3, ReadingMoves
<1>4. QED
  BY <1>2, <1>3 DEF Top

LEMMA MessageStep == ASSUME StreamInv, Message PROVE StreamInv'
  BY ReadingMoves DEF Message

LEMMA HandledStep == ASSUME StreamInv, Handled PROVE StreamInv'
  BY ReadingMoves DEF Handled

LEMMA LostStep == ASSUME StreamInv, Exhausted \/ ConnectionClosed PROVE StreamInv'
<1>1. loop = "read" /\ ws # 0 /\ ws \notin open
  BY DEF Exhausted, ConnectionClosed, StreamInv, Wiring
<1>2. CASE GoTo("returned") /\ UNCHANGED Retrying
  BY <1>1, <1>2, ReadingMoves
<1>3. CASE StartReconnect("exhausted") \/ StartReconnect("exception")
  BY <1>1, <1>3, ReconnectStarts
<1>4. QED
  BY <1>2, <1>3 DEF Exhausted, ConnectionClosed

LEMMA SleepOverStep == ASSUME StreamInv, SleepOver PROVE StreamInv'
<1>1. GoTo("connect") /\ UNCHANGED Retrying /\ loop = "sleep" /\ ws # 0
  BY DEF SleepOver, StreamInv, Wiring
<1>2. Coverage'
  BY <1>1 DEF Coverage, GoTo, Resubscribing
<1>3. Doomed' = Doomed
  BY <1>1 DEF Doomed, GoTo, Connection, Tracking, Retrying, Resubscribing
<1>4. QED
  BY <1>1, <1>2, <1>3, GoToMoves DEF Retrying, Places, Reconnecting, StreamInv, Types

(* A failed attempt dooms the connection only if it was doomed already: the *)
(* iteration raised because the set had grown.                              *)
LEMMA AttemptFailsStep ==
    ASSUME StreamInv, AttemptFails, loop \in Reconnecting,
           loop \in Resubscribing => subs # iterated \/ ws \notin open
    PROVE  StreamInv'
<1>1. /\ UNCHANGED <<autoReconnect, ws, made, open, known, Tracking, origin, todo, iterated,
                     sending, closer, drops>>
      /\ ws # 0
  BY DEF AttemptFails, Connection, StreamInv, Wiring, Reconnecting
<1>2. attempts' \in 0..(MaxReconnect - 1) /\ running' \in BOOLEAN
  <2>1. attempts \in 0..(MaxReconnect - 1) /\ running \in BOOLEAN
    BY DEF StreamInv, Types
  <2>2. CASE attempts + 1 < MaxReconnect
    BY <2>1, <2>2, WebSocketAssumption DEF AttemptFails
  <2>3. CASE ~(attempts + 1 < MaxReconnect)
    BY <2>1, <2>3 DEF AttemptFails
  <2>4. QED
    BY <2>2, <2>3
<1>3. loop' \in {"sleep", "raised", "returned"}
  BY DEF AttemptFails
<1>4. Coverage'
  BY <1>3 DEF Coverage, Resubscribing
<1>5. Doomed' = 0 \/ Doomed' = Doomed
  BY <1>1, <1>3 DEF Doomed, Resubscribing, Reconnecting
<1>6. QED
  BY <1>1, <1>2, <1>3, <1>4, <1>5, LoopMoves DEF StreamInv, Types, Places, Reconnecting, Over

LEMMA ConnectFailsStep == ASSUME StreamInv, ConnectFails PROVE StreamInv'
  BY AttemptFailsStep DEF ConnectFails, Reconnecting, Resubscribing

(* connect() leaks the connection it replaces if that is open, which Doomed *)
(* has counted before; a first connection replaces none.                    *)
LEMMA NewConnectionStep ==
    ASSUME StreamInv, NewConnection, loop = "connect" \/ (loop = "out" /\ ws = 0),
           loop' \in Places, UNCHANGED <<origin, attempts, sending, closer, drops>>,
           UNCHANGED <<subs, handlers, user, sentOn, raced>>,
           late' \subseteq subs, todo' \subseteq subs, iterated' \subseteq subs,
           Coverage', Doomed' = 0
    PROVE  StreamInv'
<1>1. /\ made \in 0..MaxConnections /\ made < MaxConnections
      /\ made' = made + 1 /\ ws' = made + 1 /\ open' = open \cup {made + 1}
      /\ running' = TRUE /\ UNCHANGED <<autoReconnect, known>>
  BY DEF NewConnection, StreamInv, Types
<1>2. made' \in 0..MaxConnections
  BY <1>1, WebSocketAssumption
<1>3. Types'
  <2>1. open' \subseteq 1..made' /\ sentOn' \in [Users -> 0..made']
    BY <1>1 DEF StreamInv, Types
  <2>2. running' \in BOOLEAN /\ autoReconnect' \in BOOLEAN
    BY <1>1 DEF StreamInv, Types
  <2>3. QED
    BY <1>1, <1>2, <2>1, <2>2 DEF StreamInv, Types, Places
<1>4. Wiring'
  BY <1>1 DEF Wiring
<1>5. Leaks'
  <2>1. open' \ {ws'} = open
    BY <1>1 DEF StreamInv, Types
  <2>2. Cardinality(open) <= Cardinality(open \ {ws}) + Doomed
    <3>1. CASE ws \in open
      <4>1. loop = "connect"
        BY <3>1 DEF StreamInv, Types
      <4>2. Doomed = 1
        BY <3>1, <4>1 DEF Doomed
      <4>3. Cardinality(open) = Cardinality(open \ {ws}) + 1
        <5>1. IsFiniteSet(open \ {ws}) /\ (open \ {ws}) \cup {ws} = open
          BY <3>1, OpenIsFinite DEF StreamInv
        <5>2. QED
          BY <5>1, FS_AddElement
      <4>4. QED
        BY <4>2, <4>3, LeaksFact
    <3>2. CASE ws \notin open
      <4>1. open \ {ws} = open
        BY <3>2
      <4>2. QED
        BY <4>1, LeaksFact
    <3>3. QED
      BY <3>1, <3>2
  <2>3. Cardinality(open) \in Nat
    BY OpenIsFinite DEF StreamInv
  <2>4. QED
    BY <2>1, <2>2, <2>3, LeaksFact DEF Leaks
<1>6. RacesCounted'
  BY DEF StreamInv, RacesCounted, TrackedUsers
<1>7. QED
  BY <1>3, <1>4, <1>5, <1>6 DEF StreamInv

LEMMA ConnectStep == ASSUME StreamInv, Connect PROVE StreamInv'
<1>1. /\ NewConnection /\ loop = "out" /\ ws = 0
      /\ UNCHANGED <<Tracking, Retrying, loop, closer, drops>>
  BY DEF Connect
<1>2. /\ UNCHANGED <<origin, attempts, sending, closer, drops, todo, iterated, loop>>
      /\ UNCHANGED <<subs, handlers, user, sentOn, raced, late>>
  BY <1>1 DEF Tracking, Retrying
<1>3. subs' = {}
  BY <1>1, <1>2 DEF StreamInv, Wiring
<1>4. Coverage'
  BY <1>1, <1>2, <1>3 DEF Coverage, Resubscribing
<1>5. Doomed' = 0
  BY <1>1, <1>2, LoopReads DEF Reconnecting
<1>6. loop' \in Places /\ late' \subseteq subs /\ todo' \subseteq subs /\ iterated' \subseteq subs
  BY <1>2 DEF StreamInv, Types, Places
<1>7. QED
  BY <1>1, <1>2, <1>4, <1>5, <1>6, NewConnectionStep

(* The new connection owes the server all of subs, and none is late.        *)
LEMMA ReconnectedStep == ASSUME StreamInv, Reconnected PROVE StreamInv'
<1>1. /\ NewConnection /\ loop = "connect" /\ loop' = "resubscribe"
      /\ todo' = subs /\ iterated' = subs /\ late' = {}
      /\ UNCHANGED <<origin, attempts, sending, closer, drops>>
      /\ UNCHANGED <<subs, handlers, user, sentOn, raced>>
  BY DEF Reconnected
<1>2. Coverage'
  BY <1>1 DEF Coverage
<1>3. Doomed' = 0
  BY <1>1 DEF Doomed
<1>4. QED
  BY <1>1, <1>2, <1>3, NewConnectionStep DEF Places, Reconnecting

LEMMA ResubscribeNextStep == ASSUME StreamInv, ResubscribeNext PROVE StreamInv'
<1>1. loop = "resubscribe" /\ ws # 0
  BY DEF ResubscribeNext, StreamInv, Wiring
<1>2. CASE AttemptFails /\ (subs # iterated \/ ws \notin open)
  BY <1>1, <1>2, AttemptFailsStep DEF Reconnecting
<1>3. CASE /\ subs = iterated /\ todo = {} /\ UNCHANGED Retrying
           /\ GoTo(IF origin = "check" THEN "read" ELSE "top")
  <2>1. PICK l \in {"read", "top"} : GoTo(l)
    BY <1>3
  <2>2. Coverage'
    BY <1>1, <1>3, <2>1 DEF StreamInv, Coverage, GoTo, Connection, Tracking, Resubscribing
  <2>3. Doomed' = 0
    BY <2>1, LoopReads DEF GoTo, Reconnecting
  <2>4. QED
    BY <1>1, <1>3, <2>1, <2>2, <2>3, GoToMoves DEF Retrying, Places, StreamInv, Types
<1>4. ASSUME NEW s \in todo, subs = iterated, sending' = {s}, GoTo("resubscribing"),
             UNCHANGED <<origin, attempts, todo, iterated>>
      PROVE  StreamInv'
  <2>1. /\ loop' = "resubscribing"
        /\ UNCHANGED <<running, autoReconnect, ws, made, open, known, Tracking, closer, drops>>
    BY <1>4 DEF GoTo, Connection
  <2>2. Coverage'
    BY <1>1, <1>4, <2>1 DEF StreamInv, Coverage, Tracking, Resubscribing
  <2>3. Doomed' = Doomed
    BY <1>1, <1>4, <2>1 DEF Doomed, Tracking, Resubscribing
  <2>4. QED
    BY <1>1, <1>4, <2>1, <2>2, <2>3, LoopMoves DEF StreamInv, Types, Places, Reconnecting
<1>5. QED
  BY <1>2, <1>3, <1>4 DEF ResubscribeNext

LEMMA ResubscribedStep == ASSUME StreamInv, Resubscribed PROVE StreamInv'
<1>1. loop = "resubscribing" /\ ws # 0
  BY DEF Resubscribed, StreamInv, Wiring
<1>2. CASE AttemptFails /\ ws \notin open
  BY <1>1, <1>2, AttemptFailsStep DEF Reconnecting
<1>3. CASE ws \in open
  <2>1. /\ known' = [known EXCEPT ![ws] = @ \cup sending]
        /\ todo' = todo \ sending /\ loop' = "resubscribe"
        /\ UNCHANGED <<autoReconnect, running, ws, made, open, origin, attempts, iterated, sending,
                       closer, drops>>
        /\ UNCHANGED <<subs, handlers, user, sentOn, raced, late>>
    BY <1>1, <1>3 DEF Resubscribed, Tracking
  <2>2. ws \in Connections
    BY <1>3, OpenConnections DEF StreamInv
  <2>3. known'[ws] = known[ws] \cup sending
    BY <2>1, <2>2 DEF StreamInv, Types
  <2>4. Types'
    <3>1. known' \in [Connections -> SUBSET Subscriptions]
      BY <2>1, <2>2 DEF StreamInv, Types
    <3>2. QED
      BY <2>1, <3>1 DEF StreamInv, Types, Reconnecting
  <2>5. Wiring'
    BY <1>1, <2>1 DEF StreamInv, Wiring
  <2>6. Coverage'
    BY <1>1, <2>1, <2>3 DEF StreamInv, Coverage, Resubscribing
  <2>7. Leaks'
    BY <1>1, <2>1 DEF StreamInv, Leaks, Doomed, Resubscribing
  <2>8. RacesCounted'
    BY <2>1 DEF StreamInv, RacesCounted, TrackedUsers
  <2>9. QED
    BY <2>4, <2>5, <2>6, <2>7, <2>8 DEF StreamInv
<1>4. QED
  BY <1>2, <1>3 DEF Resubscribed

-----------------------------------------------------------------------------
(* The other tasks.                                                         *)
LEMMA SubscribeStep == ASSUME StreamInv, NEW u \in Users, Subscribe(u) PROVE StreamInv'
<1>1. /\ user[u] = "idle" /\ handlers' = handlers \cup {u}
      /\ user' \in {[user EXCEPT ![u] = "sending"], [user EXCEPT ![u] = "failed"]}
      /\ \/ sentOn' = sentOn
         \/ ws \in open /\ sentOn' = [sentOn EXCEPT ![u] = ws]
      /\ UNCHANGED <<running, autoReconnect, ws, made, open, known, subs, raced, late, loop,
                     origin, attempts, todo, iterated, sending, closer, drops>>
  BY DEF Subscribe, Connection, Retrying
<1>2. Types'
  <2>1. user' \in [Users -> {"idle", "sending", "subscribed", "failed"}]
    BY <1>1 DEF StreamInv, Types
  <2>2. sentOn' \in [Users -> 0..made']
    <3>1. sentOn \in [Users -> 0..made]
      BY DEF StreamInv, Types
    <3>2. ws \in open => ws \in 0..made
      BY DEF StreamInv, Types
    <3>3. QED
      BY <1>1, <3>1, <3>2
  <2>3. QED
    BY <1>1, <2>1, <2>2 DEF StreamInv, Types
<1>3. Wiring' /\ Coverage'
  BY <1>1 DEF StreamInv, Wiring, Coverage
<1>4. Leaks'
  BY <1>1 DEF StreamInv, Leaks, Doomed
<1>5. RacesCounted'
  <2>1. \A o \in Users : user'[o] = "subscribed" <=> user[o] = "subscribed"
    BY <1>1 DEF StreamInv, Types
  <2>2. TrackedUsers' = TrackedUsers
    BY <2>1 DEF TrackedUsers
  <2>3. QED
    BY <1>1, <2>2 DEF StreamInv, RacesCounted
<1>6. QED
  BY <1>2, <1>3, <1>4, <1>5 DEF StreamInv

LEMMA SubscribeFailsStep == ASSUME StreamInv, NEW u \in Users, SubscribeFails(u) PROVE StreamInv'
<1>1. /\ user[u] = "sending" /\ user' = [user EXCEPT ![u] = "failed"]
      /\ UNCHANGED <<running, autoReconnect, ws, made, open, known, subs, handlers, sentOn, raced, late,
                     loop, origin, attempts, todo, iterated, sending, closer, drops>>
  BY DEF SubscribeFails, Connection, Retrying
<1>2. Types'
  BY <1>1 DEF StreamInv, Types
<1>3. Wiring' /\ Coverage'
  BY <1>1 DEF StreamInv, Wiring, Coverage
<1>4. Leaks'
  BY <1>1 DEF StreamInv, Leaks, Doomed
<1>5. RacesCounted'
  <2>1. TrackedUsers' = TrackedUsers
    BY <1>1 DEF TrackedUsers, StreamInv, Types
  <2>2. QED
    BY <1>1, <2>1 DEF StreamInv, RacesCounted
<1>6. QED
  BY <1>2, <1>3, <1>4, <1>5 DEF StreamInv

(* The subscription was sent on ws, or is late.  If it makes the set grow   *)
(* under _resubscribe, the connection is doomed and the race counted.       *)
LEMMA SubscribedStep == ASSUME StreamInv, NEW u \in Users, Subscribed(u) PROVE StreamInv'
<1> DEFINE s == Subscription[u]
           racing == loop \in Resubscribing /\ s \notin subs
<1>1. /\ user[u] = "sending" /\ sentOn[u] \in open
      /\ user' = [user EXCEPT ![u] = "subscribed"]
      /\ known' = [known EXCEPT ![sentOn[u]] = @ \cup {s}]
      /\ subs' = subs \cup {s}
      /\ raced' = IF racing THEN raced + 1 ELSE raced
      /\ late' = IF sentOn[u] # ws THEN late \cup {s} ELSE late
      /\ UNCHANGED <<autoReconnect, running, ws, made, open, handlers, sentOn, loop, origin, attempts,
                     todo, iterated, sending, closer, drops>>
  BY DEF Subscribed, Retrying, Resubscribing
<1>2. /\ sentOn[u] \in Connections /\ s \in Subscriptions /\ ws # 0
  <2>1. sentOn[u] \in Connections /\ sentOn[u] \in 1..made
    BY <1>1, OpenConnections DEF StreamInv
  <2>2. ws # 0
    BY <2>1 DEF StreamInv, Wiring
  <2>3. QED
    BY <2>1, <2>2 DEF Subscriptions
<1>3. /\ known'[sentOn[u]] = known[sentOn[u]] \cup {s}
      /\ \A c \in Connections : known[c] \subseteq known'[c]
  BY <1>1, <1>2 DEF StreamInv, Types
<1>4. Types'
  <2>1. known' \in [Connections -> SUBSET Subscriptions]
    BY <1>1, <1>2 DEF StreamInv, Types
  <2>2. user' \in [Users -> {"idle", "sending", "subscribed", "failed"}]
    BY <1>1 DEF StreamInv, Types
  <2>3. subs' \subseteq Subscriptions /\ late' \subseteq subs'
    BY <1>1, <1>2 DEF StreamInv, Types
  <2>4. todo' \subseteq subs' /\ iterated' \subseteq subs' /\ sending' \subseteq subs'
    BY <1>1 DEF StreamInv, Types
  <2>5. QED
    BY <1>1, <2>1, <2>2, <2>3, <2>4 DEF StreamInv, Types
<1>5. Wiring'
  BY <1>1, <1>2 DEF StreamInv, Wiring
<1>6. Coverage'
  <2>1. ws \in Connections
    BY <1>2 DEF StreamInv, Wiring, Types, Connections
  <2>2. s \in late' \/ s \in known'[ws]
    BY <1>1, <1>3
  <2>3. known[ws] \subseteq known'[ws] /\ late \subseteq late'
    BY <1>1, <1>3, <2>1
  <2>4. QED
    BY <1>1, <2>2, <2>3 DEF StreamInv, Coverage
<1>7. Leaks'
  <2>1. CASE racing
    <3>1. Doomed' \in {0, 1}
      BY DEF Doomed
    <3>2. Doomed = 0 \/ Doomed = 1
      BY DoomedIsOne
    <3>3. QED
      BY <1>1, <2>1, <3>1, <3>2, LeaksFact DEF Leaks
  <2>2. CASE ~racing
    <3>1. Doomed' = Doomed
      BY <1>1, <2>2 DEF Doomed, Resubscribing
    <3>2. QED
      BY <1>1, <2>2, <3>1, LeaksFact DEF Leaks
  <2>3. QED
    BY <2>1, <2>2
<1>8. RacesCounted'
  <2>1. TrackedUsers' = TrackedUsers \cup {u} /\ u \notin TrackedUsers
    BY <1>1 DEF TrackedUsers, StreamInv, Types
  <2>2. Cardinality(TrackedUsers') = Cardinality(TrackedUsers) + 1
    BY <2>1, TrackingIsFinite, FS_AddElement
  <2>3. QED
    BY <1>1, <2>2, TrackingIsFinite DEF StreamInv, RacesCounted
<1>9. QED
  BY <1>4, <1>5, <1>6, <1>7, <1>8 DEF StreamInv

LEMMA CloseStep == ASSUME StreamInv, Close \/ CloseReturns PROVE StreamInv'
<1>1. /\ UNCHANGED <<autoReconnect, ws, made, known, Tracking, loop, Retrying, drops>>
      /\ closer' \in {"idle", "closing", "closed"}
      /\ running' \in BOOLEAN
      /\ open' = open \/ open' = open \ {ws}
  BY DEF Close, CloseReturns, Connection, StreamInv, Types
<1>2. UNCHANGED <<subs, late, origin, attempts, todo, iterated, sending>>
  BY <1>1 DEF Tracking, Retrying
<1>3. Coverage'
  BY <1>1, <1>2 DEF StreamInv, Coverage
<1>4. Doomed' = 0 \/ Doomed' = Doomed
  BY <1>1, <1>2 DEF Doomed
<1>5. QED
  BY <1>1, <1>2, <1>3, <1>4, LoopMoves DEF StreamInv, Types, Places, Wiring

LEMMA DropStep == ASSUME StreamInv, NEW c \in Connections, Drop(c) PROVE StreamInv'
<1>1. /\ UNCHANGED <<autoReconnect, ws, made, known, Tracking, loop, Retrying, running, closer>>
      /\ drops' \in 0..MaxDrops
      /\ open' = open \ {c}
  BY WebSocketAssumption DEF Drop, StreamInv, Types
<1>2. UNCHANGED <<subs, late, origin, attempts, todo, iterated, sending>>
  BY <1>1 DEF Tracking, Retrying
<1>3. Coverage'
  BY <1>1, <1>2 DEF StreamInv, Coverage
<1>4. Doomed' = 0 \/ Doomed' = Doomed
  BY <1>1, <1>2 DEF Doomed
<1>5. QED
  BY <1>1, <1>2, <1>3, <1>4, LoopMoves DEF StreamInv, Types, Places, Wiring

LEMMA StreamStutter == ASSUME StreamInv, UNCHANGED streamVars PROVE StreamInv'
<1>1. UNCHANGED <<Connection, Tracking, Retrying, running, loop, closer, drops>>
  BY DEF streamVars, Connection, Tracking, Retrying
<1>2. Coverage'
  BY DEF StreamInv, Coverage, streamVars
<1>3. Doomed' = Doomed
  BY DEF Doomed, streamVars
<1>4. QED
  BY <1>1, <1>2, <1>3, LoopMoves DEF StreamInv, Types, Places, Wiring, Connection, Retrying

-----------------------------------------------------------------------------
LEMMA NextStreamInv == ASSUME StreamInv, [StreamNext]_streamVars PROVE StreamInv'
<1>1. CASE LoopStep
  BY <1>1, TopStep, HandledStep, LostStep, SleepOverStep, ReconnectedStep, ConnectFailsStep,
     ResubscribeNextStep, ResubscribedStep DEF LoopStep
<1>2. CASE \E u \in Users : Subscribe(u) \/ Subscribed(u) \/ SubscribeFails(u)
  BY <1>2, SubscribeStep, SubscribedStep, SubscribeFailsStep
<1>3. CASE \E c \in Connections : Drop(c)
  BY <1>3, DropStep
<1>4. QED
  BY <1>1, <1>2, <1>3, ConnectStep, RunStep, MessageStep, CloseStep, StreamStutter DEF StreamNext

LEMMA StreamInvSound == ASSUME StreamInv PROVE ConnectionsSound
<1>1. Cardinality(TrackedUsers) <= Cardinality(Users) /\ Cardinality(Users) \in Nat
  BY TrackingIsFinite, WebSocketAssumption, FS_CardinalityType
<1>2. raced \in 0..Cardinality(Users)
  BY <1>1, TrackingIsFinite DEF StreamInv, RacesCounted
<1>3. ws \in 0..made
  BY DEF StreamInv, Types, Wiring
<1>4. StreamTypeOK
  BY <1>2, <1>3 DEF StreamInv, Types, StreamTypeOK
<1>5. ReadsAllSubscriptions
  <2>1. SUFFICES ASSUME loop \in {"read", "handle"}, ws \in open PROVE subs \ late \subseteq known[ws]
    BY DEF ReadsAllSubscriptions
  <2>2. ws # 0
    BY <2>1 DEF StreamInv, Wiring
  <2>3. QED
    BY <2>1, <2>2 DEF StreamInv, Coverage
<1>6. LeaksBounded
  BY LeaksFact DEF LeaksBounded
<1>7. QED
  BY <1>4, <1>5, <1>6 DEF ConnectionsSound

(* What run_forever reads, and what connect() leaves open behind it, for    *)
(* any number of tasks, drops, failed attempts and a close() at any time:   *)
(* the connection that is read carries every subscription that is tracked   *)
(* and not late, and each connection left open was paid for by a            *)
(* subscribe() during a _resubscribe.                                      *)
THEOREM ConnectionsAreSound == StreamSpec => []ConnectionsSound
<1>1. StreamInit => StreamInv
  BY InitStreamInv
<1>2. StreamInv /\ [StreamNext]_streamVars => StreamInv'
  BY NextStreamInv
<1>3. StreamInv => ConnectionsSound
  BY StreamInvSound
<1>4. QED
  BY <1>1, <1>2, <1>3, PTL DEF StreamSpec

-----------------------------------------------------------------------------
(* The scripts of the golden fixtures.                                      *)

(* The first of some numbers.                                               *)
LEMMA LeastOfSome == ASSUME NEW S \in SUBSET Nat, S # {} PROVE Min(S) \in S /\ \A m \in S : Min(S) <= m
<1> DEFINE R == OpToRel(<, Nat)
<1>1. IsWellFoundedOn(R, Nat)
  BY NatLessThanWellFounded
<1>2. \A x, y \in Nat : x < y => <<x, y>> \in R
  BY DEF OpToRel
<1> HIDE DEF R
<1>3. PICK x \in S : \A y \in S : ~(<<y, x>> \in R)
  BY <1>1, WFMin
<1>4. \A m \in S : ~(m < x)
  BY <1>2, <1>3
<1>5. \A m \in S : x <= m
  BY <1>4
<1>6. QED
  BY <1>5 DEF Min

(* The steps that matter for what a run leaves behind.                      *)
Marked == OrderCreates \cup Undoing \cup {"amend_order", "combination", LookupFile}

(* The step after which it rests at the exchange, and the one that ends it. *)
CreateOf(o) ==
    CASE o = "single" -> "create_order"
      [] o = "amend" -> "amend_create"
      [] o = "amended" -> "amend_order"
      [] o \in {"batch1", "batch2"} -> "batch_create_orders"
      [] OTHER -> "order_group_create"

UndoOf(o) ==
    CASE o = "single" -> "cancel_order"
      [] o \in {"amend", "amended"} -> "amend_cancel"
      [] o \in {"batch1", "batch2"} -> "batch_cancel_orders"
      [] OTHER -> "order_group_delete"

(* What a plan may do between the two.                                      *)
Between(o) ==
    CASE o = "single" -> {"portfolio_order_single", "order_queue_position", "order_queue_positions",
                          "decrease_order", "portfolio_total_resting_order_value"}
      [] o = "amend" -> {"amend_order"}
      [] o = "group" -> {"order_groups_list", "order_group_single", "order_group_reset"}
      [] OTHER -> {}

Placeable == {"single", "amend", "amended", "batch1", "batch2", "group"}

Undone(p, o, i) ==
    \E u \in DOMAIN p : /\ i < u /\ p[u] = UndoOf(o)
                        /\ \A j \in DOMAIN p : i < j /\ j < u => p[j] \in Between(o)

(* The second follows on the first.                                         *)
Preceded(p, first, second) ==
    \A j \in DOMAIN p : p[j] = second => \E k \in DOMAIN p : k < j /\ p[k] = first

(* A plan takes each of these steps once, and undoes what it creates.       *)
InOrder(p) ==
    /\ \A i, j \in DOMAIN p : p[i] = p[j] /\ p[i] \in Marked => i = j
    /\ \A o \in Placeable : \A i \in DOMAIN p : p[i] = CreateOf(o) => Undone(p, o, i)
    /\ Preceded(p, "amend_create", "amend_order")
    /\ Preceded(p, "combination", LookupFile)
    /\ Preceded(p, "lookup_history", "combination")

(* Every step of a plan.                                                    *)
PlainSteps == UNION {StepSet(PublicSteps), StepSet(SeriesSteps), StepSet(Phase3Steps), StepSet(ExchangeSteps),
                     StepSet(MilestoneSteps), StepSet(LiveSteps), StepSet(IncentiveSteps),
                     StepSet(CollectionSteps), StepSet(ReadSteps)}
Steps == UNION {PlainSteps, StepSet(GroupSteps), StepSet(LookupSteps), {"order_markets"},
                StepSet(SingleSteps), StepSet(AmendSteps), StepSet(BatchSteps)}

LEMMA SetOfJoined ==
    ASSUME NEW p \in Seq(Steps), NEW q \in Seq(Steps)
    PROVE  StepSet(p \o q) = StepSet(p) \cup StepSet(q) /\ p \o q \in Seq(Steps)
<1>1. /\ Len(p) \in Nat /\ Len(q) \in Nat /\ Len(p \o q) = Len(p) + Len(q)
      /\ \A i \in 1..Len(p) : (p \o q)[i] = p[i]
      /\ \A i \in 1..Len(q) : (p \o q)[Len(p) + i] = q[i]
      /\ DOMAIN p = 1..Len(p) /\ DOMAIN q = 1..Len(q) /\ DOMAIN (p \o q) = 1..(Len(p) + Len(q))
      /\ p \o q \in Seq(Steps)
  OBVIOUS
<1>2. ASSUME NEW x \in StepSet(p \o q)
      PROVE  x \in StepSet(p) \cup StepSet(q)
  <2>1. PICK i \in 1..(Len(p) + Len(q)) : x = (p \o q)[i]
    BY <1>1 DEF StepSet
  <2>2. CASE i <= Len(p)
    BY <1>1, <2>1, <2>2 DEF StepSet
  <2>3. CASE i > Len(p)
    <3>1. i - Len(p) \in 1..Len(q) /\ Len(p) + (i - Len(p)) = i
      BY <1>1, <2>3
    <3>2. QED
      BY <1>1, <2>1, <3>1 DEF StepSet
  <2>4. QED
    BY <1>1, <2>2, <2>3
<1>3. ASSUME NEW i \in 1..Len(p)
      PROVE  p[i] \in StepSet(p \o q)
  <2>1. i \in 1..(Len(p) + Len(q))
    BY <1>1
  <2>2. QED
    BY <1>1, <2>1 DEF StepSet
<1>4. ASSUME NEW i \in 1..Len(q)
      PROVE  q[i] \in StepSet(p \o q)
  <2>1. Len(p) + i \in 1..(Len(p) + Len(q))
    BY <1>1
  <2>2. QED
    BY <1>1, <2>1 DEF StepSet
<1>5. QED
  BY <1>1, <1>2, <1>3, <1>4, SMTT(40) DEF StepSet

LEMMA PlainInOrder ==
    ASSUME NEW p \in Seq(Steps), StepSet(p) \cap Marked = {}
    PROVE  InOrder(p)
<1>1. \A i \in DOMAIN p : p[i] \notin Marked
  BY DEF StepSet
<1>2. \A o \in Placeable : CreateOf(o) \in Marked
  BY DEF Marked, OrderCreates, CreateOf, Placeable
<1>3. "amend_order" \in Marked /\ "combination" \in Marked /\ LookupFile \in Marked
  BY DEF Marked
<1>4. QED
  BY <1>1, <1>2, <1>3 DEF InOrder, Preceded

LEMMA JoinedInOrder ==
    ASSUME NEW p \in Seq(Steps), NEW q \in Seq(Steps), InOrder(p), InOrder(q),
           StepSet(p) \cap StepSet(q) \cap Marked = {}
    PROVE  InOrder(p \o q)
<1> DEFINE m == Len(p)
           n == Len(q)
           r == p \o q
<1>1. /\ m \in Nat /\ n \in Nat
      /\ DOMAIN p = 1..m /\ DOMAIN q = 1..n /\ DOMAIN r = 1..(m + n)
      /\ \A i \in 1..m : r[i] = p[i]
      /\ \A i \in 1..n : r[m + i] = q[i]
  OBVIOUS
<1> HIDE DEF m, n, r
<1>2. ASSUME NEW i \in 1..(m + n), i > m
      PROVE  i - m \in 1..n /\ r[i] = q[i - m]
  <2>1. i - m \in 1..n /\ m + (i - m) = i
    BY <1>1, <1>2
  <2>2. QED
    BY <1>1, <2>1
<1>3. ASSUME NEW i \in 1..m, NEW k \in 1..n, p[i] = q[k]
      PROVE  p[i] \notin Marked
  BY <1>1, <1>3 DEF StepSet
<1>4. ASSUME NEW i \in 1..(m + n), NEW j \in 1..(m + n), r[i] = r[j], r[i] \in Marked
      PROVE  i = j
  <2>1. CASE i <= m /\ j <= m
    BY <1>1, <1>4, <2>1 DEF InOrder
  <2>2. CASE i > m /\ j > m
    <3>1. q[i - m] = q[j - m] /\ q[i - m] \in Marked /\ i - m \in 1..n /\ j - m \in 1..n
      BY <1>2, <1>4, <2>2
    <3>2. i - m = j - m
      BY <1>1, <3>1 DEF InOrder
    <3>3. QED
      BY <1>1, <3>2
  <2>3. CASE i <= m /\ j > m
    BY <1>1, <1>2, <1>3, <1>4, <2>3
  <2>4. CASE i > m /\ j <= m
    BY <1>1, <1>2, <1>3, <1>4, <2>4
  <2>5. QED
    BY <1>1, <2>1, <2>2, <2>3, <2>4
<1>5. ASSUME NEW o \in Placeable, NEW i \in 1..(m + n), r[i] = CreateOf(o)
      PROVE  Undone(r, o, i)
  <2>1. CASE i <= m
    <3>1. PICK u \in 1..m : /\ i < u /\ p[u] = UndoOf(o)
                            /\ \A j \in 1..m : i < j /\ j < u => p[j] \in Between(o)
      <4>1. i \in DOMAIN p /\ p[i] = CreateOf(o)
        BY <1>1, <1>5, <2>1
      <4>2. Undone(p, o, i)
        BY <4>1 DEF InOrder
      <4>3. QED
        BY <1>1, <4>2 DEF Undone
    <3>2. u \in 1..(m + n) /\ r[u] = UndoOf(o)
      BY <1>1, <3>1
    <3>3. ASSUME NEW j \in 1..(m + n), i < j, j < u
          PROVE  r[j] \in Between(o)
      <4>1. j \in 1..m
        BY <1>1, <3>3
      <4>2. QED
        BY <1>1, <3>1, <3>3, <4>1
    <3>4. QED
      BY <1>1, <3>1, <3>2, <3>3 DEF Undone
  <2>2. CASE i > m
    <3>1. i - m \in 1..n /\ q[i - m] = CreateOf(o)
      BY <1>2, <1>5, <2>2
    <3>2. PICK u \in 1..n : /\ i - m < u /\ q[u] = UndoOf(o)
                            /\ \A j \in 1..n : i - m < j /\ j < u => q[j] \in Between(o)
      BY <1>1, <3>1 DEF InOrder, Undone
    <3>3. m + u \in 1..(m + n) /\ r[m + u] = UndoOf(o) /\ i < m + u
      BY <1>1, <3>2
    <3>4. ASSUME NEW j \in 1..(m + n), i < j, j < m + u
          PROVE  r[j] \in Between(o)
      <4>1. j > m /\ i - m < j - m /\ j - m < u
        BY <1>1, <2>2, <3>4
      <4>2. j - m \in 1..n /\ r[j] = q[j - m]
        BY <1>2, <4>1
      <4>3. QED
        BY <3>2, <4>1, <4>2
    <3>5. QED
      BY <1>1, <3>3, <3>4 DEF Undone
  <2>3. QED
    BY <1>1, <2>1, <2>2
<1>6. ASSUME NEW first, NEW second, Preceded(p, first, second), Preceded(q, first, second)
      PROVE  Preceded(r, first, second)
  <2>1. SUFFICES ASSUME NEW j \in 1..(m + n), r[j] = second
                 PROVE  \E k \in 1..(m + n) : k < j /\ r[k] = first
    BY <1>1 DEF Preceded
  <2>2. CASE j <= m
    <3>1. PICK k \in 1..m : k < j /\ p[k] = first
      BY <1>1, <1>6, <2>1, <2>2 DEF Preceded
    <3>2. QED
      BY <1>1, <3>1
  <2>3. CASE j > m
    <3>1. j - m \in 1..n /\ q[j - m] = second
      BY <1>2, <2>1, <2>3
    <3>2. PICK k \in 1..n : k < j - m /\ q[k] = first
      BY <1>1, <1>6, <3>1 DEF Preceded
    <3>3. m + k \in 1..(m + n) /\ m + k < j /\ r[m + k] = first
      BY <1>1, <3>2
    <3>4. QED
      BY <3>3
  <2>4. QED
    BY <1>1, <2>2, <2>3
<1>7. /\ Preceded(r, "amend_create", "amend_order")
      /\ Preceded(r, "combination", LookupFile)
      /\ Preceded(r, "lookup_history", "combination")
  BY <1>6 DEF InOrder
<1>8. InOrder(r)
  BY <1>1, <1>4, <1>5, <1>7 DEF InOrder
<1>9. QED
  BY <1>8 DEF r

(* The steps of each part of a plan.                                        *)
LEMMA PublicPart ==
    /\ PublicSteps \in Seq(StepSet(PublicSteps))
    /\ StepSet(PublicSteps) = {"tags_by_categories", "markets_list", "market_single", "orderbook",
        "events_list", "events_multivariate_list", "event_single", "trades_list",
        "candlesticks_batch", "candlesticks_batch_365d", "series_candlesticks",
        "series_candlesticks_365d", "exchange_status"}
<1> DEFINE p == PublicSteps
<1>1. /\ DOMAIN p = 1..13
      /\ p[1] = "tags_by_categories"
      /\ p[2] = "markets_list"
      /\ p[3] = "market_single"
      /\ p[4] = "orderbook"
      /\ p[5] = "events_list"
      /\ p[6] = "events_multivariate_list"
      /\ p[7] = "event_single"
      /\ p[8] = "trades_list"
      /\ p[9] = "candlesticks_batch"
      /\ p[10] = "candlesticks_batch_365d"
      /\ p[11] = "series_candlesticks"
      /\ p[12] = "series_candlesticks_365d"
      /\ p[13] = "exchange_status"
  BY DEF PublicSteps
<1>2. DOMAIN p = {1, 2, 3, 4, 5, 6, 7, 8, 9, 10, 11, 12, 13}
  BY <1>1
<1> HIDE DEF p
<1>3. StepSet(p) = {"tags_by_categories", "markets_list", "market_single", "orderbook",
          "events_list", "events_multivariate_list", "event_single", "trades_list",
          "candlesticks_batch", "candlesticks_batch_365d", "series_candlesticks",
          "series_candlesticks_365d", "exchange_status"}
  BY <1>1, <1>2 DEF StepSet
<1> DEFINE S == StepSet(p)
<1>4. "tags_by_categories" \in S /\ "markets_list" \in S /\ "market_single" \in S /\ "orderbook" \in S /\
        "events_list" \in S /\ "events_multivariate_list" \in S /\ "event_single" \in S /\
        "trades_list" \in S /\ "candlesticks_batch" \in S /\ "candlesticks_batch_365d" \in S /\
        "series_candlesticks" \in S /\ "series_candlesticks_365d" \in S /\ "exchange_status" \in S
  BY <1>3
<1> HIDE DEF S
<1>5. PublicSteps \in Seq(S)
  BY <1>4 DEF PublicSteps
<1>6. QED
  BY <1>3, <1>5 DEF p, S

LEMMA SeriesPart ==
    /\ SeriesSteps \in Seq(StepSet(SeriesSteps))
    /\ StepSet(SeriesSteps) = {"series_list", "series_single", "series_fee_changes"}
<1> DEFINE p == SeriesSteps
<1>1. /\ DOMAIN p = 1..3
      /\ p[1] = "series_list"
      /\ p[2] = "series_single"
      /\ p[3] = "series_fee_changes"
  BY DEF SeriesSteps
<1>2. DOMAIN p = {1, 2, 3}
  BY <1>1
<1> HIDE DEF p
<1>3. StepSet(p) = {"series_list", "series_single", "series_fee_changes"}
  BY <1>1, <1>2 DEF StepSet
<1> DEFINE S == StepSet(p)
<1>4. "series_list" \in S /\ "series_single" \in S /\ "series_fee_changes" \in S
  BY <1>3
<1> HIDE DEF S
<1>5. SeriesSteps \in Seq(S)
  BY <1>4 DEF SeriesSteps
<1>6. QED
  BY <1>3, <1>5 DEF p, S

LEMMA Phase3Part ==
    /\ Phase3Steps \in Seq(StepSet(Phase3Steps))
    /\ StepSet(Phase3Steps) = {"events_probe", "event_metadata", "event_candlesticks",
        "event_candlesticks_365d", "filters_by_sport", "structured_targets_list",
        "structured_target_single"}
<1> DEFINE p == Phase3Steps
<1>1. /\ DOMAIN p = 1..7
      /\ p[1] = "events_probe"
      /\ p[2] = "event_metadata"
      /\ p[3] = "event_candlesticks"
      /\ p[4] = "event_candlesticks_365d"
      /\ p[5] = "filters_by_sport"
      /\ p[6] = "structured_targets_list"
      /\ p[7] = "structured_target_single"
  BY DEF Phase3Steps
<1>2. DOMAIN p = {1, 2, 3, 4, 5, 6, 7}
  BY <1>1
<1> HIDE DEF p
<1>3. StepSet(p) = {"events_probe", "event_metadata", "event_candlesticks",
          "event_candlesticks_365d", "filters_by_sport", "structured_targets_list",
          "structured_target_single"}
  BY <1>1, <1>2 DEF StepSet
<1> DEFINE S == StepSet(p)
<1>4. "events_probe" \in S /\ "event_metadata" \in S /\ "event_candlesticks" \in S /\
        "event_candlesticks_365d" \in S /\ "filters_by_sport" \in S /\ "structured_targets_list" \in S /\
        "structured_target_single" \in S
  BY <1>3
<1> HIDE DEF S
<1>5. Phase3Steps \in Seq(S)
  BY <1>4 DEF Phase3Steps
<1>6. QED
  BY <1>3, <1>5 DEF p, S

LEMMA ExchangePart ==
    /\ ExchangeSteps \in Seq(StepSet(ExchangeSteps))
    /\ StepSet(ExchangeSteps) = {"exchange_schedule", "exchange_announcements",
        "user_data_timestamp"}
<1> DEFINE p == ExchangeSteps
<1>1. /\ DOMAIN p = 1..3
      /\ p[1] = "exchange_schedule"
      /\ p[2] = "exchange_announcements"
      /\ p[3] = "user_data_timestamp"
  BY DEF ExchangeSteps
<1>2. DOMAIN p = {1, 2, 3}
  BY <1>1
<1> HIDE DEF p
<1>3. StepSet(p) = {"exchange_schedule", "exchange_announcements", "user_data_timestamp"}
  BY <1>1, <1>2 DEF StepSet
<1> DEFINE S == StepSet(p)
<1>4. "exchange_schedule" \in S /\ "exchange_announcements" \in S /\ "user_data_timestamp" \in S
  BY <1>3
<1> HIDE DEF S
<1>5. ExchangeSteps \in Seq(S)
  BY <1>4 DEF ExchangeSteps
<1>6. QED
  BY <1>3, <1>5 DEF p, S

LEMMA MilestonePart ==
    /\ MilestoneSteps \in Seq(StepSet(MilestoneSteps))
    /\ StepSet(MilestoneSteps) = {"milestones_list", "milestone_single"}
<1> DEFINE p == MilestoneSteps
<1>1. /\ DOMAIN p = 1..2
      /\ p[1] = "milestones_list"
      /\ p[2] = "milestone_single"
  BY DEF MilestoneSteps
<1>2. DOMAIN p = {1, 2}
  BY <1>1
<1> HIDE DEF p
<1>3. StepSet(p) = {"milestones_list", "milestone_single"}
  BY <1>1, <1>2 DEF StepSet
<1> DEFINE S == StepSet(p)
<1>4. "milestones_list" \in S /\ "milestone_single" \in S
  BY <1>3
<1> HIDE DEF S
<1>5. MilestoneSteps \in Seq(S)
  BY <1>4 DEF MilestoneSteps
<1>6. QED
  BY <1>3, <1>5 DEF p, S

LEMMA LivePart ==
    /\ LiveSteps \in Seq(StepSet(LiveSteps))
    /\ StepSet(LiveSteps) = {"live_data_milestone", "live_data_batch"}
<1> DEFINE p == LiveSteps
<1>1. /\ DOMAIN p = 1..2
      /\ p[1] = "live_data_milestone"
      /\ p[2] = "live_data_batch"
  BY DEF LiveSteps
<1>2. DOMAIN p = {1, 2}
  BY <1>1
<1> HIDE DEF p
<1>3. StepSet(p) = {"live_data_milestone", "live_data_batch"}
  BY <1>1, <1>2 DEF StepSet
<1> DEFINE S == StepSet(p)
<1>4. "live_data_milestone" \in S /\ "live_data_batch" \in S
  BY <1>3
<1> HIDE DEF S
<1>5. LiveSteps \in Seq(S)
  BY <1>4 DEF LiveSteps
<1>6. QED
  BY <1>3, <1>5 DEF p, S

LEMMA IncentivePart ==
    /\ IncentiveSteps \in Seq(StepSet(IncentiveSteps))
    /\ StepSet(IncentiveSteps) = {"incentive_programs"}
<1> DEFINE p == IncentiveSteps
<1>1. /\ DOMAIN p = 1..1
      /\ p[1] = "incentive_programs"
  BY DEF IncentiveSteps
<1>2. DOMAIN p = {1}
  BY <1>1
<1> HIDE DEF p
<1>3. StepSet(p) = {"incentive_programs"}
  BY <1>1, <1>2 DEF StepSet
<1> DEFINE S == StepSet(p)
<1>4. "incentive_programs" \in S
  BY <1>3
<1> HIDE DEF S
<1>5. IncentiveSteps \in Seq(S)
  BY <1>4 DEF IncentiveSteps
<1>6. QED
  BY <1>3, <1>5 DEF p, S

LEMMA CollectionPart ==
    /\ CollectionSteps \in Seq(StepSet(CollectionSteps))
    /\ StepSet(CollectionSteps) = {"multivariate_event_collections_list",
        "multivariate_event_collection_single"}
<1> DEFINE p == CollectionSteps
<1>1. /\ DOMAIN p = 1..2
      /\ p[1] = "multivariate_event_collections_list"
      /\ p[2] = "multivariate_event_collection_single"
  BY DEF CollectionSteps
<1>2. DOMAIN p = {1, 2}
  BY <1>1
<1> HIDE DEF p
<1>3. StepSet(p) = {"multivariate_event_collections_list", "multivariate_event_collection_single"}
  BY <1>1, <1>2 DEF StepSet
<1> DEFINE S == StepSet(p)
<1>4. "multivariate_event_collections_list" \in S /\ "multivariate_event_collection_single" \in S
  BY <1>3
<1> HIDE DEF S
<1>5. CollectionSteps \in Seq(S)
  BY <1>4 DEF CollectionSteps
<1>6. QED
  BY <1>3, <1>5 DEF p, S

LEMMA ReadPart ==
    /\ ReadSteps \in Seq(StepSet(ReadSteps))
    /\ StepSet(ReadSteps) = {"portfolio_balance", "portfolio_positions", "portfolio_orders",
        "portfolio_fills", "portfolio_settlements"}
<1> DEFINE p == ReadSteps
<1>1. /\ DOMAIN p = 1..5
      /\ p[1] = "portfolio_balance"
      /\ p[2] = "portfolio_positions"
      /\ p[3] = "portfolio_orders"
      /\ p[4] = "portfolio_fills"
      /\ p[5] = "portfolio_settlements"
  BY DEF ReadSteps
<1>2. DOMAIN p = {1, 2, 3, 4, 5}
  BY <1>1
<1> HIDE DEF p
<1>3. StepSet(p) = {"portfolio_balance", "portfolio_positions", "portfolio_orders",
          "portfolio_fills", "portfolio_settlements"}
  BY <1>1, <1>2 DEF StepSet
<1> DEFINE S == StepSet(p)
<1>4. "portfolio_balance" \in S /\ "portfolio_positions" \in S /\ "portfolio_orders" \in S /\
        "portfolio_fills" \in S /\ "portfolio_settlements" \in S
  BY <1>3
<1> HIDE DEF S
<1>5. ReadSteps \in Seq(S)
  BY <1>4 DEF ReadSteps
<1>6. QED
  BY <1>3, <1>5 DEF p, S

LEMMA GroupPart ==
    /\ GroupSteps \in Seq(StepSet(GroupSteps))
    /\ StepSet(GroupSteps) = {"order_group_create", "order_groups_list", "order_group_single",
        "order_group_reset", "order_group_delete"}
<1> DEFINE p == GroupSteps
<1>1. /\ DOMAIN p = 1..5
      /\ p[1] = "order_group_create"
      /\ p[2] = "order_groups_list"
      /\ p[3] = "order_group_single"
      /\ p[4] = "order_group_reset"
      /\ p[5] = "order_group_delete"
  BY DEF GroupSteps
<1>2. DOMAIN p = {1, 2, 3, 4, 5}
  BY <1>1
<1> HIDE DEF p
<1>3. StepSet(p) = {"order_group_create", "order_groups_list", "order_group_single",
          "order_group_reset", "order_group_delete"}
  BY <1>1, <1>2 DEF StepSet
<1> DEFINE S == StepSet(p)
<1>4. "order_group_create" \in S /\ "order_groups_list" \in S /\ "order_group_single" \in S /\
        "order_group_reset" \in S /\ "order_group_delete" \in S
  BY <1>3
<1> HIDE DEF S
<1>5. GroupSteps \in Seq(S)
  BY <1>4 DEF GroupSteps
<1>6. QED
  BY <1>3, <1>5 DEF p, S

LEMMA LookupPart ==
    /\ LookupSteps \in Seq(StepSet(LookupSteps))
    /\ StepSet(LookupSteps) = {"lookup_history", "event_markets", "combination", LookupFile}
<1> DEFINE p == LookupSteps
<1>1. /\ DOMAIN p = 1..4
      /\ p[1] = "lookup_history"
      /\ p[2] = "event_markets"
      /\ p[3] = "combination"
      /\ p[4] = LookupFile
  BY DEF LookupSteps
<1>2. DOMAIN p = {1, 2, 3, 4}
  BY <1>1
<1> HIDE DEF p
<1>3. StepSet(p) = {"lookup_history", "event_markets", "combination", LookupFile}
  BY <1>1, <1>2 DEF StepSet
<1> DEFINE S == StepSet(p)
<1>4. "lookup_history" \in S /\ "event_markets" \in S /\ "combination" \in S /\ LookupFile \in S
  BY <1>3
<1> HIDE DEF S
<1>5. LookupSteps \in Seq(S)
  BY <1>4 DEF LookupSteps
<1>6. QED
  BY <1>3, <1>5 DEF p, S

LEMMA SinglePart ==
    /\ SingleSteps \in Seq(StepSet(SingleSteps))
    /\ StepSet(SingleSteps) = {"create_order", "portfolio_order_single", "order_queue_position",
        "order_queue_positions", "decrease_order", "portfolio_total_resting_order_value",
        "cancel_order"}
<1> DEFINE p == SingleSteps
<1>1. /\ DOMAIN p = 1..7
      /\ p[1] = "create_order"
      /\ p[2] = "portfolio_order_single"
      /\ p[3] = "order_queue_position"
      /\ p[4] = "order_queue_positions"
      /\ p[5] = "decrease_order"
      /\ p[6] = "portfolio_total_resting_order_value"
      /\ p[7] = "cancel_order"
  BY DEF SingleSteps
<1>2. DOMAIN p = {1, 2, 3, 4, 5, 6, 7}
  BY <1>1
<1> HIDE DEF p
<1>3. StepSet(p) = {"create_order", "portfolio_order_single", "order_queue_position",
          "order_queue_positions", "decrease_order", "portfolio_total_resting_order_value",
          "cancel_order"}
  BY <1>1, <1>2 DEF StepSet
<1> DEFINE S == StepSet(p)
<1>4. "create_order" \in S /\ "portfolio_order_single" \in S /\ "order_queue_position" \in S /\
        "order_queue_positions" \in S /\ "decrease_order" \in S /\
        "portfolio_total_resting_order_value" \in S /\ "cancel_order" \in S
  BY <1>3
<1> HIDE DEF S
<1>5. SingleSteps \in Seq(S)
  BY <1>4 DEF SingleSteps
<1>6. QED
  BY <1>3, <1>5 DEF p, S

LEMMA AmendPart ==
    /\ AmendSteps \in Seq(StepSet(AmendSteps))
    /\ StepSet(AmendSteps) = {"amend_create", "amend_order", "amend_cancel"}
<1> DEFINE p == AmendSteps
<1>1. /\ DOMAIN p = 1..3
      /\ p[1] = "amend_create"
      /\ p[2] = "amend_order"
      /\ p[3] = "amend_cancel"
  BY DEF AmendSteps
<1>2. DOMAIN p = {1, 2, 3}
  BY <1>1
<1> HIDE DEF p
<1>3. StepSet(p) = {"amend_create", "amend_order", "amend_cancel"}
  BY <1>1, <1>2 DEF StepSet
<1> DEFINE S == StepSet(p)
<1>4. "amend_create" \in S /\ "amend_order" \in S /\ "amend_cancel" \in S
  BY <1>3
<1> HIDE DEF S
<1>5. AmendSteps \in Seq(S)
  BY <1>4 DEF AmendSteps
<1>6. QED
  BY <1>3, <1>5 DEF p, S

LEMMA BatchPart ==
    /\ BatchSteps \in Seq(StepSet(BatchSteps))
    /\ StepSet(BatchSteps) = {"batch_create_orders", "batch_cancel_orders"}
<1> DEFINE p == BatchSteps
<1>1. /\ DOMAIN p = 1..2
      /\ p[1] = "batch_create_orders"
      /\ p[2] = "batch_cancel_orders"
  BY DEF BatchSteps
<1>2. DOMAIN p = {1, 2}
  BY <1>1
<1> HIDE DEF p
<1>3. StepSet(p) = {"batch_create_orders", "batch_cancel_orders"}
  BY <1>1, <1>2 DEF StepSet
<1> DEFINE S == StepSet(p)
<1>4. "batch_create_orders" \in S /\ "batch_cancel_orders" \in S
  BY <1>3
<1> HIDE DEF S
<1>5. BatchSteps \in Seq(S)
  BY <1>4 DEF BatchSteps
<1>6. QED
  BY <1>3, <1>5 DEF p, S

LEMMA GroupInOrder == InOrder(GroupSteps)
<1> DEFINE p == GroupSteps
<1>1. /\ DOMAIN p = 1..5
      /\ p[1] = "order_group_create"
      /\ p[2] = "order_groups_list"
      /\ p[3] = "order_group_single"
      /\ p[4] = "order_group_reset"
      /\ p[5] = "order_group_delete"
  BY DEF GroupSteps
<1>2. \A i \in DOMAIN p : i = 1 \/ i = 2 \/ i = 3 \/ i = 4 \/ i = 5
  BY <1>1
<1> HIDE DEF p
<1>3. \A i, j \in DOMAIN p : p[i] = p[j] /\ p[i] \in Marked => i = j
  BY <1>1, <1>2 DEF Marked, OrderCreates, Undoing, LookupFile
<1>4. ASSUME NEW o \in Placeable, NEW i \in DOMAIN p, p[i] = CreateOf(o)
      PROVE  Undone(p, o, i)
  BY <1>1, <1>2, <1>4 DEF Undone, CreateOf, UndoOf, Between, Placeable, LookupFile
<1>5. /\ Preceded(p, "amend_create", "amend_order")
      /\ Preceded(p, "combination", LookupFile)
      /\ Preceded(p, "lookup_history", "combination")
  BY <1>1, <1>2 DEF Preceded, LookupFile
<1>6. InOrder(p)
  BY <1>3, <1>4, <1>5 DEF InOrder
<1>7. QED
  BY <1>6 DEF p

LEMMA LookupInOrder == InOrder(LookupSteps)
<1> DEFINE p == LookupSteps
<1>1. /\ DOMAIN p = 1..4
      /\ p[1] = "lookup_history"
      /\ p[2] = "event_markets"
      /\ p[3] = "combination"
      /\ p[4] = LookupFile
  BY DEF LookupSteps
<1>2. \A i \in DOMAIN p : i = 1 \/ i = 2 \/ i = 3 \/ i = 4
  BY <1>1
<1> HIDE DEF p
<1>3. \A i, j \in DOMAIN p : p[i] = p[j] /\ p[i] \in Marked => i = j
  BY <1>1, <1>2 DEF Marked, OrderCreates, Undoing, LookupFile
<1>4. ASSUME NEW o \in Placeable, NEW i \in DOMAIN p, p[i] = CreateOf(o)
      PROVE  Undone(p, o, i)
  BY <1>1, <1>2, <1>4 DEF Undone, CreateOf, UndoOf, Between, Placeable, LookupFile
<1>5. /\ Preceded(p, "amend_create", "amend_order")
      /\ Preceded(p, "combination", LookupFile)
      /\ Preceded(p, "lookup_history", "combination")
  BY <1>1, <1>2 DEF Preceded, LookupFile
<1>6. InOrder(p)
  BY <1>3, <1>4, <1>5 DEF InOrder
<1>7. QED
  BY <1>6 DEF p

LEMMA SingleInOrder == InOrder(SingleSteps)
<1> DEFINE p == SingleSteps
<1>1. /\ DOMAIN p = 1..7
      /\ p[1] = "create_order"
      /\ p[2] = "portfolio_order_single"
      /\ p[3] = "order_queue_position"
      /\ p[4] = "order_queue_positions"
      /\ p[5] = "decrease_order"
      /\ p[6] = "portfolio_total_resting_order_value"
      /\ p[7] = "cancel_order"
  BY DEF SingleSteps
<1>2. \A i \in DOMAIN p : i = 1 \/ i = 2 \/ i = 3 \/ i = 4 \/ i = 5 \/ i = 6 \/ i = 7
  BY <1>1
<1> HIDE DEF p
<1>3. \A i, j \in DOMAIN p : p[i] = p[j] /\ p[i] \in Marked => i = j
  BY <1>1, <1>2 DEF Marked, OrderCreates, Undoing, LookupFile
<1>4. ASSUME NEW o \in Placeable, NEW i \in DOMAIN p, p[i] = CreateOf(o)
      PROVE  Undone(p, o, i)
  BY <1>1, <1>2, <1>4 DEF Undone, CreateOf, UndoOf, Between, Placeable, LookupFile
<1>5. /\ Preceded(p, "amend_create", "amend_order")
      /\ Preceded(p, "combination", LookupFile)
      /\ Preceded(p, "lookup_history", "combination")
  BY <1>1, <1>2 DEF Preceded, LookupFile
<1>6. InOrder(p)
  BY <1>3, <1>4, <1>5 DEF InOrder
<1>7. QED
  BY <1>6 DEF p

LEMMA AmendInOrder == InOrder(AmendSteps)
<1> DEFINE p == AmendSteps
<1>1. /\ DOMAIN p = 1..3
      /\ p[1] = "amend_create"
      /\ p[2] = "amend_order"
      /\ p[3] = "amend_cancel"
  BY DEF AmendSteps
<1>2. \A i \in DOMAIN p : i = 1 \/ i = 2 \/ i = 3
  BY <1>1
<1> HIDE DEF p
<1>3. \A i, j \in DOMAIN p : p[i] = p[j] /\ p[i] \in Marked => i = j
  BY <1>1, <1>2 DEF Marked, OrderCreates, Undoing, LookupFile
<1>4. ASSUME NEW o \in Placeable, NEW i \in DOMAIN p, p[i] = CreateOf(o)
      PROVE  Undone(p, o, i)
  BY <1>1, <1>2, <1>4 DEF Undone, CreateOf, UndoOf, Between, Placeable, LookupFile
<1>5. /\ Preceded(p, "amend_create", "amend_order")
      /\ Preceded(p, "combination", LookupFile)
      /\ Preceded(p, "lookup_history", "combination")
  BY <1>1, <1>2 DEF Preceded, LookupFile
<1>6. InOrder(p)
  BY <1>3, <1>4, <1>5 DEF InOrder
<1>7. QED
  BY <1>6 DEF p

LEMMA BatchInOrder == InOrder(BatchSteps)
<1> DEFINE p == BatchSteps
<1>1. /\ DOMAIN p = 1..2
      /\ p[1] = "batch_create_orders"
      /\ p[2] = "batch_cancel_orders"
  BY DEF BatchSteps
<1>2. \A i \in DOMAIN p : i = 1 \/ i = 2
  BY <1>1
<1> HIDE DEF p
<1>3. \A i, j \in DOMAIN p : p[i] = p[j] /\ p[i] \in Marked => i = j
  BY <1>1, <1>2 DEF Marked, OrderCreates, Undoing, LookupFile
<1>4. ASSUME NEW o \in Placeable, NEW i \in DOMAIN p, p[i] = CreateOf(o)
      PROVE  Undone(p, o, i)
  BY <1>1, <1>2, <1>4 DEF Undone, CreateOf, UndoOf, Between, Placeable, LookupFile
<1>5. /\ Preceded(p, "amend_create", "amend_order")
      /\ Preceded(p, "combination", LookupFile)
      /\ Preceded(p, "lookup_history", "combination")
  BY <1>1, <1>2 DEF Preceded, LookupFile
<1>6. InOrder(p)
  BY <1>3, <1>4, <1>5 DEF InOrder
<1>7. QED
  BY <1>6 DEF p


(* Plans are joined from their parts.                                       *)
Marks(p) == StepSet(p) \cap Marked
Proper(p) == p \in Seq(Steps) /\ InOrder(p)

LEMMA ProperJoined ==
    ASSUME NEW p, NEW q, Proper(p), Proper(q), Marks(p) \cap Marks(q) = {}
    PROVE  Proper(p \o q) /\ Marks(p \o q) = Marks(p) \cup Marks(q)
<1>1. p \in Seq(Steps) /\ q \in Seq(Steps) /\ InOrder(p) /\ InOrder(q)
  BY DEF Proper
<1>2. StepSet(p) \cap StepSet(q) \cap Marked = {}
  BY DEF Marks
<1>3. InOrder(p \o q)
  BY <1>1, <1>2, JoinedInOrder
<1>4. StepSet(p \o q) = StepSet(p) \cup StepSet(q) /\ p \o q \in Seq(Steps)
  BY <1>1, SetOfJoined
<1>5. QED
  BY <1>3, <1>4 DEF Proper, Marks

LEMMA ProperEmpty == Proper(<<>>) /\ Marks(<<>>) = {}
<1>1. <<>> \in Seq(Steps) /\ DOMAIN <<>> = {}
  OBVIOUS
<1>2. StepSet(<<>>) = {}
  BY <1>1 DEF StepSet
<1>3. InOrder(<<>>)
  BY <1>1, <1>2, PlainInOrder
<1>4. QED
  BY <1>1, <1>2, <1>3 DEF Proper, Marks

LEMMA WiderPart ==
    ASSUME NEW p, p \in Seq(StepSet(p)), StepSet(p) \subseteq Steps
    PROVE  p \in Seq(Steps)
  BY SeqMonotonic

LEMMA PlainProper ==
    /\ Proper(PublicSteps) /\ Marks(PublicSteps) = {}
    /\ Proper(SeriesSteps) /\ Marks(SeriesSteps) = {}
    /\ Proper(Phase3Steps) /\ Marks(Phase3Steps) = {}
    /\ Proper(ExchangeSteps) /\ Marks(ExchangeSteps) = {}
    /\ Proper(MilestoneSteps) /\ Marks(MilestoneSteps) = {}
    /\ Proper(LiveSteps) /\ Marks(LiveSteps) = {}
    /\ Proper(IncentiveSteps) /\ Marks(IncentiveSteps) = {}
    /\ Proper(CollectionSteps) /\ Marks(CollectionSteps) = {}
    /\ Proper(ReadSteps) /\ Marks(ReadSteps) = {}
<1>1. ASSUME NEW p, p \in Seq(StepSet(p)), StepSet(p) \subseteq PlainSteps, StepSet(p) \cap Marked = {}
      PROVE  Proper(p) /\ Marks(p) = {}
  <2>1. p \in Seq(Steps)
    BY <1>1, WiderPart DEF Steps
  <2>2. InOrder(p)
    BY <1>1, <2>1, PlainInOrder
  <2>3. QED
    BY <1>1, <2>1, <2>2 DEF Proper, Marks
<1>2. Proper(PublicSteps) /\ Marks(PublicSteps) = {}
  <2>1. StepSet(PublicSteps) \subseteq PlainSteps
    BY DEF PlainSteps
  <2>2. StepSet(PublicSteps) \cap Marked = {}
    BY PublicPart DEF Marked, OrderCreates, Undoing, LookupFile
  <2>3. QED
    BY <1>1, <2>1, <2>2, PublicPart
<1>3. Proper(SeriesSteps) /\ Marks(SeriesSteps) = {}
  <2>1. StepSet(SeriesSteps) \subseteq PlainSteps
    BY DEF PlainSteps
  <2>2. StepSet(SeriesSteps) \cap Marked = {}
    BY SeriesPart DEF Marked, OrderCreates, Undoing, LookupFile
  <2>3. QED
    BY <1>1, <2>1, <2>2, SeriesPart
<1>4. Proper(Phase3Steps) /\ Marks(Phase3Steps) = {}
  <2>1. StepSet(Phase3Steps) \subseteq PlainSteps
    BY DEF PlainSteps
  <2>2. StepSet(Phase3Steps) \cap Marked = {}
    BY Phase3Part DEF Marked, OrderCreates, Undoing, LookupFile
  <2>3. QED
    BY <1>1, <2>1, <2>2, Phase3Part
<1>5. Proper(ExchangeSteps) /\ Marks(ExchangeSteps) = {}
  <2>1. StepSet(ExchangeSteps) \subseteq PlainSteps
    BY DEF PlainSteps
  <2>2. StepSet(ExchangeSteps) \cap Marked = {}
    BY ExchangePart DEF Marked, OrderCreates, Undoing, LookupFile
  <2>3. QED
    BY <1>1, <2>1, <2>2, ExchangePart
<1>6. Proper(MilestoneSteps) /\ Marks(MilestoneSteps) = {}
  <2>1. StepSet(MilestoneSteps) \subseteq PlainSteps
    BY DEF PlainSteps
  <2>2. StepSet(MilestoneSteps) \cap Marked = {}
    BY MilestonePart DEF Marked, OrderCreates, Undoing, LookupFile
  <2>3. QED
    BY <1>1, <2>1, <2>2, MilestonePart
<1>7. Proper(LiveSteps) /\ Marks(LiveSteps) = {}
  <2>1. StepSet(LiveSteps) \subseteq PlainSteps
    BY DEF PlainSteps
  <2>2. StepSet(LiveSteps) \cap Marked = {}
    BY LivePart DEF Marked, OrderCreates, Undoing, LookupFile
  <2>3. QED
    BY <1>1, <2>1, <2>2, LivePart
<1>8. Proper(IncentiveSteps) /\ Marks(IncentiveSteps) = {}
  <2>1. StepSet(IncentiveSteps) \subseteq PlainSteps
    BY DEF PlainSteps
  <2>2. StepSet(IncentiveSteps) \cap Marked = {}
    BY IncentivePart DEF Marked, OrderCreates, Undoing, LookupFile
  <2>3. QED
    BY <1>1, <2>1, <2>2, IncentivePart
<1>9. Proper(CollectionSteps) /\ Marks(CollectionSteps) = {}
  <2>1. StepSet(CollectionSteps) \subseteq PlainSteps
    BY DEF PlainSteps
  <2>2. StepSet(CollectionSteps) \cap Marked = {}
    BY CollectionPart DEF Marked, OrderCreates, Undoing, LookupFile
  <2>3. QED
    BY <1>1, <2>1, <2>2, CollectionPart
<1>10. Proper(ReadSteps) /\ Marks(ReadSteps) = {}
  <2>1. StepSet(ReadSteps) \subseteq PlainSteps
    BY DEF PlainSteps
  <2>2. StepSet(ReadSteps) \cap Marked = {}
    BY ReadPart DEF Marked, OrderCreates, Undoing, LookupFile
  <2>3. QED
    BY <1>1, <2>1, <2>2, ReadPart
<1>11. QED
  BY <1>2, <1>3, <1>4, <1>5, <1>6, <1>7, <1>8, <1>9, <1>10

LEMMA WriteProper ==
    /\ Proper(GroupSteps) /\ Marks(GroupSteps) = {"order_group_create", "order_group_delete"}
    /\ Proper(LookupSteps) /\ Marks(LookupSteps) = {"combination", LookupFile}
    /\ Proper(SingleSteps) /\ Marks(SingleSteps) = {"create_order", "cancel_order"}
    /\ Proper(AmendSteps) /\ Marks(AmendSteps) = {"amend_create", "amend_order", "amend_cancel"}
    /\ Proper(BatchSteps) /\ Marks(BatchSteps) = {"batch_create_orders", "batch_cancel_orders"}
    /\ Proper(<<"order_markets">>) /\ Marks(<<"order_markets">>) = {}
<1>1. Proper(GroupSteps) /\ Marks(GroupSteps) = {"order_group_create", "order_group_delete"}
  <2>1. StepSet(GroupSteps) \subseteq Steps
    BY DEF Steps
  <2>2. StepSet(GroupSteps) \cap Marked = {"order_group_create", "order_group_delete"}
    BY GroupPart DEF Marked, OrderCreates, Undoing, LookupFile
  <2>3. GroupSteps \in Seq(Steps)
    BY <2>1, GroupPart, WiderPart
  <2>4. QED
    BY <2>2, <2>3, GroupInOrder DEF Proper, Marks
<1>2. Proper(LookupSteps) /\ Marks(LookupSteps) = {"combination", LookupFile}
  <2>1. StepSet(LookupSteps) \subseteq Steps
    BY DEF Steps
  <2>2. StepSet(LookupSteps) \cap Marked = {"combination", LookupFile}
    BY LookupPart DEF Marked, OrderCreates, Undoing, LookupFile
  <2>3. LookupSteps \in Seq(Steps)
    BY <2>1, LookupPart, WiderPart
  <2>4. QED
    BY <2>2, <2>3, LookupInOrder DEF Proper, Marks
<1>3. Proper(SingleSteps) /\ Marks(SingleSteps) = {"create_order", "cancel_order"}
  <2>1. StepSet(SingleSteps) \subseteq Steps
    BY DEF Steps
  <2>2. StepSet(SingleSteps) \cap Marked = {"create_order", "cancel_order"}
    BY SinglePart DEF Marked, OrderCreates, Undoing, LookupFile
  <2>3. SingleSteps \in Seq(Steps)
    BY <2>1, SinglePart, WiderPart
  <2>4. QED
    BY <2>2, <2>3, SingleInOrder DEF Proper, Marks
<1>4. Proper(AmendSteps) /\ Marks(AmendSteps) = {"amend_create", "amend_order", "amend_cancel"}
  <2>1. StepSet(AmendSteps) \subseteq Steps
    BY DEF Steps
  <2>2. StepSet(AmendSteps) \cap Marked = {"amend_create", "amend_order", "amend_cancel"}
    BY AmendPart DEF Marked, OrderCreates, Undoing, LookupFile
  <2>3. AmendSteps \in Seq(Steps)
    BY <2>1, AmendPart, WiderPart
  <2>4. QED
    BY <2>2, <2>3, AmendInOrder DEF Proper, Marks
<1>5. Proper(BatchSteps) /\ Marks(BatchSteps) = {"batch_create_orders", "batch_cancel_orders"}
  <2>1. StepSet(BatchSteps) \subseteq Steps
    BY DEF Steps
  <2>2. StepSet(BatchSteps) \cap Marked = {"batch_create_orders", "batch_cancel_orders"}
    BY BatchPart DEF Marked, OrderCreates, Undoing, LookupFile
  <2>3. BatchSteps \in Seq(Steps)
    BY <2>1, BatchPart, WiderPart
  <2>4. QED
    BY <2>2, <2>3, BatchInOrder DEF Proper, Marks
<1>6. Proper(<<"order_markets">>) /\ Marks(<<"order_markets">>) = {}
  <2>1. "order_markets" \in Steps
    BY DEF Steps
  <2>2. <<"order_markets">> \in Seq(Steps)
    BY <2>1
  <2>3. StepSet(<<"order_markets">>) \cap Marked = {}
    BY DEF StepSet, Marked, OrderCreates, Undoing, LookupFile
  <2>4. QED
    BY <2>2, <2>3, PlainInOrder DEF Proper, Marks
<1>7. QED
  BY <1>1, <1>2, <1>3, <1>4, <1>5, <1>6

(* What a plan of a recorder may do.                                        *)
PlanFits(r, c, p) ==
    /\ Proper(p)
    /\ Marks(p) \cap {"combination", LookupFile} # {} => r = "phase5"
    /\ Marks(p) \cap (OrderCreates \cup {"amend_order"}) # {} => c.env = "demo" /\ WantsWrites(c)
    /\ Marks(p) \cap {"amend_create", "amend_order"} # {} => r \notin {"public", "phase3", "phase4", "phase5"}

LEMMA OrderStepsProper ==
    /\ Proper(OrderSteps)
    /\ Marks(OrderSteps) = {"create_order", "cancel_order", "amend_create", "amend_order", "amend_cancel",
                           "batch_create_orders", "batch_cancel_orders"}
<1> DEFINE p1 == <<"order_markets">> \o SingleSteps
           p2 == p1 \o AmendSteps
           p3 == p2 \o BatchSteps
<1>1. Proper(p1) /\ Marks(p1) = {"create_order", "cancel_order"}
  BY WriteProper, ProperJoined
<1> HIDE DEF p1
<1>2. Proper(p2) /\ Marks(p2) = {"create_order", "cancel_order", "amend_create", "amend_order", "amend_cancel"}
  <2>1. Marks(p1) \cap Marks(AmendSteps) = {}
    BY <1>1, WriteProper
  <2>2. QED
    BY <1>1, <2>1, WriteProper, ProperJoined
<1> HIDE DEF p2
<1>3. Proper(p3) /\ Marks(p3) = {"create_order", "cancel_order", "amend_create", "amend_order", "amend_cancel",
                                "batch_create_orders", "batch_cancel_orders"}
  <2>1. Marks(p2) \cap Marks(BatchSteps) = {}
    BY <1>2, WriteProper
  <2>2. QED
    BY <1>2, <2>1, WriteProper, ProperJoined
<1>4. QED
  BY <1>3 DEF p1, p2, p3, OrderSteps

LEMMA PlanOfRecorder ==
    ASSUME NEW r, NEW c \in CommandLines
    PROVE  /\ PlanFits(r, c, StepsOf(r, c))
           /\ "combination" \in Marks(StepsOf(r, c)) => fixtures[LookupFile] = NoFile
<1> DEFINE p == StepsOf(r, c)
<1> USE DEF PlanFits
<1>1. CASE r = "public"
  <2>1. p = PublicSteps \o SeriesSteps
    BY <1>1 DEF StepsOf
  <2>2. Proper(p) /\ Marks(p) = {}
    BY <2>1, PlainProper, ProperJoined
  <2>3. QED
    BY <2>2
<1>2. CASE r = "phase3"
  <2>1. p = Phase3Steps
    BY <1>2 DEF StepsOf
  <2>2. Proper(p) /\ Marks(p) = {}
    BY <2>1, PlainProper
  <2>3. QED
    BY <2>2
<1>3. CASE r = "phase4"
  <2> DEFINE p1 == ExchangeSteps \o MilestoneSteps
             p2 == p1 \o LiveSteps
             p3 == p2 \o IncentiveSteps
             g == IF GroupsRecorded(c) THEN GroupSteps ELSE <<>>
  <2>1. p = p3 \o g
    BY <1>3 DEF StepsOf
  <2>2. Proper(p1) /\ Marks(p1) = {}
    BY PlainProper, ProperJoined
  <2> HIDE DEF p1
  <2>3. Proper(p2) /\ Marks(p2) = {}
    BY <2>2, PlainProper, ProperJoined
  <2> HIDE DEF p2
  <2>4. Proper(p3) /\ Marks(p3) = {}
    BY <2>3, PlainProper, ProperJoined
  <2> HIDE DEF p3
  <2>5. /\ Proper(g) /\ Marks(g) \subseteq {"order_group_create", "order_group_delete"}
        /\ ~GroupsRecorded(c) => Marks(g) = {}
    BY WriteProper, ProperEmpty
  <2> HIDE DEF g
  <2>6. Proper(p3 \o g) /\ Marks(p3 \o g) = Marks(g)
    BY <2>4, <2>5, ProperJoined
  <2>7. Proper(p) /\ Marks(p) = Marks(g)
    BY <2>1, <2>6
  <2>8. GroupsRecorded(c) => c.env = "demo" /\ WantsWrites(c)
    BY DEF GroupsRecorded, WantsWrites
  <2>9. Marks(p) # {} => c.env = "demo" /\ WantsWrites(c)
    BY <2>5, <2>7, <2>8
  <2> HIDE DEF p
  <2>10. Marks(p) \cap {"combination", LookupFile} = {} /\ Marks(p) \cap {"amend_create", "amend_order"} = {}
    BY <2>5, <2>7 DEF LookupFile
  <2>11. PlanFits(r, c, p)
    BY <2>7, <2>9, <2>10
  <2>12. "combination" \notin Marks(p)
    BY <2>10
  <2>13. QED
    BY <2>11, <2>12 DEF p
<1>4. CASE r = "phase5"
  <2> DEFINE g == IF LookupRecorded(c) THEN LookupSteps ELSE <<>>
  <2>1. p = CollectionSteps \o g
    BY <1>4 DEF StepsOf
  <2>2. /\ Proper(g) /\ Marks(g) \subseteq {"combination", LookupFile}
        /\ ~LookupRecorded(c) => Marks(g) = {}
    BY WriteProper, ProperEmpty
  <2> HIDE DEF g
  <2>3. Proper(CollectionSteps \o g) /\ Marks(CollectionSteps \o g) = Marks(g)
    BY <2>2, PlainProper, ProperJoined
  <2>4. Proper(p) /\ Marks(p) = Marks(g)
    BY <2>1, <2>3
  <2> HIDE DEF p
  <2>5. Marks(p) \cap (OrderCreates \cup {"amend_order"}) = {} /\ Marks(p) \cap {"amend_create", "amend_order"} = {}
    BY <2>2, <2>4 DEF LookupFile, OrderCreates
  <2>6. PlanFits(r, c, p)
    BY <1>4, <2>4, <2>5
  <2>7. "combination" \in Marks(p) => fixtures[LookupFile] = NoFile
    BY <2>2, <2>4 DEF LookupRecorded
  <2>8. QED
    BY <2>6, <2>7 DEF p
<1>5. CASE r \notin {"public", "phase3", "phase4", "phase5"}
  <2> DEFINE a == IF r = "authenticated" THEN ReadSteps ELSE <<>>
             g == IF OrdersRecorded(c) THEN OrderSteps ELSE <<>>
  <2>1. p = IF c.env \in Credentials THEN a \o g ELSE <<>>
    BY <1>5 DEF StepsOf
  <2>2. Proper(a) /\ Marks(a) = {}
    BY PlainProper, ProperEmpty
  <2>3. /\ Proper(g) /\ Marks(g) \subseteq Marks(OrderSteps)
        /\ ~OrdersRecorded(c) => Marks(g) = {}
    BY OrderStepsProper, ProperEmpty
  <2> HIDE DEF a, g
  <2>4. Proper(a \o g) /\ Marks(a \o g) = Marks(g)
    BY <2>2, <2>3, ProperJoined
  <2>5. Proper(p) /\ Marks(p) \subseteq Marks(g)
    BY <2>1, <2>4, ProperEmpty
  <2> HIDE DEF p
  <2>6. "combination" \notin Marks(p) /\ LookupFile \notin Marks(p)
    BY <2>3, <2>5, OrderStepsProper DEF LookupFile
  <2>7. Marks(p) # {} => c.env = "demo" /\ WantsWrites(c)
    BY <2>3, <2>5 DEF OrdersRecorded
  <2>8. PlanFits(r, c, p)
    BY <1>5, <2>5, <2>6, <2>7
  <2>9. QED
    BY <2>6, <2>8 DEF p
<1>6. QED
  BY <1>1, <1>2, <1>3, <1>4, <1>5

(* Which steps follow on which.                                             *)
LEMMA GivenFacts ==
    ASSUME NEW g \in Given
    PROVE  /\ "cancel_order" \in g[1] => g[2] = "create_order"
           /\ "amend_cancel" \in g[1] => g[2] = "amend_create" /\ "amend_order" \in g[1]
           /\ "batch_cancel_orders" \in g[1] => g[2] = "batch_create_orders"
           /\ "order_group_delete" \in g[1] => g[2] = "order_group_create"
           /\ "lookup_history" \in g[1] => g[2] = "multivariate_event_collections_list"
           /\ "multivariate_event_collections_list" \notin g[1]
           /\ g[2] \in OrderCreates => "full" \in g[3]
           /\ g[2] \notin Undoing \cup {"amend_order"} \cup Between("single") \cup Between("group")
<1> USE DEF OrderCreates, Undoing, Between, LookupFile
<1>1. QED
  BY DEF Given

LEMMA GivenLookup ==
    /\ \E g \in Given : g[2] = "lookup_history" /\ "event_markets" \in g[1]
    /\ \E g \in Given : g[2] = "event_markets" /\ "combination" \in g[1]
  BY DEF Given

LEMMA FollowFacts ==
    ASSUME NEW D
    PROVE  /\ D \subseteq Follow(D)
           /\ \A x : x \in Follow(D) <=> x \in D \/ \E g \in Given : g[2] \in D /\ x \in g[1]
  BY DEF Follow

First(s, a) == UNION {g[1] : g \in {h \in Given : h[2] = s /\ a \notin h[3]}}

LEMMA NotAfterIs == \A s, a : NotAfter(s, a) = Follow(Follow(Follow(First(s, a))))
  BY DEF NotAfter, First

(* An answer to a step of this kind leaves what follows as it is.           *)
LEMMA NothingDropped ==
    ASSUME NEW s, NEW a,
           \/ s \in Undoing \cup {"amend_order"} \cup Between("single") \cup Between("group")
           \/ s \in OrderCreates /\ a = "full"
    PROVE  NotAfter(s, a) = {}
<1>1. \A g \in Given : g[2] = s => a \in g[3]
  BY GivenFacts
<1>2. First(s, a) = {}
  BY <1>1 DEF First
<1>3. \A D : D = {} => Follow(D) = {}
  BY DEF Follow
<1>4. QED
  BY <1>2, <1>3, NotAfterIs

(* A step that undoes is dropped only with the one it undoes.               *)
LEMMA DroppedTogether ==
    ASSUME NEW s, NEW a, NEW o \in Placeable, UndoOf(o) \in NotAfter(s, a), s # CreateOf(o)
    PROVE  CreateOf(o) \in NotAfter(s, a)
<1>1. \A g \in Given : UndoOf(o) \in g[1] => g[2] = CreateOf(o) \/ CreateOf(o) \in g[1]
  <2>1. \/ UndoOf(o) = "cancel_order" /\ CreateOf(o) = "create_order"
        \/ UndoOf(o) = "amend_cancel" /\ CreateOf(o) \in {"amend_create", "amend_order"}
        \/ UndoOf(o) = "batch_cancel_orders" /\ CreateOf(o) = "batch_create_orders"
        \/ UndoOf(o) = "order_group_delete" /\ CreateOf(o) = "order_group_create"
    BY DEF UndoOf, CreateOf, Placeable
  <2>2. QED
    BY <2>1, GivenFacts
<1>2. ASSUME NEW D, UndoOf(o) \in Follow(D)
      PROVE  UndoOf(o) \in D \/ CreateOf(o) \in Follow(D)
  BY <1>1, <1>2, FollowFacts
<1>3. UndoOf(o) \in First(s, a) => CreateOf(o) \in First(s, a)
  BY <1>1 DEF First
<1> DEFINE D0 == First(s, a)
           D1 == Follow(D0)
           D2 == Follow(D1)
<1>4. D0 \subseteq D1 /\ D1 \subseteq D2 /\ D2 \subseteq Follow(D2) /\ NotAfter(s, a) = Follow(D2)
  BY FollowFacts, NotAfterIs
<1> HIDE DEF D0
<1>5. UndoOf(o) \in D1 => UndoOf(o) \in D0 \/ CreateOf(o) \in D1
  BY <1>2
<1> HIDE DEF D1
<1>6. UndoOf(o) \in D2 => UndoOf(o) \in D1 \/ CreateOf(o) \in D2
  BY <1>2
<1> HIDE DEF D2
<1>7. UndoOf(o) \in D2 \/ CreateOf(o) \in Follow(D2)
  BY <1>2, <1>4
<1>8. UndoOf(o) \in D0 => CreateOf(o) \in D0
  BY <1>3 DEF D0
<1>9. QED
  BY <1>4, <1>5, <1>6, <1>7, <1>8

(* Without the history no market pair is created.                           *)
LEMMA HistoryDropped ==
    ASSUME NEW s, NEW a, "lookup_history" \in NotAfter(s, a)
    PROVE  "combination" \in NotAfter(s, a)
<1> DEFINE k == "multivariate_event_collections_list"
           D0 == First(s, a)
           D1 == Follow(D0)
           D2 == Follow(D1)
<1>1. D0 \subseteq D1 /\ D1 \subseteq D2 /\ D2 \subseteq Follow(D2) /\ NotAfter(s, a) = Follow(D2)
  BY FollowFacts, NotAfterIs
<1>2. k \notin D0
  BY GivenFacts DEF First
<1> HIDE DEF D0
<1>3. k \notin D1
  BY <1>2, GivenFacts, FollowFacts
<1> HIDE DEF D1
<1>4. k \notin D2
  BY <1>3, GivenFacts, FollowFacts
<1> HIDE DEF D2
<1>5. "lookup_history" \in Follow(D2) => "lookup_history" \in D2 \/ k \in D2
  BY GivenFacts, FollowFacts
<1>6. "lookup_history" \in D2
  BY <1>1, <1>4, <1>5
<1>7. "lookup_history" \in D1
  BY <1>3, <1>6, GivenFacts, FollowFacts DEF D2
<1>8. "lookup_history" \in D0
  BY <1>2, <1>7, GivenFacts, FollowFacts DEF D1
<1>9. "event_markets" \in D1
  BY <1>8, GivenLookup, FollowFacts DEF D1
<1>10. "combination" \in D2
  BY <1>9, GivenLookup, FollowFacts DEF D2
<1>11. QED
  BY <1>1, <1>10

(* What is left of the recorders of a run.                                  *)
Queues ==
    {<<r>> : r \in Recorders}
    \cup {<<"public", "phase3", "phase4", "phase5", "authenticated">>,
          <<"phase3", "phase4", "phase5", "authenticated">>,
          <<"phase4", "phase5", "authenticated">>, <<"phase5", "authenticated">>}

LookupLater(q) == \E k \in 2..Len(q) : q[k] = "phase5"

LEMMA QueueFacts ==
    ASSUME NEW q \in Queues
    PROVE  /\ Len(q) \in Nat /\ Head(q) = q[1]
           /\ Head(q) \notin {"public", "phase3", "phase4", "phase5"} => Len(q) = 1
           /\ Head(q) = "phase5" => ~LookupLater(q)
           /\ Len(q) > 1 => /\ Tail(q) \in Queues /\ Head(Tail(q)) = q[2]
                            /\ ~LookupLater(q) => q[2] # "phase5" /\ ~LookupLater(Tail(q))
<1>1. CASE \E r \in Recorders : q = <<r>>
  <2>1. PICK r \in Recorders : q = <<r>>
    BY <1>1
  <2>2. Len(q) = 1 /\ Head(q) = q[1]
    BY <2>1
  <2>3. QED
    BY <2>2 DEF LookupLater
<1>2. CASE q = <<"public", "phase3", "phase4", "phase5", "authenticated">>
  <2>1. Len(q) = 5 /\ q[1] = "public" /\ Head(q) = q[1] /\ q[2] = "phase3" /\ q[4] = "phase5"
        /\ Tail(q) = <<"phase3", "phase4", "phase5", "authenticated">> /\ Head(Tail(q)) = "phase3"
    BY <1>2
  <2>2. Tail(q) \in Queues
    BY <2>1 DEF Queues
  <2>3. LookupLater(q)
    BY <2>1 DEF LookupLater
  <2>4. QED
    BY <2>1, <2>2, <2>3
<1>3. CASE q = <<"phase3", "phase4", "phase5", "authenticated">>
  <2>1. Len(q) = 4 /\ q[1] = "phase3" /\ Head(q) = q[1] /\ q[2] = "phase4" /\ q[3] = "phase5"
        /\ Tail(q) = <<"phase4", "phase5", "authenticated">> /\ Head(Tail(q)) = "phase4"
    BY <1>3
  <2>2. Tail(q) \in Queues
    BY <2>1 DEF Queues
  <2>3. LookupLater(q)
    BY <2>1 DEF LookupLater
  <2>4. QED
    BY <2>1, <2>2, <2>3
<1>4. CASE q = <<"phase4", "phase5", "authenticated">>
  <2>1. Len(q) = 3 /\ q[1] = "phase4" /\ Head(q) = q[1] /\ q[2] = "phase5"
        /\ Tail(q) = <<"phase5", "authenticated">> /\ Head(Tail(q)) = "phase5"
    BY <1>4
  <2>2. Tail(q) \in Queues
    BY <2>1 DEF Queues
  <2>3. LookupLater(q)
    BY <2>1 DEF LookupLater
  <2>4. QED
    BY <2>1, <2>2, <2>3
<1>5. CASE q = <<"phase5", "authenticated">>
  <2>1. Len(q) = 2 /\ q[1] = "phase5" /\ Head(q) = q[1] /\ q[2] = "authenticated"
        /\ Tail(q) = <<"authenticated">> /\ Head(Tail(q)) = "authenticated" /\ Len(Tail(q)) = 1
    BY <1>5
  <2>2. Tail(q) \in Queues
    BY <2>1 DEF Queues, Recorders
  <2>3. ~LookupLater(q) /\ ~LookupLater(Tail(q))
    BY <2>1 DEF LookupLater
  <2>4. QED
    BY <2>1, <2>2, <2>3
<1>6. QED
  BY <1>1, <1>2, <1>3, <1>4, <1>5 DEF Queues

LEMMA QueueOfCommand ==
    ASSUME NEW c \in CommandLines PROVE RecordersOf(c) \in Queues
<1>1. c.endpoint \in Recorders \cup {"all"}
  BY FixtureAssumption
<1>2. QED
  BY <1>1 DEF RecordersOf, Queues

-----------------------------------------------------------------------------
(* The invariant of the scripts.                                            *)
Recordings ==
    [state : {"recording"}, cmd : CommandLines, queue : Queues, plan : Seq(Steps), todo : SUBSET Nat,
     tries : Nat, contract : BOOLEAN, target : {"amend", "amended"}]
Sanitizings ==
    [state : {"sanitizing"}, force : BOOLEAN, files : SUBSET (SensitiveFiles \intersect Tracked),
     failed : BOOLEAN]

GoldenTyped ==
    /\ fixtures \in [Tracked -> Fixtures \cup {NoFile}]
    /\ answers \in [Tracked -> Fixtures \cup {NoFile}]
    /\ script \in {NoScript} \cup Recordings \cup Sanitizings
    /\ resting \in SUBSET Placeable /\ combinations \in Nat
    /\ world \in [day : 0..MaxDay, changed : BOOLEAN]
    /\ verdict \in [by : {"none", "refused", "recorder", "sanitizer", "validator", "freshness"}, ok : BOOLEAN]

(* A whole file holds the last answer; only a file the sanitizer looks at   *)
(* can hold data of the account, and it is not marked as sanitized then.    *)
FilesFit ==
    \A f \in Tracked :
        /\ answers[f] # NoFile =>
              /\ fixtures[f] # NoFile
              /\ fixtures[f].whole => fixtures[f].sent = answers[f].sent /\ fixtures[f].day = answers[f].day
        /\ fixtures[f] # NoFile /\ fixtures[f].raw => f \in SensitiveFiles /\ ~fixtures[f].sanitized

SanitizedSoFar ==
    script.state = "sanitizing" =>
        \A f \in Tracked \ script.files : fixtures[f] # NoFile => ~(fixtures[f].whole /\ fixtures[f].raw)

VerdictFits == (script.state # "none" => ~verdict.ok) /\ VerdictsRight

(* What the recorder still means to do.                                     *)
ToDo(s) == \E i \in script.todo : script.plan[i] = s

TodoFits ==
    script.state = "recording" =>
    /\ script.todo \subseteq DOMAIN script.plan
    /\ PlanFits(Head(script.queue), script.cmd, script.plan)
    /\ \A o \in Placeable : ToDo(CreateOf(o)) => ToDo(UndoOf(o))
    /\ ToDo("combination") => fixtures[LookupFile] = NoFile
    /\ \A j \in script.todo : script.plan[j] = "combination" =>
          script.cmd.creates \/ \E k \in script.todo : k < j /\ script.plan[k] = "lookup_history"
    /\ ToDo("amend_create") \/ ToDo("amend_order") \/ Len(script.queue) > 1 => script.target = "amend"
    /\ combinations > 0 => "combination" \in faults \/ (~ToDo("combination") /\ ~LookupLater(script.queue))

(* What rests at the exchange: explained by a failure, or about to be       *)
(* undone.                                                                  *)
Explained(o) == (WayOf(o) \cup {"interrupt"}) \cap faults # {}
Closing(o) ==
    /\ \E u \in script.todo : /\ script.plan[u] = UndoOf(o)
                              /\ \A j \in script.todo : j < u => script.plan[j] \in Between(o)
    /\ o \in {"amend", "amended"} => script.target = o

RestFits ==
    /\ "batch1" \in resting <=> "batch2" \in resting
    /\ script.state = "recording" => \A o \in resting : Explained(o) \/ Closing(o)
    /\ LeftoversExplained

GoldenInv == GoldenTyped /\ FilesFit /\ SanitizedSoFar /\ VerdictFits /\ TodoFits /\ RestFits

-----------------------------------------------------------------------------
LEMMA StateOf ==
    /\ NoScript.state = "none"
    /\ \A x \in Recordings : x.state = "recording"
    /\ \A x \in Sanitizings : x.state = "sanitizing"
    /\ GoldenTyped /\ script.state = "recording" => script \in Recordings
    /\ GoldenTyped /\ script.state = "sanitizing" => script \in Sanitizings
    /\ GoldenTyped /\ script.state = "none" => script = NoScript
<1>1. NoScript.state = "none"
  BY DEF NoScript
<1>2. \A x \in Recordings : x.state = "recording"
  BY DEF Recordings
<1>3. \A x \in Sanitizings : x.state = "sanitizing"
  BY DEF Sanitizings
<1>4. QED
  BY <1>1, <1>2, <1>3 DEF GoldenTyped

LEMMA RecordingNow == GoldenTyped /\ script.state = "recording" => script \in Recordings
  BY StateOf

LEMMA RecordingNext == GoldenTyped' /\ (script.state = "recording")' => (script \in Recordings)'
  BY RecordingNow, PTL

LEMMA GoldenInitial == GoldenInit => GoldenInv
<1> SUFFICES ASSUME GoldenInit PROVE GoldenInv
  OBVIOUS
<1>1. Committed \in Fixtures /\ ~Committed.raw /\ NoFile \notin Fixtures
  BY FixtureAssumption DEF Committed, Fixtures
<1>2. PICK d \in {NoFile, Committed} : fixtures = [f \in Tracked |-> d]
  BY DEF GoldenInit
<1>3. answers = fixtures /\ \A f \in Tracked : fixtures[f] = d
  BY <1>2 DEF GoldenInit
<1>4. GoldenTyped
  <2>1. fixtures \in [Tracked -> Fixtures \cup {NoFile}] /\ answers \in [Tracked -> Fixtures \cup {NoFile}]
    BY <1>1, <1>2, <1>3
  <2>2. world \in [day : 0..MaxDay, changed : BOOLEAN]
    BY FixtureAssumption DEF GoldenInit
  <2>3. QED
    BY <2>1, <2>2 DEF GoldenTyped, GoldenInit
<1>5. FilesFit
  BY <1>1, <1>3 DEF FilesFit
<1>6. script.state = "none" /\ ~verdict.ok /\ resting = {}
  BY StateOf DEF GoldenInit
<1>7. SanitizedSoFar /\ VerdictFits /\ TodoFits /\ RestFits
  BY <1>6 DEF SanitizedSoFar, VerdictFits, VerdictsRight, TodoFits, RestFits, LeftoversExplained
<1>8. QED
  BY <1>4, <1>5, <1>7 DEF GoldenInv

LEMMA DayStep == ASSUME GoldenInv, DayPasses PROVE GoldenInv'
<1> USE DEF DayPasses
<1>1. script.state = "none" /\ UNCHANGED <<fixtures, answers, script, resting, combinations, faults, scripts>>
  OBVIOUS
<1>2. world' \in [day : 0..MaxDay, changed : BOOLEAN] /\ verdict' = [by |-> "none", ok |-> FALSE]
  BY FixtureAssumption DEF GoldenInv, GoldenTyped
<1>3. GoldenTyped'
  BY <1>1, <1>2 DEF GoldenInv, GoldenTyped
<1>4. FilesFit' /\ SanitizedSoFar' /\ TodoFits'
  BY <1>1 DEF GoldenInv, FilesFit, SanitizedSoFar, TodoFits
<1>5. VerdictFits'
  BY <1>1, <1>2 DEF VerdictFits, VerdictsRight
<1>6. RestFits'
  BY <1>1 DEF GoldenInv, RestFits, LeftoversExplained
<1>7. QED
  BY <1>3, <1>4, <1>5, <1>6 DEF GoldenInv

LEMMA RecordStep == ASSUME GoldenInv, NEW c \in CommandLines, Record(c) PROVE GoldenInv'
<1>1. /\ script.state = "none" /\ resting' = {} /\ combinations' = 0 /\ faults' = {}
      /\ UNCHANGED <<fixtures, answers, world>>
  BY DEF Record, StartScript
<1>2. FilesFit'
  BY <1>1 DEF GoldenInv, FilesFit
<1>3. CASE CommandRefused(c)
  <2>1. script' = NoScript /\ verdict' = [by |-> "refused", ok |-> FALSE]
    BY <1>3 DEF Record
  <2>2. script'.state = "none"
    BY <2>1, StateOf
  <2>3. GoldenTyped'
    BY <1>1, <2>1 DEF GoldenInv, GoldenTyped
  <2>4. SanitizedSoFar' /\ VerdictFits' /\ TodoFits' /\ RestFits'
    BY <1>1, <2>1, <2>2 DEF SanitizedSoFar, VerdictFits, VerdictsRight, TodoFits, RestFits, LeftoversExplained
  <2>5. QED
    BY <1>2, <2>3, <2>4 DEF GoldenInv
<1>4. CASE ~CommandRefused(c)
  <2> DEFINE r == RecordersOf(c)[1]
             p == StepsOf(r, c)
  <2>1. /\ script' = [state |-> "recording", cmd |-> c, queue |-> RecordersOf(c), plan |-> p,
                      todo |-> DOMAIN p, tries |-> 0, contract |-> FALSE, target |-> "amend"]
        /\ verdict' = [by |-> "none", ok |-> FALSE]
    BY <1>4 DEF Record
  <2>2. RecordersOf(c) \in Queues /\ Head(RecordersOf(c)) = r
    BY QueueOfCommand, QueueFacts
  <2>3. PlanFits(r, c, p) /\ ("combination" \in Marks(p) => fixtures[LookupFile] = NoFile)
    BY PlanOfRecorder
  <2> HIDE DEF r, p
  <2>4. p \in Seq(Steps) /\ InOrder(p)
    BY <2>3 DEF PlanFits, Proper
  <2>5. DOMAIN p \subseteq Nat
    BY <2>4
  <2>6. script' \in Recordings
    BY <2>1, <2>2, <2>4, <2>5 DEF Recordings
  <2>7. GoldenTyped'
    BY <1>1, <2>1, <2>6 DEF GoldenInv, GoldenTyped
  <2>8. script'.state = "recording"
    BY <2>1
  <2>9. SanitizedSoFar' /\ VerdictFits' /\ RestFits'
    BY <1>1, <2>1, <2>8 DEF SanitizedSoFar, VerdictFits, VerdictsRight, RestFits, LeftoversExplained
  <2>10. TodoFits'
    <3>1. script'.plan = p /\ script'.todo = DOMAIN p /\ script'.cmd = c /\ script'.queue = RecordersOf(c)
          /\ script'.target = "amend"
      BY <2>1
    <3>2. ASSUME NEW o \in Placeable, NEW i \in DOMAIN p, p[i] = CreateOf(o)
          PROVE  \E u \in DOMAIN p : p[u] = UndoOf(o)
      BY <2>4, <3>2 DEF InOrder, Undone
    <3>3. ASSUME NEW j \in DOMAIN p, p[j] = "combination"
          PROVE  /\ fixtures[LookupFile] = NoFile
                 /\ \E k \in DOMAIN p : k < j /\ p[k] = "lookup_history"
      <4>1. "combination" \in Marks(p)
        BY <3>3 DEF Marks, StepSet, Marked
      <4>2. QED
        BY <2>3, <2>4, <3>3, <4>1 DEF InOrder, Preceded
    <3>4. PlanFits(Head(script'.queue), script'.cmd, script'.plan)
      BY <2>2, <2>3, <3>1
    <3>5. combinations' = 0 /\ fixtures' = fixtures
      BY <1>1
    <3>6. /\ script'.todo \subseteq DOMAIN script'.plan
          /\ PlanFits(Head(script'.queue), script'.cmd, script'.plan)
          /\ \A o \in Placeable : ToDo(CreateOf(o))' => ToDo(UndoOf(o))'
          /\ ToDo("combination")' => fixtures'[LookupFile] = NoFile
          /\ \A j \in script'.todo : script'.plan[j] = "combination" =>
                script'.cmd.creates \/ \E k \in script'.todo : k < j /\ script'.plan[k] = "lookup_history"
      BY <3>1, <3>2, <3>3, <3>4, <3>5 DEF ToDo
    <3>7. QED
      BY <3>1, <3>5, <3>6 DEF TodoFits
  <2>11. QED
    BY <1>2, <2>7, <2>9, <2>10 DEF GoldenInv
<1>5. QED
  BY <1>3, <1>4

LEMMA BeginStep == ASSUME GoldenInv, NEW force \in BOOLEAN, BeginSanitize(force) PROVE GoldenInv'
<1>1. /\ script.state = "none" /\ resting' = {} /\ combinations' = 0 /\ faults' = {}
      /\ UNCHANGED <<fixtures, answers, world>>
      /\ verdict' = [by |-> "none", ok |-> FALSE]
      /\ script' = [state |-> "sanitizing", force |-> force, files |-> SensitiveFiles \intersect Tracked,
                    failed |-> FALSE]
  BY DEF BeginSanitize, StartScript
<1>2. script' \in Sanitizings /\ script'.state = "sanitizing" /\ script'.files = SensitiveFiles \intersect Tracked
  BY <1>1 DEF Sanitizings
<1>3. GoldenTyped'
  BY <1>1, <1>2 DEF GoldenInv, GoldenTyped
<1>4. FilesFit'
  BY <1>1 DEF GoldenInv, FilesFit
<1>5. SanitizedSoFar'
  BY <1>1, <1>2 DEF GoldenInv, FilesFit, SanitizedSoFar
<1>6. VerdictFits' /\ TodoFits' /\ RestFits'
  BY <1>1, <1>2 DEF VerdictFits, VerdictsRight, TodoFits, RestFits, LeftoversExplained
<1>7. QED
  BY <1>3, <1>4, <1>5, <1>6 DEF GoldenInv

(* A green check speaks of the files, and a whole file of the answer.       *)
LEMMA CheckStep == ASSUME GoldenInv, Check PROVE GoldenInv'
<1>1. /\ script.state = "none" /\ resting' = {} /\ combinations' = 0 /\ faults' = {}
      /\ UNCHANGED <<fixtures, answers, world, script>>
  BY DEF Check, StartScript
<1>2. \/ verdict' = [by |-> "validator", ok |-> \A f \in Tracked : Validated(f) => FieldsMatch(fixtures[f].sent)]
      \/ verdict' = [by |-> "freshness", ok |-> ~\E f \in Tracked : Aged(f)]
  BY DEF Check
<1>3. GoldenTyped'
  <2> DEFINE v == \A f \in Tracked : Validated(f) => FieldsMatch(fixtures[f].sent)
             w == ~\E f \in Tracked : Aged(f)
  <2>1. v \in BOOLEAN /\ w \in BOOLEAN
    OBVIOUS
  <2>2. verdict' = [by |-> "validator", ok |-> v] \/ verdict' = [by |-> "freshness", ok |-> w]
    BY <1>2
  <2> HIDE DEF v, w
  <2>3. QED
    BY <1>1, <2>1, <2>2 DEF GoldenInv, GoldenTyped
<1>4. FilesFit' /\ SanitizedSoFar' /\ TodoFits' /\ RestFits'
  BY <1>1 DEF GoldenInv, FilesFit, SanitizedSoFar, TodoFits, RestFits, LeftoversExplained
<1>5. \A f \in Tracked : ReliedOn(f) => /\ fixtures[f] # NoFile /\ fixtures[f].whole
                                        /\ fixtures[f].sent = answers[f].sent /\ fixtures[f].day = answers[f].day
  BY DEF GoldenInv, FilesFit, ReliedOn
<1>6. CASE verdict' = [by |-> "validator", ok |-> \A f \in Tracked : Validated(f) => FieldsMatch(fixtures[f].sent)]
  <2>1. ASSUME verdict'.ok, NEW f \in Tracked \ Unmapped, ReliedOn(f), answers[f].sent # {}
        PROVE  answers[f].sent \subseteq Required \union Optional \union Aliases /\ Accepted(answers[f].sent)
    <3>1. Validated(f) /\ fixtures[f].sent = answers[f].sent
      BY <1>5, <2>1 DEF Validated
    <3>2. FieldsMatch(answers[f].sent)
      BY <1>6, <2>1, <3>1
    <3>3. QED
      BY <3>2 DEF FieldsMatch, Unexpected
  <2>2. verdict'.by = "validator"
    BY <1>6
  <2>3. VerdictsRight'
    BY <1>1, <2>1, <2>2 DEF VerdictsRight, ReliedOn
  <2>4. VerdictFits'
    BY <1>1, <2>3 DEF VerdictFits
  <2>5. QED
    BY <1>3, <1>4, <2>4 DEF GoldenInv
<1>7. CASE verdict' = [by |-> "freshness", ok |-> ~\E f \in Tracked : Aged(f)]
  <2>1. ASSUME verdict'.ok, NEW f \in Tracked, ReliedOn(f)
        PROVE  world.day - answers[f].day <= FreshDays
    <3>1. ~Aged(f)
      BY <1>7, <2>1
    <3>2. ~(world.day - answers[f].day > FreshDays)
      BY <1>5, <2>1, <3>1 DEF Aged
    <3>3. answers[f] \in Fixtures /\ world.day \in 0..MaxDay
      BY <2>1 DEF GoldenInv, GoldenTyped, ReliedOn
    <3>4. answers[f].day \in Nat /\ world.day \in Nat /\ FreshDays \in Nat
      BY <3>3, FixtureAssumption DEF Fixtures
    <3>5. QED
      BY <3>2, <3>4
  <2>2. verdict'.by = "freshness"
    BY <1>7
  <2>3. VerdictsRight'
    BY <1>1, <2>1, <2>2 DEF VerdictsRight, ReliedOn
  <2>4. VerdictFits'
    BY <1>1, <2>3 DEF VerdictFits
  <2>5. QED
    BY <1>3, <1>4, <2>4 DEF GoldenInv
<1>8. QED
  BY <1>2, <1>6, <1>7

LEMMA SanitizeStep == ASSUME GoldenInv, NEW f \in Tracked, SanitizeFile(f) PROVE GoldenInv'
<1> DEFINE d == fixtures[f]
           e == [d EXCEPT !.raw = FALSE, !.sanitized = TRUE]
           kept == d = NoFile \/ ~d.whole \/ (d.sanitized /\ ~script.force)
<1>1. /\ script.state = "sanitizing" /\ f \in script.files
      /\ UNCHANGED <<answers, resting, combinations, faults, world, verdict>>
      /\ script' = [script EXCEPT !.files = @ \ {f}, !.failed = @ \/ (d # NoFile /\ ~d.whole)]
      /\ fixtures' = IF kept THEN fixtures ELSE [fixtures EXCEPT ![f] = e]
  <2>1. d = NoFile \/ (d.whole /\ d.sanitized /\ ~script.force) \/ (d # NoFile /\ ~d.whole) <=> kept
    <3>1. d = NoFile \/ d \in Fixtures
      BY DEF GoldenInv, GoldenTyped
    <3>2. d \in Fixtures => d.whole \in BOOLEAN /\ d.sanitized \in BOOLEAN
      BY DEF Fixtures
    <3>3. QED
      BY <3>1, <3>2
  <2>2. QED
    BY <2>1 DEF SanitizeFile
<1>2. script \in Sanitizings
  BY <1>1, StateOf DEF GoldenInv
<1>3. script' \in Sanitizings /\ script'.state = "sanitizing" /\ script'.files = script.files \ {f}
  <2>1. (d # NoFile /\ ~d.whole) \in BOOLEAN
    OBVIOUS
  <2> DEFINE w == d # NoFile /\ ~d.whole
  <2>2. script' = [script EXCEPT !.files = @ \ {f}, !.failed = @ \/ w] /\ w \in BOOLEAN
    BY <1>1, <2>1
  <2> HIDE DEF w, d
  <2>3. QED
    BY <1>2, <2>2 DEF Sanitizings
<1>4. ~kept => d \in Fixtures /\ e \in Fixtures /\ e.sent = d.sent /\ e.day = d.day /\ e.whole = d.whole
               /\ e.raw = FALSE /\ e.sanitized = TRUE
  <2>1. d = NoFile \/ d \in Fixtures
    BY DEF GoldenInv, GoldenTyped
  <2> HIDE DEF d
  <2>2. QED
    BY <2>1 DEF Fixtures
<1>5. kept => fixtures'[f] = d
  BY <1>1
<1>6. ~kept => fixtures'[f] = e
  BY <1>1 DEF GoldenInv, GoldenTyped
<1>7. \A g \in Tracked : g # f => fixtures'[g] = fixtures[g]
  BY <1>1 DEF GoldenInv, GoldenTyped
<1>8. GoldenTyped'
  <2>1. fixtures' \in [Tracked -> Fixtures \cup {NoFile}]
    BY <1>1, <1>4 DEF GoldenInv, GoldenTyped
  <2>2. QED
    BY <1>1, <1>3, <2>1 DEF GoldenInv, GoldenTyped
<1>9. /\ answers[f] # NoFile => d # NoFile /\ (d.whole => d.sent = answers[f].sent /\ d.day = answers[f].day)
      /\ d # NoFile /\ d.raw => f \in SensitiveFiles /\ ~d.sanitized
  BY DEF GoldenInv, FilesFit
<1>10. NoFile \notin Fixtures
  BY FixtureAssumption
<1> HIDE DEF e
<1>11. FilesFit'
  <2>1. SUFFICES ASSUME NEW g \in Tracked
                 PROVE /\ answers[g] # NoFile =>
                             /\ fixtures'[g] # NoFile
                             /\ fixtures'[g].whole =>
                                   fixtures'[g].sent = answers[g].sent /\ fixtures'[g].day = answers[g].day
                       /\ fixtures'[g] # NoFile /\ fixtures'[g].raw =>
                             g \in SensitiveFiles /\ ~fixtures'[g].sanitized
    BY <1>1 DEF FilesFit
  <2>2. CASE g # f
    BY <1>7, <2>2 DEF GoldenInv, FilesFit
  <2>3. CASE g = f /\ kept
    BY <1>5, <1>9, <2>3
  <2>4. CASE g = f /\ ~kept
    BY <1>4, <1>6, <1>9, <1>10, <2>4
  <2>5. QED
    BY <2>2, <2>3, <2>4
<1>12. SanitizedSoFar'
  <2>1. SUFFICES ASSUME NEW g \in Tracked, g \notin script'.files, fixtures'[g] # NoFile, fixtures'[g].whole,
                        fixtures'[g].raw
                 PROVE  FALSE
    BY DEF SanitizedSoFar
  <2>2. CASE g # f
    BY <1>1, <1>3, <1>7, <2>1, <2>2 DEF GoldenInv, SanitizedSoFar
  <2>3. CASE g = f /\ kept
    BY <1>5, <1>9, <2>1, <2>3
  <2>4. CASE g = f /\ ~kept
    BY <1>4, <1>6, <2>1, <2>4
  <2>5. QED
    BY <2>2, <2>3, <2>4
<1>13. VerdictFits'
  BY <1>1, <1>3 DEF GoldenInv, VerdictFits, VerdictsRight
<1>14. TodoFits' /\ RestFits'
  BY <1>1, <1>3 DEF GoldenInv, TodoFits, RestFits, LeftoversExplained
<1>15. QED
  BY <1>8, <1>11, <1>12, <1>13, <1>14 DEF GoldenInv

LEMMA CutSanitizeStep ==
    ASSUME GoldenInv, NEW f \in Tracked, NEW torn \in BOOLEAN, InterruptSanitize(f, torn) PROVE GoldenInv'
<1> DEFINE e == [fixtures[f] EXCEPT !.sent = {}, !.whole = FALSE]
<1>1. /\ script.state = "sanitizing" /\ (torn => fixtures[f] # NoFile) /\ script' = NoScript
      /\ UNCHANGED <<answers, resting, combinations, faults, world, verdict>>
      /\ fixtures' = IF torn THEN [fixtures EXCEPT ![f] = e] ELSE fixtures
  BY DEF InterruptSanitize
<1>2. script'.state = "none"
  BY <1>1, StateOf
<1>3. ~torn => fixtures' = fixtures
  BY <1>1
<1>4. torn => fixtures'[f] = e /\ \A g \in Tracked : g # f => fixtures'[g] = fixtures[g]
  BY <1>1 DEF GoldenInv, GoldenTyped
<1>5. torn => e \in Fixtures /\ e.raw = fixtures[f].raw /\ e.sanitized = fixtures[f].sanitized /\ e.whole = FALSE
  <2>1. torn => fixtures[f] \in Fixtures
    BY <1>1 DEF GoldenInv, GoldenTyped
  <2>2. QED
    BY <2>1 DEF Fixtures
<1> HIDE DEF e
<1>6. GoldenTyped'
  <2>1. fixtures' \in [Tracked -> Fixtures \cup {NoFile}]
    BY <1>1, <1>5 DEF GoldenInv, GoldenTyped
  <2>2. QED
    BY <1>1, <2>1 DEF GoldenInv, GoldenTyped
<1>7. NoFile \notin Fixtures
  BY FixtureAssumption
<1>8. FilesFit'
  <2>1. SUFFICES ASSUME NEW g \in Tracked
                 PROVE /\ answers[g] # NoFile =>
                             /\ fixtures'[g] # NoFile
                             /\ fixtures'[g].whole =>
                                   fixtures'[g].sent = answers[g].sent /\ fixtures'[g].day = answers[g].day
                       /\ fixtures'[g] # NoFile /\ fixtures'[g].raw =>
                             g \in SensitiveFiles /\ ~fixtures'[g].sanitized
    BY <1>1 DEF FilesFit
  <2>2. CASE ~torn \/ g # f
    BY <1>3, <1>4, <2>2 DEF GoldenInv, FilesFit
  <2>3. CASE torn /\ g = f
    BY <1>1, <1>4, <1>5, <1>7, <2>3 DEF GoldenInv, FilesFit
  <2>4. QED
    BY <2>2, <2>3
<1>9. ~verdict.ok
  BY <1>1 DEF GoldenInv, VerdictFits
<1>10. SanitizedSoFar' /\ VerdictFits' /\ TodoFits'
  BY <1>1, <1>2, <1>9 DEF SanitizedSoFar, VerdictFits, VerdictsRight, TodoFits
<1>11. RestFits'
  BY <1>1, <1>2 DEF GoldenInv, RestFits, LeftoversExplained
<1>12. QED
  BY <1>6, <1>8, <1>10, <1>11 DEF GoldenInv

LEMMA EndSanitizeStep == ASSUME GoldenInv, EndSanitize PROVE GoldenInv'
<1>1. /\ script.state = "sanitizing" /\ script.files = {} /\ script' = NoScript
      /\ verdict' = [by |-> "sanitizer", ok |-> ~script.failed]
      /\ UNCHANGED <<fixtures, answers, resting, combinations, faults, world>>
  BY DEF EndSanitize
<1>2. script'.state = "none"
  BY <1>1, StateOf
<1>3. GoldenTyped'
  BY <1>1 DEF GoldenInv, GoldenTyped
<1>4. FilesFit' /\ SanitizedSoFar' /\ TodoFits'
  BY <1>1, <1>2 DEF GoldenInv, FilesFit, SanitizedSoFar, TodoFits
<1>5. \A f \in Tracked : fixtures[f] # NoFile => ~(fixtures[f].whole /\ fixtures[f].raw)
  BY <1>1 DEF GoldenInv, SanitizedSoFar
<1>6. VerdictsRight'
  BY <1>1, <1>5 DEF VerdictsRight
<1>7. VerdictFits'
  BY <1>2, <1>6 DEF VerdictFits
<1>8. RestFits'
  BY <1>1, <1>2 DEF GoldenInv, RestFits, LeftoversExplained
<1>9. QED
  BY <1>3, <1>4, <1>7, <1>8 DEF GoldenInv

LEMMA AccountIsSensitive == AccountFiles \subseteq SensitiveFiles
<1> DEFINE p1 == ReadSteps \o GroupSteps
           p2 == p1 \o SingleSteps
           p3 == p2 \o BatchSteps
<1>1. ReadSteps \in Seq(Steps) /\ GroupSteps \in Seq(Steps) /\ SingleSteps \in Seq(Steps) /\ BatchSteps \in Seq(Steps)
  BY PlainProper, WriteProper DEF Proper
<1>2. StepSet(p1) = StepSet(ReadSteps) \cup StepSet(GroupSteps) /\ p1 \in Seq(Steps)
  BY <1>1, SetOfJoined
<1> HIDE DEF p1
<1>3. StepSet(p2) = StepSet(p1) \cup StepSet(SingleSteps) /\ p2 \in Seq(Steps)
  BY <1>1, <1>2, SetOfJoined
<1> HIDE DEF p2
<1>4. StepSet(p3) = StepSet(p2) \cup StepSet(BatchSteps)
  BY <1>1, <1>3, SetOfJoined
<1>5. AccountFiles = StepSet(p3) \cup {"amend_order"}
  BY DEF AccountFiles, p1, p2, p3
<1> HIDE DEF p3
<1>6. StepSet(SingleSteps) \subseteq SensitiveFiles
  BY SinglePart DEF SensitiveFiles
<1>7. QED
  BY <1>2, <1>3, <1>4, <1>5, <1>6 DEF SensitiveFiles

LEMMA NewFixture ==
    ASSUME GoldenInv, NEW s, NEW a
    PROVE  /\ Fixture(s, a) \in Fixtures /\ Fixture(s, a) # NoFile
           /\ Fixture(s, a).raw => FileOf(s) \in SensitiveFiles
           /\ ~Fixture(s, a).sanitized
<1> DEFINE raw == FileOf(s) \in AccountFiles
           sent == IF a = "bare" THEN {} ELSE IF world.changed THEN SentLater ELSE SentNow
<1>1. raw \in BOOLEAN /\ sent \in {SentNow, SentLater, {}} /\ world.day \in 0..MaxDay
  BY DEF GoldenInv, GoldenTyped
<1>2. raw => FileOf(s) \in SensitiveFiles
  BY AccountIsSensitive
<1>3. Fixture(s, a) = [sent |-> sent, raw |-> raw, sanitized |-> FALSE, day |-> world.day, whole |-> TRUE]
  BY DEF Fixture
<1> HIDE DEF raw, sent
<1>4. Fixture(s, a) \in Fixtures
  BY <1>1, <1>3 DEF Fixtures
<1>5. Fixture(s, a).raw = raw /\ Fixture(s, a).sanitized = FALSE
  BY <1>3
<1>6. Fixture(s, a).raw => FileOf(s) \in SensitiveFiles
  BY <1>1, <1>2, <1>5
<1>7. Fixture(s, a) # NoFile
  BY <1>4, FixtureAssumption
<1>8. QED
  BY <1>4, <1>5, <1>6, <1>7

(* An answer that is saved leaves the directory in order.                   *)
LEMMA SavedFits ==
    ASSUME GoldenInv, NEW s, NEW a, Saved(s, a)
    PROVE  /\ fixtures' \in [Tracked -> Fixtures \cup {NoFile}]
           /\ answers' \in [Tracked -> Fixtures \cup {NoFile}]
           /\ FilesFit'
           /\ FileOf(s) # LookupFile \/ ~Saves(s, a) => fixtures'[LookupFile] = fixtures[LookupFile]
<1> DEFINE f == FileOf(s)
           d == Fixture(s, a)
<1>1. d \in Fixtures /\ d # NoFile /\ (d.raw => f \in SensitiveFiles) /\ ~d.sanitized
  BY NewFixture
<1>2. CASE Saves(s, a)
  <2>1. f \in Tracked /\ fixtures' = [fixtures EXCEPT ![f] = d] /\ answers' = [answers EXCEPT ![f] = d]
    BY <1>2 DEF Saved, Saves
  <2> HIDE DEF d, f
  <2>2. /\ fixtures' \in [Tracked -> Fixtures \cup {NoFile}]
        /\ answers' \in [Tracked -> Fixtures \cup {NoFile}]
        /\ fixtures'[f] = d /\ answers'[f] = d
        /\ \A g \in Tracked : g # f => fixtures'[g] = fixtures[g] /\ answers'[g] = answers[g]
    BY <1>1, <2>1 DEF GoldenInv, GoldenTyped
  <2>3. FilesFit'
    <3>1. SUFFICES ASSUME NEW g \in Tracked
                   PROVE /\ answers'[g] # NoFile =>
                               /\ fixtures'[g] # NoFile
                               /\ fixtures'[g].whole =>
                                     fixtures'[g].sent = answers'[g].sent /\ fixtures'[g].day = answers'[g].day
                         /\ fixtures'[g] # NoFile /\ fixtures'[g].raw =>
                               g \in SensitiveFiles /\ ~fixtures'[g].sanitized
      BY DEF FilesFit
    <3>2. CASE g = f
      BY <1>1, <2>2, <3>2
    <3>3. CASE g # f
      BY <2>2, <3>3 DEF GoldenInv, FilesFit
    <3>4. QED
      BY <3>2, <3>3
  <2>4. LookupFile \in Tracked
    BY FixtureAssumption
  <2>5. f # LookupFile => fixtures'[LookupFile] = fixtures[LookupFile]
    BY <2>2, <2>4
  <2>6. QED
    BY <1>2, <2>2, <2>3, <2>5 DEF f
<1>3. CASE ~Saves(s, a)
  <2>1. UNCHANGED <<fixtures, answers>>
    BY <1>3 DEF Saved
  <2>2. QED
    BY <2>1 DEF GoldenInv, GoldenTyped, FilesFit
<1>4. QED
  BY <1>2, <1>3

LEMMA LookupIsSaved == \A s : FileOf(s) = LookupFile => s = LookupFile
  BY DEF FileOf, LookupFile

LEMMA RestTyped ==
    ASSUME GoldenInv, script.state = "recording", NEW s, NEW renamed,
           Happens(s, renamed) \/ UNCHANGED <<resting, combinations>>
    PROVE  /\ resting' \in SUBSET Placeable /\ combinations' \in Nat
           /\ "batch1" \in resting' <=> "batch2" \in resting'
           /\ combinations' > combinations => s = "combination" /\ combinations' = combinations + 1
           /\ s # "combination" => combinations' = combinations
<1>1. /\ resting \in SUBSET Placeable /\ combinations \in Nat
      /\ "batch1" \in resting <=> "batch2" \in resting
  BY DEF GoldenInv, GoldenTyped, RestFits
<1>2. script.target \in {"amend", "amended"}
  BY RecordingNow DEF GoldenInv, Recordings
<1>3. CASE UNCHANGED <<resting, combinations>>
  BY <1>1, <1>3
<1>4. CASE Happens(s, renamed)
  <2>1. PlacedBy(s) \subseteq Placeable /\ ("batch1" \in PlacedBy(s) <=> "batch2" \in PlacedBy(s))
    BY DEF PlacedBy, Placeable
  <2>2. "batch1" \in RemovedBy(s) <=> "batch2" \in RemovedBy(s)
    BY <1>2 DEF RemovedBy
  <2>3. resting' \in SUBSET Placeable /\ ("batch1" \in resting' <=> "batch2" \in resting')
    BY <1>1, <1>4, <2>1, <2>2 DEF Happens, Placeable
  <2>4. QED
    BY <1>1, <1>4, <2>3 DEF Happens
<1>5. QED
  BY <1>3, <1>4

-----------------------------------------------------------------------------
LEMMA NextRecorderStep == ASSUME GoldenInv, NextRecorder PROVE GoldenInv'
<1>1. /\ script.state = "recording" /\ script.todo = {}
      /\ UNCHANGED <<fixtures, answers, resting, combinations, faults, world, scripts>>
  BY DEF NextRecorder
<1>2. script \in Recordings
  BY <1>1, RecordingNow DEF GoldenInv
<1>3. ~verdict.ok
  BY <1>1 DEF GoldenInv, VerdictFits
<1>4. FilesFit'
  BY <1>1 DEF GoldenInv, FilesFit
<1>5. ("batch1" \in resting <=> "batch2" \in resting) /\ \A o \in resting : Explained(o)
  BY <1>1 DEF GoldenInv, RestFits, Closing
<1>6. ("batch1" \in resting <=> "batch2" \in resting)' /\ \A o \in resting' : Explained(o)'
  BY <1>1, <1>5 DEF Explained
<1>7. RestFits'
  BY <1>6 DEF RestFits, LeftoversExplained, Explained
<1>8. CASE Len(script.queue) > 1
  <2> DEFINE r == script.queue[2]
             c == script.cmd
             p == StepsOf(r, c)
  <2>1. script' = [script EXCEPT !.queue = Tail(@), !.plan = p, !.todo = DOMAIN p] /\ verdict' = verdict
    BY <1>1, <1>8 DEF NextRecorder
  <2>2. c \in CommandLines /\ script.queue \in Queues
    BY <1>2 DEF Recordings
  <2>3. Tail(script.queue) \in Queues /\ Head(Tail(script.queue)) = r
    BY <1>8, <2>2, QueueFacts
  <2>4. PlanFits(r, c, p) /\ ("combination" \in Marks(p) => fixtures[LookupFile] = NoFile)
    BY <2>2, PlanOfRecorder
  <2> HIDE DEF p, r, c
  <2>5. p \in Seq(Steps) /\ InOrder(p)
    BY <2>4 DEF PlanFits, Proper
  <2>6. DOMAIN p \subseteq Nat
    BY <2>5
  <2>7. /\ script' \in Recordings
        /\ script'.state = "recording" /\ script'.plan = p /\ script'.todo = DOMAIN p /\ script'.cmd = c
        /\ script'.queue = Tail(script.queue) /\ script'.target = script.target
    BY <1>2, <2>1, <2>3, <2>5, <2>6 DEF Recordings, c
  <2>8. GoldenTyped'
    BY <1>1, <2>1, <2>7 DEF GoldenInv, GoldenTyped
  <2>9. SanitizedSoFar' /\ VerdictFits'
    BY <1>3, <2>1, <2>7 DEF SanitizedSoFar, VerdictFits, VerdictsRight
  <2>10. ASSUME NEW o \in Placeable, NEW i \in DOMAIN p, p[i] = CreateOf(o)
         PROVE  \E u \in DOMAIN p : p[u] = UndoOf(o)
    BY <2>5, <2>10 DEF InOrder, Undone
  <2>11. ASSUME NEW j \in DOMAIN p, p[j] = "combination"
         PROVE  /\ "combination" \in Marks(p) /\ fixtures[LookupFile] = NoFile
                /\ \E k \in DOMAIN p : k < j /\ p[k] = "lookup_history"
    <3>1. "combination" \in Marks(p)
      BY <2>11 DEF Marks, StepSet, Marked
    <3>2. QED
      BY <2>4, <2>5, <2>11, <3>1 DEF InOrder, Preceded
  <2>12. PlanFits(Head(script'.queue), script'.cmd, script'.plan)
    BY <2>3, <2>4, <2>7
  <2>13. /\ script'.todo \subseteq DOMAIN script'.plan
         /\ \A o \in Placeable : ToDo(CreateOf(o))' => ToDo(UndoOf(o))'
         /\ ToDo("combination")' => fixtures'[LookupFile] = NoFile
         /\ \A j \in script'.todo : script'.plan[j] = "combination" =>
               script'.cmd.creates \/ \E k \in script'.todo : k < j /\ script'.plan[k] = "lookup_history"
    BY <1>1, <2>7, <2>10, <2>11 DEF ToDo
  <2>14. script'.target = "amend"
    BY <1>1, <1>8, <2>7 DEF GoldenInv, TodoFits
  <2>15. combinations' > 0 => "combination" \in faults' \/ (~ToDo("combination")' /\ ~LookupLater(script'.queue))
    <3>1. SUFFICES ASSUME combinations > 0, "combination" \notin faults
                   PROVE  ~ToDo("combination")' /\ ~LookupLater(script'.queue)
      BY <1>1
    <3>2. ~LookupLater(script.queue)
      BY <1>1, <3>1 DEF GoldenInv, TodoFits
    <3>3. r # "phase5" /\ ~LookupLater(Tail(script.queue))
      BY <1>8, <2>2, <3>2, QueueFacts DEF r
    <3>4. "combination" \notin Marks(p)
      BY <2>4, <3>3 DEF PlanFits
    <3>5. QED
      BY <2>7, <2>11, <3>3, <3>4 DEF ToDo
  <2>16. TodoFits'
    BY <2>12, <2>13, <2>14, <2>15 DEF TodoFits
  <2>17. QED
    BY <1>4, <1>7, <2>8, <2>9, <2>16 DEF GoldenInv
<1>9. CASE ~(Len(script.queue) > 1)
  <2>1. script' = NoScript /\ verdict' = [by |-> "recorder", ok |-> TRUE]
    BY <1>9 DEF NextRecorder
  <2>2. script'.state = "none"
    BY <2>1, StateOf
  <2>3. GoldenTyped'
    BY <1>1, <2>1 DEF GoldenInv, GoldenTyped
  <2>4. SanitizedSoFar' /\ VerdictFits' /\ TodoFits'
    BY <2>1, <2>2 DEF SanitizedSoFar, VerdictFits, VerdictsRight, TodoFits
  <2>5. QED
    BY <1>4, <1>7, <2>3, <2>4 DEF GoldenInv
<1>10. QED
  BY <1>8, <1>9

LEMMA InterruptStep ==
    ASSUME GoldenInv, NEW taken \in BOOLEAN, NEW torn \in BOOLEAN, Interrupt(taken, torn)
    PROVE  GoldenInv'
<1> DEFINE s == NextStep
           f == FileOf(s)
           e == [Fixture(s, "bare") EXCEPT !.whole = FALSE]
<1>1. /\ script.state = "recording" /\ script' = NoScript
      /\ torn => Saves(s, "full")
      /\ Happens(s, FALSE) \/ UNCHANGED <<resting, combinations>>
      /\ fixtures' = IF torn THEN [fixtures EXCEPT ![f] = e] ELSE fixtures
      /\ faults' = faults \union {"interrupt"}
      /\ verdict' = [by |-> "recorder", ok |-> FALSE]
      /\ UNCHANGED <<answers, world, scripts>>
  BY DEF Interrupt
<1>2. torn => f \in Tracked
  BY <1>1 DEF Saves
<1>3. e \in Fixtures /\ e # NoFile /\ e.whole = FALSE /\ (e.raw => f \in SensitiveFiles) /\ ~e.sanitized
  <2>1. Fixture(s, "bare") \in Fixtures /\ (Fixture(s, "bare").raw => f \in SensitiveFiles)
        /\ ~Fixture(s, "bare").sanitized
    BY NewFixture
  <2> DEFINE d == Fixture(s, "bare")
  <2> HIDE DEF s, d
  <2>2. e \in Fixtures /\ e.whole = FALSE /\ e.raw = d.raw /\ e.sanitized = d.sanitized
    BY <2>1 DEF Fixtures, d
  <2>3. QED
    BY <2>1, <2>2, FixtureAssumption DEF d
<1> HIDE DEF e, f
<1>4. ~torn => fixtures' = fixtures
  BY <1>1
<1>5. torn => fixtures'[f] = e /\ \A g \in Tracked : g # f => fixtures'[g] = fixtures[g]
  BY <1>1, <1>2 DEF GoldenInv, GoldenTyped
<1>6. script'.state = "none"
  BY <1>1, StateOf
<1>7. /\ resting' \in SUBSET Placeable /\ combinations' \in Nat
      /\ "batch1" \in resting' <=> "batch2" \in resting'
  BY <1>1, RestTyped
<1>8. GoldenTyped'
  <2>1. fixtures' \in [Tracked -> Fixtures \cup {NoFile}]
    BY <1>1, <1>3 DEF GoldenInv, GoldenTyped
  <2>2. QED
    BY <1>1, <1>7, <2>1 DEF GoldenInv, GoldenTyped
<1>9. FilesFit'
  <2>1. SUFFICES ASSUME NEW g \in Tracked
                 PROVE /\ answers[g] # NoFile =>
                             /\ fixtures'[g] # NoFile
                             /\ fixtures'[g].whole =>
                                   fixtures'[g].sent = answers[g].sent /\ fixtures'[g].day = answers[g].day
                       /\ fixtures'[g] # NoFile /\ fixtures'[g].raw =>
                             g \in SensitiveFiles /\ ~fixtures'[g].sanitized
    BY <1>1 DEF FilesFit
  <2>2. CASE ~torn \/ g # f
    BY <1>4, <1>5, <2>2 DEF GoldenInv, FilesFit
  <2>3. CASE torn /\ g = f
    BY <1>3, <1>5, <2>3
  <2>4. QED
    BY <2>2, <2>3
<1>10. SanitizedSoFar' /\ VerdictFits' /\ TodoFits'
  BY <1>1, <1>6 DEF SanitizedSoFar, VerdictFits, VerdictsRight, TodoFits
<1>11. RestFits'
  BY <1>1, <1>6, <1>7 DEF RestFits, LeftoversExplained
<1>12. QED
  BY <1>8, <1>9, <1>10, <1>11 DEF GoldenInv

-----------------------------------------------------------------------------
(* An answer to the next step.                                              *)
LEMMA NextIsFirst ==
    ASSUME GoldenInv, script.state = "recording", script.todo # {}
    PROVE  /\ NextIndex \in script.todo /\ NextIndex \in Nat /\ NextIndex \in DOMAIN script.plan
           /\ \A i \in script.todo : i \in Nat /\ NextIndex <= i
           /\ NextStep = script.plan[NextIndex]
<1>1. script.todo \in SUBSET Nat /\ script.todo \subseteq DOMAIN script.plan
  BY RecordingNow DEF GoldenInv, TodoFits, Recordings
<1>2. QED
  BY <1>1, LeastOfSome DEF NextIndex, NextStep

(* The plan is in order, and a marked step comes once.                      *)
LEMMA PlanIsProper ==
    ASSUME GoldenInv, script.state = "recording"
    PROVE  /\ InOrder(script.plan) /\ script.todo \subseteq DOMAIN script.plan
           /\ \A i, j \in DOMAIN script.plan :
                 script.plan[i] = script.plan[j] /\ script.plan[i] \in Marked => i = j
           /\ \A i \in DOMAIN script.plan :
                 script.plan[i] \in Marked => script.plan[i] \in Marks(script.plan)
           /\ script \in Recordings
<1>1. InOrder(script.plan) /\ script.todo \subseteq DOMAIN script.plan
  BY DEF GoldenInv, TodoFits, PlanFits, Proper
<1>2. script \in Recordings
  BY RecordingNow DEF GoldenInv
<1>3. QED
  BY <1>1, <1>2 DEF InOrder, Marks, StepSet

(* What the steps named here may be answered, and what they do.             *)
LEMMA AnswerFacts ==
    ASSUME NEW s, NEW a \in MayAnswer(s)
    PROVE  /\ Died(a) => s \in Raising \cup {"combination"}
           /\ s \in Writes \ {"combination"} => a \in {"full", "bare", "refused", "lost"}
           /\ s = "combination" => a \in {"full", "refused", "lost", "cut", "cut_lost"}
  BY DEF MayAnswer, Died, Raising, Writes, OrderCreates, Undoing, Deciding, LookupFile

(* Where a created thing can be lost: every read on its way ends in a fault *)
(* of its own.                                                              *)
LEMMA OnTheWay ==
    ASSUME NEW o \in Placeable
    PROVE  /\ UndoOf(o) \in WayOf(o) \cap Followed \cap Undoing \cap Marked
           /\ CreateOf(o) \in WayOf(o) \cap Followed \cap Marked \cap (Writes \ {"combination"})
           /\ CreateOf(o) \in OrderCreates \cup {"amend_order"}
           /\ CreateOf(o) \notin Undoing
           /\ \A s \in Between(o) : /\ s \in Raising => s \in WayOf(o) \cap Followed
                                    /\ s \in Between("single") \cup Between("group") \cup {"amend_order"}
                                    /\ s \notin {"lookup_history", "combination", "live_data_milestone"}
<1> USE DEF UndoOf, CreateOf, Between, Placeable
<1>1. UndoOf(o) \in WayOf(o) /\ CreateOf(o) \in WayOf(o)
  BY DEF WayOf
<1>2. UndoOf(o) \in Undoing /\ CreateOf(o) \in OrderCreates \cup {"amend_order"} /\ CreateOf(o) \notin Undoing
      /\ CreateOf(o) # "combination"
  BY DEF Undoing, OrderCreates
<1>3. \A s \in Between(o) : /\ s \in Between("single") \cup Between("group") \cup {"amend_order"}
                            /\ s \notin {"lookup_history", "combination", "live_data_milestone"}
  OBVIOUS
<1>4. \A s \in Between(o) : s \in Raising => s \in WayOf(o)
  BY DEF Raising, WayOf
<1>5. QED
  BY <1>1, <1>2, <1>3, <1>4 DEF Followed, Marked, Writes

LEMMA PlacesAndRemoves ==
    ASSUME NEW s
    PROVE  /\ s \notin Undoing => RemovedBy(s) = {}
           /\ s \notin OrderCreates => PlacedBy(s) = {}
           /\ \A o \in PlacedBy(s) : o \in Placeable /\ s = CreateOf(o) /\ o # "amended"
           /\ s = "combination" \/ s \in Raising => PlacedBy(s) = {} /\ RemovedBy(s) = {} /\ s # "amend_order"
  BY DEF RemovedBy, PlacedBy, Undoing, OrderCreates, Placeable, CreateOf, Raising

(* The recorder goes on with the same plan, or the script has ended.        *)
GoesOn ==
    /\ script' \in Recordings /\ script'.state = "recording" /\ script'.plan = script.plan
    /\ script'.cmd = script.cmd /\ script'.queue = script.queue

LEMMA AnswerShape ==
    ASSUME GoldenInv, NEW a, NEW renamed \in BOOLEAN, Answered(a, renamed)
    PROVE  \/ Died(a) /\ script' = NoScript /\ verdict' = [by |-> "recorder", ok |-> FALSE]
           \/ /\ GoesOn /\ verdict' = verdict
              /\ \/ Died(a) /\ script'.todo = {} /\ script'.target = script.target
                 \/ /\ ~Died(a) /\ NextStep \in {"live_data_milestone", "combination"} /\ a \in {"refused", "lost"}
                    /\ script'.todo = script.todo /\ script'.target = script.target
                 \/ /\ ~Died(a) /\ script'.todo = Remaining(NextStep, a)
                    /\ script'.target = CancelTarget(NextStep, a, renamed)
<1> DEFINE s == NextStep
           con == script.contract \/ (s = "multivariate_event_collection_single" /\ a = "full")
           left == Remaining(s, a)
           tgt == CancelTarget(s, a, renamed)
<1>1. /\ script.state = "recording" /\ script.todo # {}
      /\ script' = CASE Died(a) /\ ~Caught -> NoScript
                     [] Died(a) /\ Caught -> [script EXCEPT !.todo = {}]
                     [] TriedAgain(s, a) -> [script EXCEPT !.tries = @ + 1]
                     [] OTHER -> [script EXCEPT !.todo = left, !.tries = 0, !.target = tgt, !.contract = con]
      /\ verdict' = IF Died(a) /\ ~Caught THEN [by |-> "recorder", ok |-> FALSE] ELSE verdict
  BY DEF Answered
<1>2. script \in Recordings
  BY <1>1, RecordingNow DEF GoldenInv
<1>3. left \in SUBSET Nat /\ con \in BOOLEAN /\ tgt \in {"amend", "amended"}
  <2>1. left \subseteq script.todo
    BY DEF Remaining
  <2>2. script.todo \in SUBSET Nat /\ script.contract \in BOOLEAN /\ script.target \in {"amend", "amended"}
    BY <1>2 DEF Recordings
  <2>3. QED
    BY <2>1, <2>2 DEF CancelTarget
<1>4. TriedAgain(s, a) => s \in {"live_data_milestone", "combination"} /\ a \in {"refused", "lost"}
  BY DEF TriedAgain
<1>5. Died(a) => ~TriedAgain(s, a)
  BY DEF TriedAgain, Died
<1> HIDE DEF left, con, tgt, s
<1>6. CASE Died(a) /\ ~Caught
  BY <1>1, <1>6, <1>5
<1>7. CASE Died(a) /\ Caught
  <2>1. script' = [script EXCEPT !.todo = {}] /\ verdict' = verdict
    BY <1>1, <1>7, <1>5
  <2>2. GoesOn /\ script'.todo = {} /\ script'.target = script.target
    BY <1>2, <2>1 DEF Recordings, GoesOn
  <2>3. QED
    BY <1>7, <2>1, <2>2
<1>8. CASE ~Died(a) /\ TriedAgain(s, a)
  <2> DEFINE t == script.tries + 1
  <2>1. script' = [script EXCEPT !.tries = t] /\ verdict' = verdict
    BY <1>1, <1>8
  <2>2. t \in Nat
    BY <1>2 DEF Recordings
  <2> HIDE DEF t
  <2>3. script' \in Recordings
    BY <1>2, <2>1, <2>2 DEF Recordings
  <2>4. /\ script'.state = "recording" /\ script'.plan = script.plan /\ script'.cmd = script.cmd
        /\ script'.queue = script.queue /\ script'.todo = script.todo /\ script'.target = script.target
    BY <1>2, <2>1 DEF Recordings
  <2>5. QED
    BY <1>4, <1>8, <2>1, <2>3, <2>4 DEF s, GoesOn
<1>9. CASE ~Died(a) /\ ~TriedAgain(s, a)
  <2>1. /\ script' = [script EXCEPT !.todo = left, !.tries = 0, !.target = tgt, !.contract = con]
        /\ verdict' = verdict
    BY <1>1, <1>9
  <2>2. GoesOn /\ script'.todo = left /\ script'.target = tgt
    BY <1>2, <1>3, <2>1 DEF Recordings, GoesOn
  <2>3. QED
    BY <1>9, <2>1, <2>2 DEF s, left, tgt
<1>10. QED
  BY <1>6, <1>7, <1>8, <1>9

LEMMA RemainingFacts ==
    ASSUME NEW s, NEW a
    PROVE  /\ Remaining(s, a) \subseteq script.todo \ {NextIndex}
           /\ s # "lookup_history" =>
                 \A i \in script.todo \ {NextIndex} : i \in Remaining(s, a) <=> script.plan[i] \notin NotAfter(s, a)
           /\ s = "lookup_history" =>
                 \A i \in Remaining(s, a) : script.plan[i] # LookupFile =>
                     script.cmd.creates /\ script.plan[i] \notin NotAfter(s, a)
           /\ s = "lookup_history" =>
                 \A i, j \in script.todo \ {NextIndex} :
                     i \in Remaining(s, a) /\ script.plan[i] # LookupFile /\ script.plan[j] \notin NotAfter(s, a)
                     => j \in Remaining(s, a)
<1> DEFINE T == script.todo \ {NextIndex}
           creating == a # "full" /\ script.cmd.creates /\ script.contract
<1>1. Remaining(s, a) \subseteq T
  BY DEF Remaining
<1>2. CASE s # "lookup_history"
  BY <1>1, <1>2 DEF Remaining
<1>3. CASE s = "lookup_history"
  <2>1. ASSUME NEW i \in T
        PROVE  i \in Remaining(s, a) <=>
                   \/ a = "full" /\ script.plan[i] = LookupFile
                   \/ creating /\ script.plan[i] \notin NotAfter(s, a)
    BY <1>3, <2>1 DEF Remaining
  <2>2. creating => script.cmd.creates
    OBVIOUS
  <2> HIDE DEF creating
  <2>3. ASSUME NEW i \in Remaining(s, a), script.plan[i] # LookupFile
        PROVE  creating /\ script.plan[i] \notin NotAfter(s, a)
    BY <1>1, <2>1, <2>3
  <2>4. QED
    BY <1>1, <1>3, <2>1, <2>2, <2>3
<1>4. QED
  BY <1>2, <1>3

(* What is created stays about to be undone.                                *)
LEMMA UndoStays ==
    ASSUME GoldenInv, script.state = "recording", script.todo # {}, NEW a,
           NEW o \in Placeable, NEW i \in Remaining(NextStep, a), script.plan[i] = CreateOf(o)
    PROVE  \E u \in Remaining(NextStep, a) : script.plan[u] = UndoOf(o)
<1> DEFINE s == NextStep
           n == NextIndex
           p == script.plan
<1>1. n \in script.todo /\ n \in DOMAIN p /\ s = p[n] /\ \A j \in script.todo : j \in Nat /\ n <= j
  BY NextIsFirst
<1>2. i \in script.todo /\ i # n /\ i \in DOMAIN p
  BY PlanIsProper, RemainingFacts
<1>3. n < i
  BY <1>1, <1>2
<1>4. CreateOf(o) \in Marked /\ CreateOf(o) # LookupFile /\ UndoOf(o) \in Marked
  BY OnTheWay DEF Writes, LookupFile, CreateOf, Placeable
<1>5. s # CreateOf(o)
  BY <1>1, <1>2, <1>4, PlanIsProper
<1>6. PICK u \in script.todo : p[u] = UndoOf(o)
  BY <1>2, PlanIsProper DEF GoldenInv, TodoFits, ToDo
<1>7. PICK v \in DOMAIN p : i < v /\ p[v] = UndoOf(o)
  BY <1>2, PlanIsProper DEF InOrder, Undone
<1>8. u = v /\ u # n
  BY <1>1, <1>2, <1>3, <1>4, <1>6, <1>7, PlanIsProper
<1>9. p[i] \notin NotAfter(s, a)
  BY <1>2, <1>4, RemainingFacts
<1>10. p[u] \notin NotAfter(s, a)
  BY <1>5, <1>6, <1>9, DroppedTogether
<1>11. u \in Remaining(s, a)
  BY <1>2, <1>4, <1>6, <1>8, <1>10, RemainingFacts
<1>12. QED
  BY <1>6, <1>11

(* A market pair is created on request, or the history comes first.         *)
LEMMA HistoryStays ==
    ASSUME GoldenInv, script.state = "recording", script.todo # {}, NEW a,
           NEW j \in Remaining(NextStep, a), script.plan[j] = "combination", ~script.cmd.creates
    PROVE  \E k \in Remaining(NextStep, a) : k < j /\ script.plan[k] = "lookup_history"
<1>1. j \in script.todo \ {NextIndex} /\ "combination" # LookupFile
  BY RemainingFacts DEF LookupFile
<1>2. PICK k \in script.todo : k < j /\ script.plan[k] = "lookup_history"
  BY <1>1 DEF GoldenInv, TodoFits
<1>3. NextStep # "lookup_history"
  BY <1>1, RemainingFacts
<1>4. k # NextIndex
  BY <1>2, <1>3, NextIsFirst
<1>5. script.plan[j] \notin NotAfter(NextStep, a)
  BY <1>1, <1>3, RemainingFacts
<1>6. script.plan[k] \notin NotAfter(NextStep, a)
  BY <1>2, <1>5, HistoryDropped
<1>7. k \in Remaining(NextStep, a)
  BY <1>2, <1>3, <1>4, <1>6, RemainingFacts
<1>8. QED
  BY <1>2, <1>7

(* After a marked step, it is not to be done again, nor what it follows on. *)
LEMMA NotAgain ==
    ASSUME GoldenInv, script.state = "recording", script.todo # {}, NEW a,
           NEW i \in Remaining(NextStep, a)
    PROVE  /\ NextStep \in Marked => script.plan[i] # NextStep
           /\ NextStep = "amend_order" => script.plan[i] # "amend_create"
           /\ NextStep = LookupFile => script.plan[i] # "combination"
<1> DEFINE s == NextStep
           n == NextIndex
           p == script.plan
<1>1. n \in script.todo /\ n \in DOMAIN p /\ s = p[n] /\ n \in Nat /\ \A j \in script.todo : j \in Nat /\ n <= j
  BY NextIsFirst
<1>2. i \in script.todo /\ i # n /\ i \in DOMAIN p
  BY PlanIsProper, RemainingFacts
<1>3. n < i
  BY <1>1, <1>2
<1>4. s \in Marked => p[i] # s
  BY <1>1, <1>2, PlanIsProper
<1>5. ASSUME NEW first \in Marked, Preceded(p, first, s)
      PROVE  p[i] # first
  <2>1. PICK k \in DOMAIN p : k < n /\ p[k] = first
    BY <1>1, <1>5 DEF Preceded
  <2>2. p[i] = first => i = k
    BY <1>2, <1>5, <2>1, PlanIsProper
  <2>3. k \in Nat
    BY PlanIsProper DEF Recordings
  <2>4. QED
    BY <1>1, <1>2, <1>3, <2>1, <2>2, <2>3
<1>6. "amend_create" \in Marked /\ "combination" \in Marked
  BY DEF Marked, OrderCreates
<1>7. s = "amend_order" => p[i] # "amend_create"
  BY <1>5, <1>6, PlanIsProper DEF InOrder
<1>8. s = LookupFile => p[i] # "combination"
  BY <1>5, <1>6, PlanIsProper DEF InOrder
<1>9. QED
  BY <1>4, <1>7, <1>8

LEMMA AnswerDoes ==
    ASSUME NEW a, NEW renamed \in BOOLEAN, Answered(a, renamed)
    PROVE  /\ script.state = "recording" /\ script.todo # {} /\ a \in MayAnswer(NextStep)
           /\ renamed => NextStep = "amend_order"
           /\ Applied(a) => Happens(NextStep, renamed)
           /\ ~Applied(a) => UNCHANGED <<resting, combinations>>
           /\ Saved(NextStep, a)
           /\ faults \subseteq faults'
           /\ /\ NextStep \in Followed /\ a \notin {"full", "missing"} /\ RemovedBy(NextStep) \subseteq resting
              => NextStep \in faults'
           /\ UNCHANGED <<world, scripts>>
  BY DEF Answered

(* What is left to do after an answer still fits.                           *)
LEMMA AnswerTodo ==
    ASSUME GoldenInv, NEW a, NEW renamed \in BOOLEAN, Answered(a, renamed)
    PROVE  TodoFits'
<1> DEFINE s == NextStep
           p == script.plan
<1>1. /\ script.state = "recording" /\ script.todo # {} /\ a \in MayAnswer(s)
      /\ Applied(a) => Happens(s, renamed)
      /\ ~Applied(a) => UNCHANGED <<resting, combinations>>
      /\ Saved(s, a)
      /\ faults \subseteq faults'
  BY AnswerDoes
<1>2. SUFFICES ASSUME GoesOn PROVE TodoFits'
  BY AnswerShape, StateOf DEF TodoFits
<1>3. /\ \/ script'.todo = {}
         \/ script'.todo = script.todo
         \/ script'.todo = Remaining(s, a)
      /\ script'.todo = script.todo => s \in {"live_data_milestone", "combination"}
      /\ script'.target = script.target \/ (script'.todo = Remaining(s, a) /\ s = "amend_order")
  <2>1. script'.todo = script.todo => script'.todo # {} /\ script'.todo # Remaining(s, a)
    BY <1>1, NextIsFirst, RemainingFacts
  <2>2. script' # NoScript
    BY <1>2, StateOf DEF GoesOn
  <2>3. CancelTarget(s, a, renamed) = script.target \/ s = "amend_order"
    BY DEF CancelTarget
  <2>4. QED
    BY <2>1, <2>2, <2>3, AnswerShape
<1>4. /\ script'.state = "recording" /\ script'.plan = p
      /\ script'.cmd = script.cmd /\ script'.queue = script.queue
  BY <1>2 DEF GoesOn
<1>5. script'.todo \subseteq script.todo
  BY <1>3, RemainingFacts
<1>6. \A x : ToDo(x) <=> \E i \in script.todo : p[i] = x
  BY DEF ToDo
<1>7. \A x : ToDo(x)' <=> \E i \in script'.todo : p[i] = x
  BY <1>4 DEF ToDo
<1>8. \A x : ToDo(x)' => ToDo(x)
  BY <1>5, <1>6, <1>7
<1>9. s = p[NextIndex] /\ NextIndex \in DOMAIN p /\ (s \in Marked => s \in Marks(p))
  BY <1>1, NextIsFirst, PlanIsProper
<1>10. script'.todo \subseteq DOMAIN script'.plan /\ PlanFits(Head(script'.queue), script'.cmd, script'.plan)
  BY <1>1, <1>4, <1>5 DEF GoldenInv, TodoFits
<1>11. ASSUME NEW o \in Placeable, ToDo(CreateOf(o))'
       PROVE  ToDo(UndoOf(o))'
  <2>1. CASE script'.todo = script.todo
    BY <1>1, <1>6, <1>7, <1>11, <2>1 DEF GoldenInv, TodoFits
  <2>2. CASE script'.todo = Remaining(s, a)
    BY <1>1, <1>7, <1>11, <2>2, UndoStays
  <2>3. QED
    BY <1>3, <1>7, <1>11, <2>1, <2>2
<1>12. ToDo("combination")' => fixtures'[LookupFile] = fixtures[LookupFile]
  <2>1. CASE s # LookupFile
    BY <1>1, <2>1, SavedFits, LookupIsSaved
  <2>2. CASE s = LookupFile
    <3>1. s \notin {"live_data_milestone", "combination"}
      BY <2>2 DEF LookupFile
    <3>2. QED
      BY <1>1, <1>3, <1>7, <2>2, <3>1, NotAgain
  <2>3. QED
    BY <2>1, <2>2
<1>13. ToDo("combination")' => fixtures'[LookupFile] = NoFile
  BY <1>1, <1>8, <1>12 DEF GoldenInv, TodoFits
<1>14. ASSUME NEW j \in script'.todo, p[j] = "combination", ~script.cmd.creates
       PROVE  \E k \in script'.todo : k < j /\ p[k] = "lookup_history"
  <2>1. CASE script'.todo = script.todo
    BY <1>1, <1>14, <2>1 DEF GoldenInv, TodoFits
  <2>2. CASE script'.todo = Remaining(s, a)
    BY <1>1, <1>14, <2>2, HistoryStays
  <2>3. QED
    BY <1>3, <1>14, <2>1, <2>2
<1>15. ASSUME ToDo("amend_create")' \/ ToDo("amend_order")' \/ Len(script.queue) > 1
       PROVE  script'.target = "amend"
  <2>1. script.target = "amend"
    BY <1>1, <1>8, <1>15 DEF GoldenInv, TodoFits
  <2>2. ASSUME script'.todo = Remaining(s, a), s = "amend_order"
        PROVE  FALSE
    <3>1. s \in Marked /\ s \in Marks(p)
      BY <1>9, <2>2 DEF Marked
    <3>2. \A i \in Remaining(s, a) : p[i] # "amend_order" /\ p[i] # "amend_create"
      BY <1>1, <2>2, <3>1, NotAgain
    <3>3. Len(script.queue) > 1
      BY <1>7, <1>15, <2>2, <3>2
    <3>4. Head(script.queue) \notin {"public", "phase3", "phase4", "phase5"} /\ script.queue \in Queues
      BY <1>1, <2>2, <3>1, PlanIsProper DEF GoldenInv, TodoFits, PlanFits, Recordings
    <3>5. QED
      BY <3>3, <3>4, QueueFacts
  <2>3. QED
    BY <1>3, <2>1, <2>2
<1>16. combinations' > 0 => "combination" \in faults' \/ (~ToDo("combination")' /\ ~LookupLater(script.queue))
  <2>1. SUFFICES ASSUME combinations' > 0, "combination" \notin faults'
                 PROVE  ~ToDo("combination")' /\ ~LookupLater(script.queue)
    OBVIOUS
  <2>2. CASE combinations' = combinations
    BY <1>1, <1>8, <2>1, <2>2 DEF GoldenInv, TodoFits
  <2>3. CASE combinations' # combinations
    <3>1. Applied(a) /\ Happens(s, renamed) /\ s = "combination"
      BY <1>1, <2>3 DEF Happens
    <3>2. RemovedBy(s) \subseteq resting /\ s \in Followed
      BY <3>1, PlacesAndRemoves DEF Followed
    <3>3. a \in {"full", "missing"}
      BY <2>1, <3>1, <3>2, AnswerDoes
    <3>4. a = "full"
      BY <1>1, <3>1, <3>3, AnswerFacts
    <3>5. s \in Marked /\ s \in Marks(p)
      BY <1>9, <3>1 DEF Marked
    <3>6. Head(script.queue) = "phase5" /\ script.queue \in Queues
      BY <1>1, <3>1, <3>5, PlanIsProper DEF GoldenInv, TodoFits, PlanFits, Recordings
    <3>7. ~LookupLater(script.queue)
      BY <3>6, QueueFacts
    <3>8. script'.todo # script.todo
      <4>1. ~Died(a) /\ a \notin {"refused", "lost"}
        BY <3>4 DEF Died
      <4>2. script'.todo = Remaining(s, a)
        BY <4>1, AnswerShape
      <4>3. QED
        BY <1>1, <4>2, NextIsFirst, RemainingFacts
    <3>9. ~ToDo("combination")'
      BY <1>1, <1>3, <1>7, <3>1, <3>5, <3>8, NotAgain
    <3>10. QED
      BY <3>7, <3>9
  <2>4. QED
    BY <2>2, <2>3
<1>17. QED
  BY <1>4, <1>10, <1>11, <1>13, <1>14, <1>15, <1>16 DEF TodoFits

(* What is about to be undone, the next step undoes or leaves alone.        *)
LEMMA NextOfClosing ==
    ASSUME GoldenInv, script.state = "recording", script.todo # {}, NEW o \in resting, Closing(o)
    PROVE  /\ o \in Placeable
           /\ \/ NextStep = UndoOf(o) /\ o \in RemovedBy(NextStep) /\ RemovedBy(NextStep) \subseteq resting
              \/ /\ NextStep \in Between(o)
                 /\ \E u \in script.todo : /\ NextIndex < u /\ script.plan[u] = UndoOf(o)
                                           /\ \A j \in script.todo : j < u => script.plan[j] \in Between(o)
<1>1. o \in Placeable
  BY DEF GoldenInv, GoldenTyped
<1>2. PICK u \in script.todo : /\ script.plan[u] = UndoOf(o)
                               /\ \A j \in script.todo : j < u => script.plan[j] \in Between(o)
  BY DEF Closing
<1>3. NextIndex \in script.todo /\ NextIndex \in Nat /\ NextIndex <= u /\ u \in Nat /\ NextStep = script.plan[NextIndex]
  BY NextIsFirst
<1>4. CASE NextIndex < u
  BY <1>1, <1>2, <1>3, <1>4
<1>5. CASE NextIndex = u
  <2>1. NextStep = UndoOf(o)
    BY <1>2, <1>3, <1>5
  <2>2. o \in {"amend", "amended"} => script.target = o
    BY DEF Closing
  <2>3. "batch1" \in resting <=> "batch2" \in resting
    BY DEF GoldenInv, RestFits
  <2>4. o \in RemovedBy(UndoOf(o)) /\ RemovedBy(UndoOf(o)) \subseteq resting
    BY <1>1, <2>2, <2>3 DEF RemovedBy, UndoOf, Placeable
  <2>5. QED
    BY <1>1, <2>1, <2>4
<1>6. QED
  BY <1>3, <1>4, <1>5

(* When a request ends the recorder, everything left has its explanation.   *)
LEMMA EndExplained ==
    ASSUME GoldenInv, NEW a, NEW renamed \in BOOLEAN, Answered(a, renamed), Died(a), NEW o \in resting'
    PROVE  Explained(o)'
<1> DEFINE s == NextStep
<1>1. /\ script.state = "recording" /\ script.todo # {} /\ a \in MayAnswer(s)
      /\ Applied(a) => Happens(s, renamed)
      /\ ~Applied(a) => UNCHANGED <<resting, combinations>>
      /\ faults \subseteq faults'
  BY AnswerDoes
<1>2. s \in Raising \cup {"combination"} /\ a \notin {"full", "missing"}
  BY <1>1, AnswerFacts DEF Died
<1>3. PlacedBy(s) = {} /\ RemovedBy(s) = {} /\ s # "amend_order"
  BY <1>2, PlacesAndRemoves
<1>4. resting' = resting
  BY <1>1, <1>3 DEF Happens
<1>5. Explained(o) => Explained(o)'
  BY <1>1 DEF Explained
<1>6. CASE Closing(o)
  <2>1. o \in Placeable
    BY <1>1, <1>4, <1>6, NextOfClosing
  <2>2. s \in Between(o)
    <3>1. s # UndoOf(o)
      BY <1>2, <2>1, OnTheWay DEF Undoing, Raising
    <3>2. QED
      BY <1>1, <1>4, <1>6, <3>1, NextOfClosing
  <2>3. s \in Raising /\ s \in WayOf(o) \cap Followed
    BY <1>2, <2>1, <2>2, OnTheWay
  <2>4. s \in faults'
    BY <1>2, <1>3, <2>3, AnswerDoes
  <2>5. QED
    BY <2>3, <2>4 DEF Explained
<1>7. Explained(o) \/ Closing(o)
  BY <1>1, <1>4 DEF GoldenInv, RestFits
<1>8. QED
  BY <1>5, <1>6, <1>7

LEMMA AnswerRest ==
    ASSUME GoldenInv, NEW a, NEW renamed \in BOOLEAN, Answered(a, renamed)
    PROVE  RestFits'
<1> DEFINE s == NextStep
           p == script.plan
<1>1. /\ script.state = "recording" /\ script.todo # {} /\ a \in MayAnswer(s)
      /\ renamed => s = "amend_order"
      /\ Applied(a) => Happens(s, renamed)
      /\ ~Applied(a) => UNCHANGED <<resting, combinations>>
      /\ faults \subseteq faults'
      /\ s \in Followed /\ a \notin {"full", "missing"} /\ RemovedBy(s) \subseteq resting => s \in faults'
  BY AnswerDoes
<1>2. "batch1" \in resting' <=> "batch2" \in resting'
  BY <1>1, RestTyped
<1>3. CASE Died(a)
  <2>1. \A o \in resting' : Explained(o)'
    BY <1>3, EndExplained
  <2>2. QED
    BY <1>2, <2>1 DEF RestFits, LeftoversExplained, Explained
<1>4. CASE ~Died(a)
  <2>1. GoesOn
    BY <1>4, AnswerShape
  <2>2. script'.state = "recording" /\ script'.plan = p
    BY <2>1 DEF GoesOn
  <2>3. SUFFICES ASSUME NEW o \in resting', ~Explained(o)'
                 PROVE  Closing(o)'
    BY <1>2, <2>2 DEF RestFits, LeftoversExplained
  <2>4. o \in Placeable
    BY <1>1, RestTyped
  <2>5. ~Explained(o)
    BY <1>1, <2>3 DEF Explained
  <2>6. Closing(o)' <=> /\ \E u \in script'.todo : /\ p[u] = UndoOf(o)
                                                   /\ \A j \in script'.todo : j < u => p[j] \in Between(o)
                        /\ o \in {"amend", "amended"} => script'.target = o
    BY <2>2 DEF Closing
  <2>7. NextIndex \in script.todo /\ NextIndex \in Nat /\ \A i \in script.todo : i \in Nat /\ NextIndex <= i
    BY <1>1, NextIsFirst
  <2>8. CASE s \in {"live_data_milestone", "combination"} /\ script'.todo = script.todo
             /\ script'.target = script.target
    <3>1. resting' = resting
      <4>1. PlacedBy(s) = {} /\ RemovedBy(s) = {} /\ s # "amend_order"
        BY <2>8 DEF PlacedBy, RemovedBy
      <4>2. QED
        BY <1>1, <4>1 DEF Happens
    <3>2. Closing(o)
      BY <1>1, <2>3, <2>5, <3>1 DEF GoldenInv, RestFits
    <3>3. QED
      BY <2>6, <2>8, <3>2 DEF Closing
  <2>9. CASE script'.todo = Remaining(s, a) /\ script'.target = CancelTarget(s, a, renamed)
    <3>1. CASE o \in resting
      <4>1. Closing(o)
        BY <1>1, <2>5, <3>1 DEF GoldenInv, RestFits
      <4>2. CASE s = UndoOf(o) /\ o \in RemovedBy(s) /\ RemovedBy(s) \subseteq resting
        <5>1. s \in WayOf(o) \cap Followed \cap Undoing
          BY <2>4, <4>2, OnTheWay
        <5>2. a \in {"full", "bare", "refused", "lost"}
          BY <1>1, <5>1, AnswerFacts DEF Writes, Undoing
        <5>3. ~Applied(a)
          <6>1. SUFFICES ASSUME Applied(a) PROVE FALSE
            OBVIOUS
          <6>2. s # "amend_order" /\ s \notin OrderCreates
            BY <5>1 DEF Undoing, OrderCreates
          <6>3. resting' = (resting \union PlacedBy(s)) \ RemovedBy(s)
            BY <1>1, <6>1, <6>2 DEF Happens
          <6>4. QED
            BY <2>3, <4>2, <6>3
        <5>4. a = "refused"
          BY <5>2, <5>3 DEF Applied, Understood
        <5>5. s \in faults'
          BY <1>1, <4>2, <5>1, <5>4
        <5>6. QED
          BY <2>3, <5>1, <5>5 DEF Explained
      <4>3. CASE s \in Between(o)
        <5>1. PICK u \in script.todo : /\ NextIndex < u /\ p[u] = UndoOf(o)
                                       /\ \A j \in script.todo : j < u => p[j] \in Between(o)
          <6>1. s # UndoOf(o)
            BY <2>4, <4>3, OnTheWay DEF Undoing, Between
          <6>2. QED
            BY <1>1, <3>1, <4>1, <6>1, NextOfClosing
        <5>2. NotAfter(s, a) = {} /\ s # "lookup_history"
          BY <2>4, <4>3, OnTheWay, NothingDropped
        <5>3. script'.todo = script.todo \ {NextIndex}
          BY <2>9, <5>2, RemainingFacts
        <5>4. o \in {"amend", "amended"} => script'.target = o
          <6>1. SUFFICES ASSUME o \in {"amend", "amended"} PROVE script'.target = o
            OBVIOUS
          <6>2. o = "amend" /\ s = "amend_order"
            BY <4>3, <6>1 DEF Between
          <6>3. script.target = "amend"
            BY <4>1, <6>2 DEF Closing
          <6>4. ~(a = "full" /\ renamed)
            <7>1. a = "full" /\ renamed => resting' = (resting \ {"amend"}) \union {"amended"}
              BY <1>1, <6>2 DEF Happens, Applied, Understood
            <7>2. QED
              BY <2>3, <6>2, <7>1
          <6>5. QED
            BY <2>9, <6>2, <6>3, <6>4 DEF CancelTarget
        <5>5. u \in script'.todo
          BY <2>7, <5>1, <5>3
        <5>6. QED
          BY <2>6, <5>1, <5>3, <5>4, <5>5
      <4>4. QED
        BY <1>1, <3>1, <4>1, <4>2, <4>3, NextOfClosing
    <3>2. CASE o \notin resting
      <4>1. Applied(a) /\ Happens(s, renamed)
        BY <1>1, <2>3, <3>2
      <4>2. s = CreateOf(o) /\ (o = "amended" => renamed) /\ (o # "amended" => o \in PlacedBy(s))
        <5>1. CASE s = "amend_order" /\ renamed
          <6>1. o = "amended"
            BY <2>3, <3>2, <4>1, <5>1 DEF Happens
          <6>2. QED
            BY <5>1, <6>1 DEF CreateOf
        <5>2. CASE ~(s = "amend_order" /\ renamed)
          <6>1. o \in PlacedBy(s)
            BY <2>3, <3>2, <4>1, <5>2 DEF Happens
          <6>2. QED
            BY <6>1, PlacesAndRemoves
        <5>3. QED
          BY <5>1, <5>2
      <4>3. /\ s \in WayOf(o) \cap Followed \cap Marked \cap (Writes \ {"combination"})
            /\ s \in OrderCreates \cup {"amend_order"} /\ s \notin Undoing
        BY <2>4, <4>2, OnTheWay
      <4>4. RemovedBy(s) = {}
        BY <4>3, PlacesAndRemoves
      <4>5. a \in {"full", "bare", "refused", "lost"}
        BY <1>1, <4>3, AnswerFacts
      <4>6. s \notin faults'
        BY <2>3, <4>3 DEF Explained
      <4>7. a = "full"
        BY <1>1, <4>3, <4>4, <4>5, <4>6
      <4>8. NotAfter(s, a) = {} /\ s # "lookup_history"
        BY <4>3, <4>7, NothingDropped DEF OrderCreates
      <4>9. script'.todo = script.todo \ {NextIndex}
        BY <2>9, <4>8, RemainingFacts
      <4>10. NextIndex \in DOMAIN p /\ p[NextIndex] = CreateOf(o)
        BY <1>1, <4>2, NextIsFirst
      <4>11. PICK u \in script.todo : p[u] = UndoOf(o)
        BY <1>1, <2>4, <2>7, <4>10 DEF GoldenInv, TodoFits, ToDo
      <4>12. PICK v \in DOMAIN p : /\ NextIndex < v /\ p[v] = UndoOf(o)
                                   /\ \A j \in DOMAIN p : NextIndex < j /\ j < v => p[j] \in Between(o)
        BY <1>1, <2>4, <4>10, PlanIsProper DEF InOrder, Undone
      <4>13. u = v
        <5>1. UndoOf(o) \in Marked
          BY <2>4, OnTheWay
        <5>2. QED
          BY <1>1, <4>11, <4>12, <5>1, PlanIsProper
      <4>14. u \in script'.todo
        BY <2>7, <4>9, <4>11, <4>12, <4>13
      <4>15. \A j \in script'.todo : j < u => p[j] \in Between(o)
        <5>1. ASSUME NEW j \in script'.todo, j < u
              PROVE  p[j] \in Between(o)
          <6>1. j \in script.todo /\ j # NextIndex /\ j \in DOMAIN p
            BY <1>1, <4>9, PlanIsProper
          <6>2. NextIndex < j
            BY <2>7, <6>1
          <6>3. QED
            BY <4>12, <4>13, <5>1, <6>1, <6>2
        <5>2. QED
          BY <5>1
      <4>16. o \in {"amend", "amended"} => script'.target = o
        <5>1. CASE o = "amended"
          <6>1. s = "amend_order" /\ renamed
            BY <4>2, <5>1 DEF CreateOf
          <6>2. QED
            BY <2>9, <4>7, <5>1, <6>1 DEF CancelTarget
        <5>2. CASE o = "amend"
          <6>1. s = "amend_create"
            BY <4>2, <5>2 DEF CreateOf
          <6>2. ToDo("amend_create")
            BY <2>7, <4>2, <4>10, <6>1 DEF ToDo
          <6>3. script.target = "amend"
            BY <1>1, <6>2 DEF GoldenInv, TodoFits
          <6>4. QED
            BY <2>9, <5>2, <6>1, <6>3 DEF CancelTarget
        <5>3. QED
          BY <5>1, <5>2
      <4>17. QED
        BY <2>6, <4>11, <4>14, <4>15, <4>16
    <3>3. QED
      BY <3>1, <3>2
  <2>10. QED
    BY <1>4, <2>2, <2>8, <2>9, AnswerShape, StateOf
<1>5. QED
  BY <1>3, <1>4

LEMMA AnswerStep ==
    ASSUME GoldenInv, NEW a, NEW renamed \in BOOLEAN, Answered(a, renamed)
    PROVE  GoldenInv'
<1>1. /\ script.state = "recording"
      /\ Happens(NextStep, renamed) \/ UNCHANGED <<resting, combinations>>
      /\ Saved(NextStep, a) /\ world' = world
  BY AnswerDoes
<1>2. TodoFits' /\ RestFits'
  BY AnswerTodo, AnswerRest
<1>3. /\ fixtures' \in [Tracked -> Fixtures \cup {NoFile}]
      /\ answers' \in [Tracked -> Fixtures \cup {NoFile}]
      /\ FilesFit'
  BY <1>1, SavedFits
<1>4. resting' \in SUBSET Placeable /\ combinations' \in Nat
  BY <1>1, RestTyped
<1>5. \/ script' = NoScript /\ verdict' = [by |-> "recorder", ok |-> FALSE]
      \/ GoesOn /\ verdict' = verdict
  BY AnswerShape
<1>6. GoldenTyped'
  <2>1. script' \in {NoScript} \cup Recordings
    BY <1>5 DEF GoesOn
  <2> DEFINE Verdicts == [by : {"none", "refused", "recorder", "sanitizer", "validator", "freshness"}, ok : BOOLEAN]
  <2>2. verdict' \in Verdicts
    <3>1. verdict \in Verdicts /\ [by |-> "recorder", ok |-> FALSE] \in Verdicts
      BY DEF GoldenInv, GoldenTyped
    <3> HIDE DEF Verdicts
    <3>2. QED
      BY <1>5, <3>1
  <2>3. world' \in [day : 0..MaxDay, changed : BOOLEAN]
    BY <1>1 DEF GoldenInv, GoldenTyped
  <2>4. QED
    BY <1>3, <1>4, <2>1, <2>2, <2>3 DEF GoldenTyped
<1>7. script'.state # "sanitizing"
  BY <1>5, StateOf DEF GoesOn
<1>8. ~verdict.ok
  BY <1>1 DEF GoldenInv, VerdictFits
<1>9. SanitizedSoFar' /\ VerdictFits'
  BY <1>5, <1>7, <1>8 DEF SanitizedSoFar, VerdictFits, VerdictsRight
<1>10. QED
  BY <1>2, <1>3, <1>6, <1>9 DEF GoldenInv

-----------------------------------------------------------------------------
LEMMA GoldenStep == GoldenInv /\ [GoldenNext]_golden => GoldenInv'
<1> SUFFICES ASSUME GoldenInv, [GoldenNext]_golden PROVE GoldenInv'
  OBVIOUS
<1>1. CASE UNCHANGED golden
  <2>1. UNCHANGED <<fixtures, answers, script, resting, combinations, faults, world, verdict>>
    BY <1>1 DEF golden
  <2>2. GoldenTyped' /\ FilesFit' /\ SanitizedSoFar' /\ VerdictFits'
    BY <2>1 DEF GoldenInv, GoldenTyped, FilesFit, SanitizedSoFar, VerdictFits, VerdictsRight, ReliedOn
  <2>3. (\A s : ToDo(s)' <=> ToDo(s)) /\ (\A o : (Explained(o)' <=> Explained(o)) /\ (Closing(o)' <=> Closing(o)))
    BY <2>1 DEF ToDo, Explained, Closing
  <2>4. TodoFits' /\ RestFits'
    BY <2>1, <2>3 DEF GoldenInv, TodoFits, RestFits, LeftoversExplained
  <2>5. QED
    BY <2>2, <2>4 DEF GoldenInv
<1>2. CASE GoldenNext
  <2>1. CASE DayPasses
    BY <2>1, DayStep
  <2>2. ASSUME NEW c \in CommandLines, Record(c) PROVE GoldenInv'
    BY <2>2, RecordStep
  <2>3. ASSUME NEW a, NEW b \in BOOLEAN, Answered(a, b) PROVE GoldenInv'
    BY <2>3, AnswerStep
  <2>4. CASE NextRecorder
    BY <2>4, NextRecorderStep
  <2>5. ASSUME NEW taken \in BOOLEAN, NEW torn \in BOOLEAN, Interrupt(taken, torn) PROVE GoldenInv'
    BY <2>5, InterruptStep
  <2>6. ASSUME NEW force \in BOOLEAN, BeginSanitize(force) PROVE GoldenInv'
    BY <2>6, BeginStep
  <2>7. ASSUME NEW f \in Tracked, SanitizeFile(f) PROVE GoldenInv'
    BY <2>7, SanitizeStep
  <2>8. ASSUME NEW f \in Tracked, NEW torn \in BOOLEAN, InterruptSanitize(f, torn) PROVE GoldenInv'
    BY <2>8, CutSanitizeStep
  <2>9. CASE EndSanitize
    BY <2>9, EndSanitizeStep
  <2>10. CASE Check
    BY <2>10, CheckStep
  <2>11. QED
    BY <1>2, <2>1, <2>2, <2>3, <2>4, <2>5, <2>6, <2>7, <2>8, <2>9, <2>10 DEF GoldenNext
<1>3. QED
  BY <1>1, <1>2

LEMMA GoldenAlways == GoldenSpec => []GoldenInv
  BY GoldenInitial, GoldenStep, PTL DEF GoldenSpec

(* Whatever a recording left at the exchange, a failure on its own way or   *)
(* an interrupt explains: the requests of record_order_ops and of the order *)
(* groups, whatever they are answered, otherwise undo what they created.    *)
THEOREM LeftoversHaveReasons == GoldenSpec => []LeftoversExplained
<1>1. GoldenInv => LeftoversExplained
  BY DEF GoldenInv, RestFits
<1>2. QED
  BY <1>1, GoldenAlways, PTL

(* A green sanitizer, validator or freshness check tells the truth of every *)
(* file the disk holds whole.                                               *)
THEOREM VerdictsAreRight == GoldenSpec => []VerdictsRight
<1>1. GoldenInv => VerdictsRight
  BY DEF GoldenInv, VerdictFits
<1>2. QED
  BY <1>1, GoldenAlways, PTL

(* Orders and groups come to rest only on the demo exchange, by a run that  *)
(* asked for writes.                                                        *)
LEMMA PlacesAsked ==
    ASSUME GoldenInv, script.state = "recording", script.todo # {}, NEW renamed \in BOOLEAN,
           renamed => NextStep = "amend_order",
           Happens(NextStep, renamed) \/ UNCHANGED <<resting, combinations>>
    PROVE  /\ resting' \ resting # {} => script.cmd.env = "demo" /\ WantsWrites(script.cmd)
           /\ combinations' > combinations => /\ script.cmd.creates /\ fixtures[LookupFile] = NoFile
                                              /\ combinations > 0 => "combination" \in faults
<1> DEFINE s == NextStep
           p == script.plan
<1>1. NextIndex \in script.todo /\ s = p[NextIndex] /\ (s \in Marked => s \in Marks(p))
      /\ \A i \in script.todo : i \in Nat /\ NextIndex <= i
  BY NextIsFirst, PlanIsProper
<1>2. ASSUME resting' \ resting # {}
      PROVE  script.cmd.env = "demo" /\ WantsWrites(script.cmd)
  <2>1. s \in OrderCreates \cup {"amend_order"}
    BY <1>2, PlacesAndRemoves DEF Happens
  <2>2. s \in Marks(p)
    BY <1>1, <2>1 DEF Marked
  <2>3. QED
    BY <2>1, <2>2 DEF GoldenInv, TodoFits, PlanFits
<1>3. ASSUME combinations' > combinations
      PROVE  /\ script.cmd.creates /\ fixtures[LookupFile] = NoFile
             /\ combinations > 0 => "combination" \in faults
  <2>1. s = "combination"
    BY <1>3, RestTyped
  <2>2. ToDo("combination")
    BY <1>1, <2>1 DEF ToDo
  <2>3. ~\E k \in script.todo : k < NextIndex
    BY <1>1
  <2>4. script.cmd.creates
    BY <1>1, <2>1, <2>3 DEF GoldenInv, TodoFits
  <2>5. QED
    BY <2>2, <2>4 DEF GoldenInv, TodoFits
<1>4. QED
  BY <1>2, <1>3

(* Orders are placed on the demo exchange only, on request; a market is     *)
(* created on request, once unless the answer was lost, and never when the  *)
(* lookup it serves was recorded.                                           *)
THEOREM WritesAreAsked == GoldenSpec => WritesAsked
<1> DEFINE Asked == /\ resting' \ resting # {} => script.cmd.env = "demo" /\ WantsWrites(script.cmd)
                    /\ combinations' > combinations => /\ script.cmd.creates /\ fixtures[LookupFile] = NoFile
                                                       /\ combinations > 0 => "combination" \in faults
<1>1. ASSUME GoldenInv, GoldenNext
      PROVE  Asked
  <2>1. combinations \in Nat
    BY <1>1 DEF GoldenInv, GoldenTyped
  <2>2. ASSUME resting' \subseteq resting, combinations' = 0 \/ combinations' = combinations
        PROVE  Asked
    BY <2>1, <2>2
  <2> HIDE DEF Asked
  <2>3. CASE DayPasses \/ NextRecorder \/ EndSanitize \/ Check
    BY <2>2, <2>3 DEF DayPasses, NextRecorder, EndSanitize, Check, StartScript
  <2>4. ASSUME NEW c \in CommandLines, Record(c) PROVE Asked
    BY <2>2, <2>4 DEF Record, StartScript
  <2>5. ASSUME NEW force \in BOOLEAN, BeginSanitize(force) PROVE Asked
    BY <2>2, <2>5 DEF BeginSanitize, StartScript
  <2>6. ASSUME NEW f \in Tracked, SanitizeFile(f) \/ \E torn \in BOOLEAN : InterruptSanitize(f, torn) PROVE Asked
    BY <2>2, <2>6 DEF SanitizeFile, InterruptSanitize
  <2>7. ASSUME NEW a, NEW b \in BOOLEAN, Answered(a, b) PROVE Asked
    <3>1. /\ script.state = "recording" /\ script.todo # {} /\ (b => NextStep = "amend_order")
          /\ Happens(NextStep, b) \/ UNCHANGED <<resting, combinations>>
      BY <2>7, AnswerDoes
    <3>2. QED
      BY <1>1, <3>1, PlacesAsked DEF Asked
  <2>8. ASSUME NEW taken \in BOOLEAN, NEW torn \in BOOLEAN, Interrupt(taken, torn) PROVE Asked
    <3>1. /\ script.state = "recording" /\ script.todo # {}
          /\ Happens(NextStep, FALSE) \/ UNCHANGED <<resting, combinations>>
      BY <2>8 DEF Interrupt
    <3>2. QED
      BY <1>1, <3>1, PlacesAsked DEF Asked
  <2>9. QED
    BY <1>1, <2>3, <2>4, <2>5, <2>6, <2>7, <2>8 DEF GoldenNext
<1>2. GoldenInv /\ [GoldenNext]_golden => [Asked]_golden
  BY <1>1
<1>3. QED
  BY <1>2, GoldenAlways, PTL DEF GoldenSpec, WritesAsked
====
