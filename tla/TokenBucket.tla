----------------------------- MODULE TokenBucket -----------------------------
(***************************************************************************)
(* The token bucket behind every request of the Kalshi client              *)
(* (api/rate_limiter.py, class TokenBucket).                               *)
(*                                                                         *)
(* Unit of time: the time in which the bucket earns one unit of tokens, so *)
(* that elapsed * self._rate is just the elapsed time.  Unit of tokens:    *)
(* the smallest cost a caller pays (0.2 transactions for the write bucket, *)
(* see RateLimiter), so that every cost is a natural number.               *)
(***************************************************************************)
EXTENDS Integers, Sequences, SequencesExt

CONSTANTS
    Callers,        \* coroutines that call acquire()
    NoOne,          \* value of "holder" when the asyncio.Lock is free
    MaxTokens,      \* self._max_tokens, in token units
    Costs,          \* the token costs callers ask for
    MaxTime         \* bound: no new request, and no idle time, from here on

ASSUME BucketAssumption ==
    /\ MaxTokens \in Nat \ {0}
    /\ Costs \subseteq Nat \ {0}
    /\ MaxTime \in Nat
    /\ NoOne \notin Callers

VARIABLES
    now,            \* time.monotonic()
    tokens,         \* self._tokens
    lastUpdate,     \* self._last_update
    holder,         \* the caller inside "async with self._lock"
    queue,          \* callers waiting for the lock, first come first served
    cost,           \* cost[c]: the tokens argument of c's pending acquire, 0 if none
    wakeAt,         \* when the holder's asyncio.sleep(wait_time) may end, 0 if nobody sleeps
    granted,        \* history: tokens handed out since the bucket was built
    slept           \* history: time callers were told to sleep, all together

bucket == <<now, tokens, lastUpdate, holder, queue, cost, wakeAt, granted, slept>>

BucketInit ==
    /\ now = 0
    /\ tokens = MaxTokens
    /\ lastUpdate = 0
    /\ holder = NoOne
    /\ queue = <<>>
    /\ cost = [c \in Callers |-> 0]
    /\ wakeAt = 0
    /\ granted = 0
    /\ slept = 0

-----------------------------------------------------------------------------
(* A caller reaches "async with self._lock".                               *)
Request(c, n) ==
    /\ cost[c] = 0
    /\ now < MaxTime
    /\ cost' = [cost EXCEPT ![c] = n]
    /\ queue' = Append(queue, c)
    /\ UNCHANGED <<now, tokens, lastUpdate, holder, wakeAt, granted, slept>>

(* What the bucket holds once the time since the last update is credited.  *)
Refilled ==
    LET credited == tokens + (now - lastUpdate)
    IN  IF credited < MaxTokens THEN credited ELSE MaxTokens

(* Mutant: the refill does not move the time of the last update.           *)
TakeLockKeepingUpdate(c) ==
    /\ holder = NoOne
    /\ queue # <<>>
    /\ c = Head(queue)
    /\ queue' = Tail(queue)
    /\ UNCHANGED <<now, lastUpdate>>

(* The first waiter owns the lock; the refill is written back either way.  *)
TakeLock(c) ==
    /\ holder = NoOne
    /\ queue # <<>>
    /\ c = Head(queue)
    /\ queue' = Tail(queue)
    /\ lastUpdate' = now
    /\ UNCHANGED now

(* Enough tokens: they are deducted and the lock is released at once.      *)
AcquireNow(c) ==
    /\ TakeLock(c)
    /\ Refilled >= cost[c]
    /\ tokens' = Refilled - cost[c]
    /\ granted' = granted + cost[c]
    /\ cost' = [cost EXCEPT ![c] = 0]
    /\ UNCHANGED <<holder, wakeAt, slept>>

(* Too few tokens: the caller sleeps for the deficit, holding the lock.    *)
StartSleep(c) ==
    /\ TakeLock(c)
    /\ Refilled < cost[c]
    /\ tokens' = Refilled
    /\ wakeAt' = now + (cost[c] - Refilled)
    /\ holder' = c
    /\ UNCHANGED <<cost, granted, slept>>

(* Mutant: the sleeper forgets to deduct.                                  *)
WakeWithoutDeduction(c) ==
    /\ holder = c
    /\ now >= wakeAt
    /\ granted' = granted + cost[c]
    /\ slept' = slept + (wakeAt - lastUpdate)
    /\ cost' = [cost EXCEPT ![c] = 0]
    /\ holder' = NoOne
    /\ wakeAt' = 0
    /\ UNCHANGED <<now, tokens, lastUpdate, queue>>

(* Mutant: the lock is acquired without "async with" and never released.   *)
WakeKeepingLock(c) ==
    /\ holder = c
    /\ now >= wakeAt
    /\ tokens' = 0
    /\ granted' = granted + cost[c]
    /\ slept' = slept + (wakeAt - lastUpdate)
    /\ cost' = [cost EXCEPT ![c] = 0]
    /\ wakeAt' = 0
    /\ UNCHANGED <<now, lastUpdate, queue, holder>>

(* The sleep is over: the bucket is set to zero.  lastUpdate keeps the     *)
(* time from before the sleep.                                             *)
Wake(c) ==
    /\ holder = c
    /\ now >= wakeAt
    /\ tokens' = 0
    /\ granted' = granted + cost[c]
    /\ slept' = slept + (wakeAt - lastUpdate)
    /\ cost' = [cost EXCEPT ![c] = 0]
    /\ holder' = NoOne
    /\ wakeAt' = 0
    /\ UNCHANGED <<now, lastUpdate, queue>>

(* A queued caller's task is cancelled: asyncio.Lock drops the waiter.     *)
CancelQueued(c) ==
    /\ \E i \in 1..Len(queue) :
          /\ queue[i] = c
          /\ queue' = RemoveAt(queue, i)
    /\ cost' = [cost EXCEPT ![c] = 0]
    /\ UNCHANGED <<now, tokens, lastUpdate, holder, wakeAt, granted, slept>>

(* A sleeping caller's task is cancelled: "async with" releases the lock    *)
(* and nothing is deducted.                                                *)
CancelAsleep(c) ==
    /\ holder = c
    /\ holder' = NoOne
    /\ wakeAt' = 0
    /\ cost' = [cost EXCEPT ![c] = 0]
    /\ UNCHANGED <<now, tokens, lastUpdate, queue, granted, slept>>

(* Time passes.  An idle clock stops at MaxTime; a pending sleep may        *)
(* always run out.                                                         *)
Tick ==
    /\ now < MaxTime \/ (holder # NoOne /\ now < wakeAt)
    /\ now' = now + 1
    /\ UNCHANGED <<tokens, lastUpdate, holder, queue, cost, wakeAt, granted, slept>>

BucketNext ==
    \/ Tick
    \/ \E c \in Callers :
          \/ \E n \in Costs : Request(c, n)
          \/ AcquireNow(c)
          \/ StartSleep(c)
          \/ Wake(c)
          \/ CancelQueued(c)
          \/ CancelAsleep(c)

BucketSpec == BucketInit /\ [][BucketNext]_bucket

(* The event loop runs every ready task and time goes on; nobody is forced *)
(* to call acquire() or to cancel a task.                                  *)
Fairness ==
    /\ WF_bucket(Tick)
    /\ \A c \in Callers : WF_bucket(AcquireNow(c) \/ StartSleep(c) \/ Wake(c))

FairBucketSpec == BucketSpec /\ Fairness

-----------------------------------------------------------------------------
BucketTypeOK ==
    /\ now \in Nat
    /\ tokens \in 0..MaxTokens
    /\ lastUpdate \in Nat
    /\ holder \in Callers \cup {NoOne}
    /\ queue \in Seq(Callers)
    /\ cost \in [Callers -> {0} \cup Costs]
    /\ wakeAt \in Nat
    /\ granted \in Nat
    /\ slept \in Nat

(* What the bucket really promises over any run from its creation: never   *)
(* more than the burst plus TWICE what the rate earns.  Tokens earned while *)
(* a caller sleeps are paid out once to the sleeper and once more by the    *)
(* next refill, whose interval starts before the sleep.                    *)
TwiceRateBound == granted <= MaxTokens + 2 * now

(* The exact account: tokens handed out, plus those in the bucket, never   *)
(* exceed the burst, what time earned up to the last update, and what was  *)
(* paid a second time for sleeping.                                        *)
ExactAccount == granted + tokens <= MaxTokens + lastUpdate + slept

(* Whoever waits for tokens holds the lock or is queued for it, exactly     *)
(* once, and nobody else is: a cancelled sleeper must not keep the bucket  *)
(* shut, a cancelled waiter must not be handed the lock.                   *)
LockDiscipline ==
    /\ holder # NoOne =>
          /\ cost[holder] # 0
          /\ \A i \in 1..Len(queue) : queue[i] # holder
    /\ \A i \in 1..Len(queue) : cost[queue[i]] # 0
    /\ \A i, j \in 1..Len(queue) : queue[i] = queue[j] => i = j
    /\ \A c \in Callers : cost[c] # 0 =>
          \/ holder = c
          \/ \E i \in 1..Len(queue) : queue[i] = c

(* The bucket is sound in every state: its account balances and its lock    *)
(* has one owner, whatever is cancelled.                                    *)
BucketSound ==
    /\ BucketTypeOK
    /\ ExactAccount
    /\ LockDiscipline

(* Every acquire() returns (or its task is cancelled): a caller queued     *)
(* behind sleepers, also behind sleepers that are cancelled, is served.    *)
EveryAcquireEnds == \A c \in Callers : cost[c] # 0 ~> cost[c] = 0

=============================================================================
