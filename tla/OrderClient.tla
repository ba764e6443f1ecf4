----------------------------- MODULE OrderClient -----------------------------
(***************************************************************************)
(* The retry loop every endpoint of the Kalshi client runs (api/_base.py,   *)
(* api/client.py, api/_mixins/orders.py, trading.py, order_groups.py): one  *)
(* token is acquired, then the request is sent up to MaxRetries times, each *)
(* time after a 429, a network error or a timeout.                          *)
(*                                                                         *)
(* The exchange takes each copy of a request at most once.  What a copy     *)
(* does depends on the endpoint: "keyed" requests carry a client_order_id   *)
(* the exchange takes once (create, amend), "absolute" ones set a state     *)
(* (cancel, reduce_to, reset or delete of a group), "relative" ones change  *)
(* it every time (reduce_by, a new order group, a batch without ids), and   *)
(* "read" ones change nothing.                                              *)
(***************************************************************************)
EXTENDS Integers

CONSTANTS
    Requests,       \* the client's calls in a run
    Endpoints,      \* the methods of the client
    Effect,         \* Effect[e]: what a copy does
    LenientHeader,  \* endpoints that survive a Retry-After that is no number
    MaxRetries      \* self._max_retries

Effects == {"keyed", "absolute", "relative", "read"}

ASSUME ClientAssumption ==
    /\ Effect \in [Endpoints -> Effects]
    /\ LenientHeader \subseteq Endpoints
    /\ "none" \notin Endpoints
    /\ MaxRetries \in Nat \ {0}

Attempts == 1..MaxRetries

VARIABLES
    endpoint,   \* endpoint[r]: the method called, "none" before the call
    pc,         \* "idle", "acquire" (the rate limiter), "sent", "backoff", "done"
    attempt,    \* attempt_number of the retry loop
    reply,      \* reply[r]: the response of the current attempt, "none" before it
    outcome,    \* how the call ended
    net,        \* copies <<r, n>> on their way to the exchange
    seen,       \* client_order_ids the exchange took
    applied,    \* applied[r]: how often the exchange carried out r
    unanswered  \* history: attempts given up without an answer

vars == <<endpoint, pc, attempt, reply, outcome, net, seen, applied, unanswered>>

Having(effect) == {r \in Requests : endpoint[r] \in {e \in Endpoints : Effect[e] = effect}}

Running == {r \in Requests : pc[r] \in {"acquire", "sent", "backoff"}}

Init ==
    /\ endpoint = [r \in Requests |-> "none"]
    /\ pc = [r \in Requests |-> "idle"]
    /\ attempt = [r \in Requests |-> 0]
    /\ reply = [r \in Requests |-> "none"]
    /\ outcome = [r \in Requests |-> "none"]
    /\ net = {}
    /\ seen = {}
    /\ applied = [r \in Requests |-> 0]
    /\ unanswered = [r \in Requests |-> 0]

-----------------------------------------------------------------------------
Exchange == <<net, seen, applied>>

End(r, how) ==
    /\ pc' = [pc EXCEPT ![r] = "done"]
    /\ outcome' = [outcome EXCEPT ![r] = how]

(* The arguments are valid and this is no dry run.                         *)
Call(r, e) ==
    /\ pc[r] = "idle"
    /\ endpoint' = [endpoint EXCEPT ![r] = e]
    /\ pc' = [pc EXCEPT ![r] = "acquire"]
    /\ UNCHANGED <<attempt, reply, outcome, Exchange, unanswered>>

(* ValueError, or the simulated answer of a dry run.                       *)
ReturnEarly(r) ==
    /\ pc[r] = "idle"
    /\ \E how \in {"invalid", "simulated"} : End(r, how)
    /\ UNCHANGED <<endpoint, attempt, reply, Exchange, unanswered>>

(* Mutant: every attempt draws its own client_order_id.                   *)
FreshClientOrderId(r, n) == <<r, n>>

(* client_order_id is drawn once, before the loop.                         *)
ClientOrderId(r, n) == <<r, 1>>

(* The rate limiter lets the call pass (first attempt) or the backoff is   *)
(* over (later ones, which ask the rate limiter for nothing).              *)
Send(r) ==
    /\ pc[r] \in {"acquire", "backoff"}
    /\ pc' = [pc EXCEPT ![r] = "sent"]
    /\ attempt' = [attempt EXCEPT ![r] = @ + 1]
    /\ reply' = [reply EXCEPT ![r] = "none"]
    /\ net' = net \cup {<<r, attempt[r] + 1>>}
    /\ UNCHANGED <<endpoint, outcome, seen, applied, unanswered>>

(* The exchange gets a copy and answers; the answer counts if the client   *)
(* still waits for it.  "broken" is a 5xx or a body the client cannot use. *)
Answers(r, n, applies) ==
    IF applies THEN {"ok", "broken"}
    ELSE {"throttled", "refused", "broken"}
         \cup (IF r \in Having("read") \/ (r \in Having("keyed") /\ ClientOrderId(r, n) \in seen)
               THEN {"ok"} ELSE {})

Receive(r, n) ==
    /\ <<r, n>> \in net
    /\ net' = net \ {<<r, n>>}
    /\ \E applies \in BOOLEAN :
          /\ applies => /\ r \notin Having("read")
                        /\ r \in Having("keyed") => ClientOrderId(r, n) \notin seen
          /\ applied' = IF applies THEN [applied EXCEPT ![r] = @ + 1] ELSE applied
          /\ seen' = IF applies /\ r \in Having("keyed")
                     THEN seen \cup {ClientOrderId(r, n)} ELSE seen
          /\ \E answer \in Answers(r, n, applies) :
                reply' = IF pc[r] = "sent" /\ attempt[r] = n
                         THEN [reply EXCEPT ![r] = answer] ELSE reply
    /\ UNCHANGED <<endpoint, pc, attempt, outcome, unanswered>>

LoseCopy(r, n) ==
    /\ <<r, n>> \in net
    /\ net' = net \ {<<r, n>>}
    /\ UNCHANGED <<endpoint, pc, attempt, reply, outcome, seen, applied, unanswered>>

(* AsyncRetrying: wait and try again, or reraise after the last attempt.   *)
Retry(r) ==
    IF attempt[r] < MaxRetries
    THEN pc' = [pc EXCEPT ![r] = "backoff"] /\ UNCHANGED outcome
    ELSE End(r, "error")

(* httpx.TimeoutException or NetworkError; the answer, if any, is lost.    *)
TimeOut(r) ==
    /\ pc[r] = "sent"
    /\ unanswered' = [unanswered EXCEPT ![r] = @ + 1]
    /\ Retry(r)
    /\ UNCHANGED <<endpoint, attempt, reply, Exchange>>

(* Mutant: every error response is retried.                                *)
HandleRetryingAll(r) ==
    /\ pc[r] = "sent"
    /\ reply[r] # "none"
    /\ \/ reply[r] = "ok" /\ End(r, "ok")
       \/ reply[r] \in {"refused", "broken", "throttled"} /\ Retry(r)
    /\ UNCHANGED <<endpoint, attempt, reply, Exchange, unanswered>>

(* Mutant: a refusal (409, a duplicate) passes for success.                 *)
HandleRefusalAsOk(r) ==
    /\ pc[r] = "sent"
    /\ \/ reply[r] \in {"ok", "refused"} /\ End(r, "ok")
       \/ reply[r] = "broken" /\ End(r, "error")
       \/ reply[r] = "throttled" /\ Retry(r)
       \/ reply[r] = "throttled" /\ endpoint[r] \notin LenientHeader /\ End(r, "error")
    /\ UNCHANGED <<endpoint, attempt, reply, Exchange, unanswered>>

(* 429 is retried, unless its Retry-After is no number and int() raises;   *)
(* every other error response, and a body that does not parse, ends the     *)
(* call.                                                                   *)
Handle(r) ==
    /\ pc[r] = "sent"
    /\ \/ reply[r] = "ok" /\ End(r, "ok")
       \/ reply[r] \in {"refused", "broken"} /\ End(r, "error")
       \/ reply[r] = "throttled" /\ Retry(r)
       \/ reply[r] = "throttled" /\ endpoint[r] \notin LenientHeader /\ End(r, "error")
    /\ UNCHANGED <<endpoint, attempt, reply, Exchange, unanswered>>

(* The caller's task is cancelled at an await.                             *)
Cancel(r) ==
    /\ r \in Running
    /\ End(r, "cancelled")
    /\ UNCHANGED <<endpoint, attempt, reply, Exchange, unanswered>>

ClientStep(r) == Send(r) \/ TimeOut(r) \/ Handle(r)

Next ==
    \E r \in Requests :
        \/ \E e \in Endpoints : Call(r, e)
        \/ ReturnEarly(r)
        \/ ClientStep(r)
        \/ Cancel(r)
        \/ \E n \in Attempts : Receive(r, n) \/ LoseCopy(r, n)

Spec == Init /\ [][Next]_vars

-----------------------------------------------------------------------------
TypeOK ==
    /\ endpoint \in [Requests -> Endpoints \cup {"none"}]
    /\ pc \in [Requests -> {"idle", "acquire", "sent", "backoff", "done"}]
    /\ attempt \in [Requests -> 0..MaxRetries]
    /\ reply \in [Requests -> {"none", "ok", "throttled", "refused", "broken"}]
    /\ outcome \in [Requests -> {"none", "invalid", "simulated", "ok", "error", "cancelled"}]
    /\ net \subseteq Requests \X Attempts
    /\ seen \subseteq Requests \X Attempts
    /\ applied \in [Requests -> Nat]
    /\ unanswered \in [Requests -> 0..MaxRetries]

(* A call with a client_order_id (create_order, amend_order) is carried out *)
(* at most once, whatever is retried, delayed, duplicated or cancelled.     *)
KeyedAppliedOnce == \A r \in Having("keyed") : applied[r] <= 1

(* Any other call (decrease_order, create_order_group, a batch) is carried  *)
(* out once more at most for each attempt that was given up unanswered: the *)
(* loop never resends what the exchange answered with anything but 429.     *)
RepeatsOnlyUnanswered == \A r \in Requests : applied[r] <= 1 + unanswered[r]

(* Repeating a request is harmless: what carries a key happens once, and    *)
(* what does not is repeated only when its answer was lost.                 *)
RepeatsHarmless ==
    /\ TypeOK
    /\ KeyedAppliedOnce
    /\ RepeatsOnlyUnanswered

(* What the call returns is true: "ok" means carried out; a 4xx or 429 with *)
(* every earlier attempt answered means not carried out, now or later; a    *)
(* call that never sent anything leaves nothing behind.                     *)
Pending(r) == \E n \in Attempts : <<r, n>> \in net

OutcomeIsTrue ==
    \A r \in Requests :
        /\ outcome[r] = "ok" /\ r \notin Having("read") => applied[r] >= 1
        /\ outcome[r] = "error" /\ unanswered[r] = 0 /\ reply[r] # "broken" =>
              applied[r] = 0 /\ ~Pending(r)
        /\ outcome[r] \in {"invalid", "simulated"} => applied[r] = 0 /\ ~Pending(r)

(* What the trade safety harness relies on; the other endpoints and what a   *)
(* call does before it sends are no submissions.                             *)
SubmissionStatus(r) ==
    IF r \notin Having("keyed") THEN "idle"
    ELSE IF r \in Running THEN "open"
    ELSE IF outcome[r] = "ok" THEN "ok" ELSE "failed"

Submission == INSTANCE OrderSubmission WITH
    Submissions <- Requests,
    status <- [r \in Requests |-> SubmissionStatus(r)],
    wire <- [r \in Requests |-> /\ r \in Having("keyed") /\ applied[r] = 0
                                /\ r \in Running \/ Pending(r)],
    placed <- [r \in Requests |-> IF r \in Having("keyed") THEN applied[r] ELSE 0]

(* Seen from above, the retry loop is one request that is placed at most    *)
(* once and answered only then (create_order, amend_order).                 *)
ImplementsSubmission == Submission!Spec

=============================================================================
