---------------------------- MODULE RetryRequests ----------------------------
(***************************************************************************)
(* makeRetryRequest (lib/api-client.ts) with the retry rules of the tools  *)
(* (tools/github, gitlab and jira), and the counters of the connection     *)
(* pool under it (lib/connection-pool.ts).  The connections themselves are *)
(* undici's.  Delays are in seconds; how long a call waits is not part of  *)
(* the behaviour.                                                          *)
(***************************************************************************)
EXTENDS Integers, FiniteSetsExt

CONSTANTS
  Calls,
  Answers,     \* tool -> what its provider may answer:
               \* [status, retryAfter, remaining, untilReset, keepAlive, size],
               \* where Absent stands for a header it does not send
  Tries,       \* 1 + maxRetries; no tool sets another, and getMaxRetries is not called
  Many,        \* the pool scales its counters down when there are more requests,
  Tenth,       \* by this divisor
  None,
  MaxRequests, MaxCleanups   \* bounds

VARIABLES
  calls,      \* call -> Free or [at, tool, pooled, attempt, last, tried]
  total, succeeded, failed,
  opened,     \* a connection was counted (totalConnections > 0)
  adrift,     \* history: how many requests were under way when the counters were scaled down
  cleanups,   \* history: how often they were
  aged        \* the pool is older than 100 ms

counters == <<total, succeeded, failed, opened>>
vars == <<calls, counters, adrift, cleanups, aged>>

Free == [at |-> "free"]
Absent == 0 - 1
Date == 0 - 2     \* a Retry-After that is a date
HttpTools == DOMAIN Answers
Ok(answer) == answer.status \in 200..299

\* A Response of these may have no body, not even the empty one the pool gives it.
NullBody(answer) == answer.status \in {204, 205, 304}

-----------------------------------------------------------------------------
(* The rules: the delays that shouldRetry may answer, none when it is null.  *)

Power(attempt) == 2 ^ attempt

\* A date in Retry-After is no number, which setTimeout takes for no delay.
GitHubShouldRetry(answer, attempt) ==
  CASE answer.status = 429 /\ answer.retryAfter = Date -> {0}
    [] answer.status = 429 /\ answer.retryAfter # Date ->
         {(IF answer.retryAfter = Absent THEN 1 ELSE answer.retryAfter) * Power(attempt)}
    [] answer.status # 429 /\ answer.remaining # Absent /\ answer.untilReset # Absent ->
         IF answer.remaining <= 1 THEN {Max({answer.untilReset, 1})} ELSE {}
    [] OTHER -> {}

\* 15 per cent more or less than it was told, or 10 than the schedule.
GitLabShouldRetry(answer, attempt) ==
  CASE answer.status # 429 -> {}
    [] answer.status = 429 /\ answer.retryAfter = Date -> {0}
    [] answer.status = 429 /\ answer.retryAfter = Absent ->
         LET minutes == <<1, 4, 16, 64, 128>>[Min({attempt, 4}) + 1] IN {54 * minutes, 66 * minutes}
    [] OTHER -> {Max({1, (85 * answer.retryAfter) \div 100}),
                 Max({1, (115 * answer.retryAfter) \div 100})}

\* detectJiraInstanceSize by the response headers, then the delay of that size (in
\* half seconds here, rounded down).
JiraBase(size) ==
  CASE size = "small" -> 6 [] size = "cloud" -> 3 [] size = "large" -> 2 [] OTHER -> 4

JiraShouldRetry(answer, attempt) ==
  IF answer.status = 429 THEN {(JiraBase(answer.size) * Power(attempt)) \div 2} ELSE {}

ShouldRetry(tool, answer, attempt) ==
  CASE tool = "github" -> GitHubShouldRetry(answer, attempt)
    [] tool = "gitlab" -> GitLabShouldRetry(answer, attempt)
    [] tool = "jira" -> JiraShouldRetry(answer, attempt)

\* calculateBackoffDelay, after an exception.
CalculateBackoffDelay(attempt) == Min({Power(attempt), 60})

-----------------------------------------------------------------------------
(* The pool.                                                                 *)

\* checkConnectionReuse is a guess: a keep-alive header, or a 200 if the pool, whose
\* age is taken for the connection's, is older than 100 ms.
CheckConnectionReuse(answer) == answer.keepAlive \/ (answer.status = 200 /\ aged)

Counted(pooled) == IF pooled THEN total + 1 ELSE total

PoolAnswers(answer) ==
  /\ succeeded' = succeeded + 1
  /\ opened' = (opened \/ ~CheckConnectionReuse(answer))
  /\ UNCHANGED <<total, failed>>

PoolFails ==
  /\ failed' = failed + 1
  /\ UNCHANGED <<total, succeeded, opened>>

UnderWay == {c \in Calls : calls[c].at = "asking" /\ calls[c].pooled}

\* Every five minutes; the kept lifetimes are trimmed as well.
CleanupMetrics ==
  /\ total > Many
  /\ cleanups < MaxCleanups
  /\ total' = total \div Tenth
  /\ succeeded' = succeeded \div Tenth
  /\ failed' = failed \div Tenth
  /\ adrift' = adrift + Cardinality(UnderWay)
  /\ cleanups' = cleanups + 1
  /\ UNCHANGED <<calls, opened, aged>>

Ages ==
  /\ ~aged /\ aged' = TRUE
  /\ UNCHANGED <<calls, counters, adrift, cleanups>>

\* getHealth; a rate of 0.95 is that of 19 successes in 20.
GetHealth ==
  LET Rate(percent) == total = 0 \/ 100 * succeeded >= percent * total IN
  CASE Rate(95) /\ opened -> "healthy"
    [] ~(Rate(95) /\ opened) /\ Rate(80) -> "degraded"
    [] OTHER -> "unhealthy"

-----------------------------------------------------------------------------
(* The retries.                                                              *)

Begin(c, t, pooled) ==
  /\ calls[c] = Free /\ total + Cardinality(UnderWay) < MaxRequests
  /\ calls' = [calls EXCEPT ![c] =
       [at |-> "asking", tool |-> t, pooled |-> pooled, attempt |-> 0, last |-> None, tried |-> 1]]
  /\ total' = Counted(pooled)
  /\ UNCHANGED <<succeeded, failed, opened, adrift, cleanups, aged>>

\* With the pool, or without it for tests (forceFetch).
MakeRetryRequest(c, t) == \E pooled \in BOOLEAN : Begin(c, t, pooled)

\* The same course of the same request, always without the pool.
MakeRetryRequestLegacy(c, t) == Begin(c, t, FALSE)

\* The answer is returned if it is good or its tool does not try again.
Settled(call, answer) ==
  IF Ok(answer) \/ ShouldRetry(call.tool, answer, call.attempt) = {}
  THEN [call EXCEPT !.at = "returned", !.last = answer]
  ELSE [call EXCEPT !.at = "waiting", !.last = answer, !.attempt = @ + 1]

Answered(c) ==
  /\ calls[c].at = "asking"
  /\ \E answer \in Answers[calls[c].tool] :
       /\ ~(calls[c].pooled /\ NullBody(answer))
       /\ calls' = [calls EXCEPT ![c] = Settled(@, answer)]
       /\ IF calls[c].pooled THEN PoolAnswers(answer) ELSE UNCHANGED counters
  /\ UNCHANGED <<adrift, cleanups, aged>>

Failed(call, tries) ==
  IF call.attempt + 1 >= tries THEN [call EXCEPT !.at = "thrown", !.attempt = @ + 1]
  ELSE [call EXCEPT !.at = "waiting", !.attempt = @ + 1]

\* The request, or making a Response of its answer, throws; the last exception is
\* thrown on.
AttemptFails(c, tries) ==
  /\ calls[c].at = "asking"
  /\ calls' = [calls EXCEPT ![c] = Failed(@, tries)]
  /\ \/ IF calls[c].pooled THEN PoolFails ELSE UNCHANGED counters
     \/ /\ calls[c].pooled
        /\ \E answer \in Answers[calls[c].tool] : NullBody(answer) /\ PoolAnswers(answer)
  /\ UNCHANGED <<adrift, cleanups, aged>>

\* Mutant: maxRetries counts the attempts.
ThrowsEarly(c) == AttemptFails(c, Tries - 1)
Throws(c) == AttemptFails(c, Tries)

\* The delay is over; also after the last attempt.
Woken(call) ==
  IF call.attempt >= Tries THEN [call EXCEPT !.at = "returned"]
  ELSE [call EXCEPT !.at = "asking", !.tried = @ + 1]

Wakes(c) ==
  /\ calls[c].at = "waiting"
  /\ calls' = [calls EXCEPT ![c] = Woken(@)]
  /\ total' = IF calls[c].attempt >= Tries THEN total ELSE Counted(calls[c].pooled)
  /\ UNCHANGED <<succeeded, failed, opened, adrift, cleanups, aged>>

\* The caller has its answer.
Over(c) ==
  /\ calls[c].at \in {"returned", "thrown"}
  /\ calls' = [calls EXCEPT ![c] = Free]
  /\ UNCHANGED <<counters, adrift, cleanups, aged>>

-----------------------------------------------------------------------------
Init ==
  /\ calls = [c \in Calls |-> Free]
  /\ total = 0 /\ succeeded = 0 /\ failed = 0
  /\ opened = FALSE
  /\ adrift = 0 /\ cleanups = 0 /\ aged = FALSE

Next ==
  \/ \E c \in Calls :
       \/ \E t \in HttpTools : MakeRetryRequest(c, t) \/ MakeRetryRequestLegacy(c, t)
       \/ Answered(c) \/ Throws(c) \/ Wakes(c) \/ Over(c)
  \/ CleanupMetrics \/ Ages

Spec == Init /\ [][Next]_vars

-----------------------------------------------------------------------------
TypeOK ==
  /\ total \in Nat /\ succeeded \in Nat /\ failed \in Nat
  /\ \A c \in Calls : calls[c] # Free => calls[c].tried \in 1..Tries /\ calls[c].attempt \in 0..Tries

\* A call returns a refusal only when its tool would not try again or it was tried
\* as often as allowed, and throws only after as many attempts.
GivesUpInTime ==
  \A c \in Calls :
    /\ calls[c].at = "thrown" => calls[c].tried = Tries
    /\ calls[c].at = "returned" /\ ~Ok(calls[c].last) =>
         calls[c].tried = Tries \/ ShouldRetry(calls[c].tool, calls[c].last, calls[c].attempt) = {}

\* Every request the pool counts has succeeded, has failed or is under way, until the
\* counters are scaled down; from then on they count too many that ended, but at most
\* as many as were under way when they were scaled.  (So the rate of successes can
\* exceed the 1 that connection-pool.ts:41 gives as its limit.)
CountersAddUp ==
  /\ cleanups = 0 => succeeded + failed + Cardinality(UnderWay) = total
  /\ succeeded + failed + Cardinality(UnderWay) <= total + adrift

\* Until the counters are scaled down, the pool is said to be unhealthy just when more
\* than a fifth of its requests have failed or are still under way, and healthy only
\* when no more than a twentieth have or are: a request under way counts as a failure,
\* so that a pool that lost none may be called unhealthy while it waits.
HealthFollowsTheRate ==
  cleanups = 0 =>
    LET missing == failed + Cardinality(UnderWay) IN
    /\ GetHealth = "unhealthy" <=> 5 * missing > total
    /\ GetHealth = "healthy" => 20 * missing <= total

\* The longest delay that a tool may choose after a refusal is no shorter than the
\* longest after the same refusal one attempt earlier.  (Within GitLab's jitter the
\* delay it does choose may be shorter.)
BackoffGrows ==
  \A t \in HttpTools : \A answer \in Answers[t], attempt \in 0..(Tries - 2) :
    LET first == ShouldRetry(t, answer, attempt)
        second == ShouldRetry(t, answer, attempt + 1)
    IN first # {} => /\ second # {} /\ Max(first) <= Max(second)
                     /\ CalculateBackoffDelay(attempt) <= CalculateBackoffDelay(attempt + 1)
=============================================================================
