--------------------------- MODULE CircuitBreaker ---------------------------
(***************************************************************************)
(* The circuit breakers of tools/validation.ts: a Map from a tool to its   *)
(* consecutive failures.  All three functions are synchronous.             *)
(***************************************************************************)
EXTENDS Integers

CONSTANTS
  Tools,     \* tool slugs
  Threshold, \* CIRCUIT_BREAKER_THRESHOLD
  Timeout    \* CIRCUIT_BREAKER_TIMEOUT

VARIABLES
  breakers, \* circuitBreakers; a tool without an entry has NoBreaker
  now       \* Date.now()

State == {"closed", "open", "half-open"}

\* The record recordRequestFailure starts from.
NoBreaker == [failures |-> 0, lastFailure |-> 0, state |-> "closed"]

BreakerInit == breakers = [t \in Tools |-> NoBreaker]

\* Mutant: the failures are not forgotten.
Checked_KeepsFailures(t) ==
  LET b == breakers[t]
  IN  IF b.state = "open" /\ now - b.lastFailure > Timeout
      THEN [b EXCEPT !.state = "half-open"]
      ELSE b

\* Mutant: an open breaker lets requests through at once.
Checked_AtOnce(t) ==
  LET b == breakers[t]
  IN  IF b.state = "open" THEN [b EXCEPT !.state = "half-open", !.failures = 0] ELSE b

\* canExecuteRequest moves an open breaker on once the timeout is past.
Checked(t) ==
  LET b == breakers[t]
  IN  IF b.state = "open" /\ now - b.lastFailure > Timeout
      THEN [b EXCEPT !.state = "half-open", !.failures = 0]
      ELSE b

Admits(t) == Checked(t).state # "open"

CanExecuteRequest(t) == breakers' = [breakers EXCEPT ![t] = Checked(t)]

RecordRequestSuccess(t) == breakers' = [breakers EXCEPT ![t] = NoBreaker]

RecordRequestFailure(t) ==
  LET failures == breakers[t].failures + 1
  IN  breakers' = [breakers EXCEPT
                     ![t].failures = failures,
                     ![t].lastFailure = now,
                     ![t].state = IF failures >= Threshold THEN "open" ELSE @]

-----------------------------------------------------------------------------
\* A breaker is open exactly when as many failures as the threshold have come
\* with no success and no trial period in between, in whatever order the
\* requests that were let through report.
OpenAtThreshold ==
  \A t \in Tools : breakers[t].state = "open" <=> breakers[t].failures >= Threshold

=============================================================================
