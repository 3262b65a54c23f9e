---------------------------- MODULE AuthLimiters ----------------------------
(***************************************************************************)
(* The two limiters of authentication requests: the fixed windows of       *)
(* AuthRateLimiter in lib/rate-limit-auth.ts, which the status routes use, *)
(* and the sliding log of the one in lib/rate-limit/index.ts.  A request   *)
(* names its client by what its headers and cookie give.  The checks are   *)
(* synchronous, so each is one step.                                       *)
(***************************************************************************)
EXTENDS Integers, Sequences, FiniteSets

CONSTANTS
  Clients,
  None,        \* no entry
  MaxRequests, \* the constructors' maxRequests
  WindowMs,    \* the constructors' windowMs
  MaxTime      \* bound

VARIABLES
  time,
  entries,  \* fixed windows: client -> None or [count, reset]
  requests, \* sliding log: client -> the times it admitted, oldest first
  refused,  \* client -> the resetTime of the refusal it got last, or None
  fixedLog, slidingLog \* history: client -> the times each admitted, all of them

vars == <<time, entries, requests, refused, fixedLog, slidingLog>>

Init ==
  /\ time = 0
  /\ entries = [c \in Clients |-> None]
  /\ requests = [c \in Clients |-> <<>>]
  /\ refused = [c \in Clients |-> None]
  /\ fixedLog = [c \in Clients |-> <<>>] /\ slidingLog = fixedLog

-----------------------------------------------------------------------------
(* Fixed windows: isRateLimited.                                             *)

\* cleanupExpiredEntries: every client's.
Cleaned == [c \in Clients |->
  IF entries[c] # None /\ time > entries[c].reset THEN None ELSE entries[c]]

\* The mutant opens a window without counting the request that opens it.
NewWindowUncounted == [count |-> 0, reset |-> time + WindowMs]

NewWindow == [count |-> 1, reset |-> time + WindowMs]

Fixed(c) ==
  LET admits == Cleaned[c] = None \/ Cleaned[c].count < MaxRequests IN
  /\ entries' = IF Cleaned[c] = None THEN [Cleaned EXCEPT ![c] = NewWindow]
                ELSE IF admits THEN [Cleaned EXCEPT ![c].count = @ + 1] ELSE Cleaned
  /\ fixedLog' = IF admits THEN [fixedLog EXCEPT ![c] = Append(@, time)] ELSE fixedLog
  /\ refused' = [refused EXCEPT ![c] = IF admits THEN None ELSE entries[c].reset]
  /\ UNCHANGED <<time, requests, slidingLog>>

-----------------------------------------------------------------------------
(* Sliding log: checkLimit, and checkAuthRateLimit around it.                *)

\* The filter drops the oldest times, those of until and before: the log is in order.
After(log, until) == SubSeq(log, Cardinality({i \in DOMAIN log : log[i] <= until}) + 1, Len(log))

\* The mutant keeps the requests of a window that is too short.
ValidShort(c) == After(requests[c], time - WindowMs + 1)

Valid(c) == After(requests[c], time - WindowMs)

Sliding(c) ==
  LET valid == Valid(c) IN
  /\ IF Len(valid) >= MaxRequests
     THEN UNCHANGED <<requests, slidingLog>>
     ELSE /\ requests' = [requests EXCEPT ![c] = Append(valid, time)]
          /\ slidingLog' = [slidingLog EXCEPT ![c] = Append(@, time)]
  /\ UNCHANGED <<time, entries, refused, fixedLog>>

Tick == time < MaxTime /\ time' = time + 1
        /\ UNCHANGED <<entries, requests, refused, fixedLog, slidingLog>>

Next == Tick \/ \E c \in Clients : Fixed(c) \/ Sliding(c)

Spec == Init /\ [][Next]_vars

-----------------------------------------------------------------------------

TypeOK ==
  /\ time \in 0..MaxTime
  /\ \A c \in Clients :
       /\ entries[c] # None => /\ entries[c].count \in 1..MaxRequests
                               /\ entries[c].reset \in WindowMs .. time + WindowMs
       /\ Len(requests[c]) \in 0..MaxRequests
       /\ refused[c] # None => refused[c] >= 0

\* The requests of log that fall in the WindowMs that end at t.
Within(log, t) == {i \in DOMAIN log : log[i] > t - WindowMs /\ log[i] <= t}

\* What the limiters promise over real time, whatever they forget: the sliding
\* log admits at most MaxRequests in any window, wherever it starts; the fixed
\* windows, which two bursts can straddle, fewer than twice as many: the request
\* that opened the earlier window lies outside.
AdmittedPerWindow ==
  \A c \in Clients : \A t \in 0..time :
    /\ Cardinality(Within(slidingLog[c], t)) <= MaxRequests
    /\ Cardinality(Within(fixedLog[c], t)) < 2 * MaxRequests

\* A refusal by the fixed windows is for no longer than it says: a client that
\* waits past the resetTime it was given is admitted, whatever others did
\* meanwhile, and no refusal names a time more than a window away.
RefusedUntilReset ==
  \A c \in Clients : refused[c] # None =>
    /\ refused[c] <= time + WindowMs
    /\ time > refused[c] => Cleaned[c] = None \/ Cleaned[c].count < MaxRequests
=============================================================================
