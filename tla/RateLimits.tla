----------------------------- MODULE RateLimits -----------------------------
(***************************************************************************)
(* UnifiedRateLimitService (lib/rate-limit/index.ts) with its cache and    *)
(* the table of RateLimitRepository, and beside it the older functions it  *)
(* consolidates (lib/rate-limit-monitor.ts, lib/rate-limit-service.ts),    *)
(* which the routes still call.                                            *)
(*                                                                         *)
(* A call is a getRateLimitStatus or a refreshPlatformLimits: it may await *)
(* the platform's answer and then the upsert, and other calls and a load   *)
(* run meanwhile.  The upsert is rejected whatever it is given: the schema *)
(* has no unique index its ON CONFLICT (key) could use, and neither        *)
(* remaining nor reset_at may be null.  So the rows a load finds are rows  *)
(* somebody inserted by hand.  Percentages are rounded down, which the     *)
(* thresholds, all integers, cannot tell.  The 100 entries that bound the  *)
(* cache are left out: its keys are the three platforms.                   *)
(***************************************************************************)
EXTENDS Integers, FiniteSetsExt

CONSTANTS
  Platforms, \* a subset of {"github", "gitlab", "jira"}
  Answers,   \* platform -> what its rate-limit handler may return
  Calls,
  Stored,    \* rows that may be in the table
  None,      \* null, and undefined
  TTL,       \* cacheTtlMs
  Day,       \* 24 hours
  MaxTime    \* bound

VARIABLES
  now,
  cache, \* platform -> None or [status, expires]
  rows,  \* platform -> None or a row of rate_limits
  calls, \* call -> Free or [at, platform, save, status]
  load   \* None, or the rows a load has read and not yet applied

vars == <<now, cache, rows, calls, load>>

-----------------------------------------------------------------------------
(* Limits and levels.                                                        *)

Clamp(percent) == IF percent < 0 THEN 0 ELSE IF percent > 100 THEN 100 ELSE percent

\* A resource that GitHub's answer lacks has an undefined limit: it passes the test
\* for null, it is not above 0, and so 0 per cent of it are used.
Usage(limit, remaining, reset, retry) ==
  [limit |-> limit, remaining |-> remaining, reset |-> reset, retry |-> retry,
   percent |-> IF None \notin {limit, remaining} /\ limit > 0
               THEN Clamp((100 * (limit - remaining)) \div limit) ELSE 0]

GitHubLimits(answer) ==
  [r \in DOMAIN answer |-> Usage(answer[r].limit, answer[r].remaining, answer[r].reset, None)]

\* A Retry-After of 0 is falsy, as is one that is no number.
After(t, retry) == IF retry \in {None, 0} THEN None ELSE t + retry
Global(percent, t, retry) ==
  [global |-> [limit |-> None, remaining |-> None, percent |-> percent,
               reset |-> After(t, retry), retry |-> retry]]

\* The mutant reads no Retry-After from the answer.
GitLabLimitsWithoutRetry(answer, t) ==
  Global(IF answer.code = 429 THEN 100 ELSE IF answer.code = 200 THEN 10 ELSE None, t, None)

GitLabLimits(answer, t) ==
  LET waits == answer.retry \notin {None, 0} IN
  Global(CASE answer.code = 429 -> 100
           [] answer.code # 429 /\ waits -> 90
           [] answer.code = 200 /\ ~waits -> 10
           [] OTHER -> None,
         t, IF waits THEN answer.retry ELSE None)

JiraLimits(answer, t) ==
  Global(CASE answer.code = 429 -> 100 [] answer.code = 200 -> 10 [] OTHER -> None,
         t, IF answer.code = 429 THEN answer.retry ELSE None)

TransformPlatformLimits(p, answer, t) ==
  CASE p = "github" -> GitHubLimits(answer)
    [] p = "gitlab" -> GitLabLimits(answer, t)
    [] p = "jira" -> JiraLimits(answer, t)

Level(percent) ==
  CASE percent = None -> "unknown"
    [] percent # None /\ percent >= 90 -> "critical"
    [] percent # None /\ percent < 90 /\ percent >= 75 -> "warning"
    [] OTHER -> "normal"
Levels == {"normal", "warning", "critical", "unknown"}

OverallStatus(limits) ==
  LET percents == {limits[r].percent : r \in DOMAIN limits} \ {None} IN
  Level(IF percents = {} THEN None ELSE Max(percents))

Status(p, answer) ==
  LET limits == TransformPlatformLimits(p, answer, now) IN
  [updated |-> now, fresh |-> TRUE, level |-> OverallStatus(limits), limits |-> limits]

-----------------------------------------------------------------------------
(* Rows: what is to be kept of a status, and what is made of a row again.      *)

Primary(p) == IF p = "github" THEN "core" ELSE "global"

ToNormalizedRecord(p, status) ==
  LET usage == status.limits[Primary(p)] IN
  [remaining |-> usage.remaining, total |-> usage.limit, reset |-> usage.reset, updated |-> status.updated]

CreateLimitEntry(total, remaining, reset) ==
  [limit |-> total, remaining |-> remaining, reset |-> reset, retry |-> None,
   percent |-> IF {total, remaining} \cap {None, 0} = {}
               THEN LET percent == (100 * (total - remaining)) \div total IN
                    IF percent > 100 THEN 100 ELSE percent
               ELSE None]

\* Dividing by a total of 0 gives NaN or -Infinity, neither of them above a threshold.
RestoredLevel(total, remaining) ==
  IF None \in {total, remaining} THEN "unknown"
  ELSE IF total = 0 THEN "normal" ELSE Level((100 * (total - remaining)) \div total)

FromNormalizedRecord(p, record) ==
  LET entry == CreateLimitEntry(record.total, record.remaining, record.reset) IN
  [updated |-> record.updated, fresh |-> FALSE,
   level |-> RestoredLevel(record.total, record.remaining),
   limits |-> [r \in IF p = "github" THEN {"core", "search", "graphql"} ELSE {"global"} |-> entry]]

-----------------------------------------------------------------------------
(* The older functions.                                                      *)

OldGitLabLimits(answer, t) ==
  LET waits == answer.retry # None /\ answer.retry > 0 IN
  Global(IF answer.code = 429 THEN 100
         ELSE IF waits THEN 90 ELSE IF answer.code = 200 THEN 10 ELSE None,
         t, answer.retry)

OldTransform(p, answer, t) ==
  CASE p = "github" -> GitHubLimits(answer)
    [] p = "gitlab" -> OldGitLabLimits(answer, t)
    [] p = "jira" -> JiraLimits(answer, t)

OldRecord(p, status) ==
  LET usage == status.limits[Primary(p)] IN
  [remaining |-> usage.remaining, total |-> usage.limit, reset |-> usage.reset, updated |-> status.updated]

OldRestored(p, record) ==
  LET numbers == None \notin {record.total, record.remaining}
      truthy == numbers /\ record.total # 0 /\ record.remaining # 0
      raw == (100 * (record.total - record.remaining)) \div record.total
      entry == [limit |-> record.total, remaining |-> record.remaining, reset |-> record.reset,
                retry |-> None, percent |-> IF truthy THEN Min({100, raw}) ELSE None] IN
  [updated |-> record.updated, fresh |-> FALSE,
   level |-> IF ~numbers THEN "unknown" ELSE IF record.total = 0 THEN "normal" ELSE Level(raw),
   limits |-> IF p = "github" THEN [r \in {"core", "search", "graphql"} |-> entry] ELSE [global |-> entry]]

-----------------------------------------------------------------------------
(* The service.                                                              *)

Free == [at |-> "free"]

Init ==
  /\ now = 0
  /\ cache = [p \in Platforms |-> None]
  /\ rows \in [Platforms -> {None} \cup Stored]
  /\ calls = [c \in Calls |-> Free]
  /\ load = None

\* RateLimitCache: an entry past its time is deleted by the get that finds it.
Live(p) == cache[p] # None /\ now <= cache[p].expires
Swept(p) == IF Live(p) THEN cache ELSE [cache EXCEPT ![p] = None]
Entry(status) == [status |-> status, expires |-> now + TTL]

Continues(c, p, save, status) ==
  calls' = [calls EXCEPT ![c] =
    IF save THEN [at |-> "save", platform |-> p, save |-> TRUE, status |-> status] ELSE Free]

\* getRateLimitStatus up to its await, and the status it finds in the cache.
Asks(c, p, save) ==
  /\ calls[c] = Free
  /\ cache' = Swept(p)
  /\ IF Live(p) THEN Continues(c, p, save, cache[p].status)
     ELSE calls' = [calls EXCEPT ![c] = [at |-> "fetch", platform |-> p, save |-> save, status |-> None]]
  /\ UNCHANGED <<now, rows, load>>

\* The handler answers, the status enters the cache.
Answered(c) ==
  /\ calls[c].at = "fetch"
  /\ \E answer \in Answers[calls[c].platform] :
       LET status == Status(calls[c].platform, answer) IN
       /\ cache' = [cache EXCEPT ![calls[c].platform] = Entry(status)]
       /\ Continues(c, calls[c].platform, calls[c].save, status)
  /\ UNCHANGED <<now, rows, load>>

\* It throws or returns no rate limit.
Fails(c) ==
  /\ calls[c].at = "fetch"
  /\ calls' = [calls EXCEPT ![c] = Free]
  /\ UNCHANGED <<now, cache, rows, load>>

\* refreshPlatformLimits: the statement that should save the record of the status
\* is rejected, and the call with it.
Upsert(c) ==
  /\ calls[c].at = "save"
  /\ calls' = [calls EXCEPT ![c] = Free]
  /\ UNCHANGED <<now, cache, rows, load>>

\* loadPersistedRateLimits: its query, and later the loop over its rows.
LoadReads ==
  /\ load = None
  /\ load' = rows
  /\ UNCHANGED <<now, cache, rows, calls>>

\* Mutant: a row of any age is taken.
WarmsWhateverItsAge(p) == load[p] # None /\ ~(Live(p) /\ cache[p].status.updated > load[p].updated)

\* Mutant: it is not looked at what the cache holds.
WarmsOverTheCache(p) == load[p] # None /\ now - load[p].updated <= Day

Warms(p) ==
  /\ load[p] # None
  /\ now - load[p].updated <= Day
  /\ ~(Live(p) /\ cache[p].status.updated > load[p].updated)

LoadApplies ==
  /\ load # None
  /\ cache' = [p \in Platforms |->
       IF Warms(p) THEN Entry(FromNormalizedRecord(p, load[p]))
       ELSE IF load[p] # None /\ now - load[p].updated <= Day THEN Swept(p)[p]
       ELSE cache[p]]
  /\ load' = None
  /\ UNCHANGED <<now, rows, calls>>

LoadFails == load # None /\ load' = None /\ UNCHANGED <<now, cache, rows, calls>>

ClearCache ==
  /\ cache' = [p \in Platforms |-> None]
  /\ UNCHANGED <<now, rows, calls, load>>

\* The process starts again: what it held is gone, the table is not.
Restart ==
  /\ cache' = [p \in Platforms |-> None]
  /\ calls' = [c \in Calls |-> Free]
  /\ load' = None
  /\ UNCHANGED <<now, rows>>

Tick == now < MaxTime /\ now' = now + 1 /\ UNCHANGED <<cache, rows, calls, load>>

Next ==
  \/ \E c \in Calls, p \in Platforms, save \in BOOLEAN : Asks(c, p, save)
  \/ \E c \in Calls : Answered(c) \/ Fails(c) \/ Upsert(c)
  \/ LoadReads \/ LoadApplies \/ LoadFails \/ ClearCache \/ Restart \/ Tick

Spec == Init /\ [][Next]_vars

-----------------------------------------------------------------------------

\* Shapes: a cached status is no newer than the clock, a row no newer than that.
TypeOK ==
  /\ now \in 0..MaxTime
  /\ \A p \in Platforms :
       /\ cache[p] # None => /\ cache[p].status.level \in Levels
                             /\ cache[p].status.updated \in 0..now
                             /\ cache[p].expires \in now - MaxTime .. now + TTL
       /\ rows[p] # None => rows[p].updated \in 0..now
  /\ \A c \in Calls : calls[c].at \in {"free", "fetch", "save"}

\* A row with a total is restored with the level its numbers had when they were
\* fetched: an exhausted limit, 0 remaining, is critical again, and a total of 0 is
\* no division by 0 (fromNormalizedRecord against calculateLimitUsage).
RestoredLevelIsTheRows ==
  \A p \in Platforms : rows[p] # None /\ rows[p].total # None =>
    FromNormalizedRecord(p, rows[p]).level = Level(Usage(rows[p].total, rows[p].remaining, None, None).percent)

\* What the cache would answer is at most a TTL old if the process fetched it
\* and a day and a TTL if it was restored, and a load that overlaps fetches
\* never puts an older status over a newer one that is still served.
CachedIsRecent ==
  \A p \in Platforms : Live(p) =>
    now - cache[p].status.updated <= TTL + (IF cache[p].status.fresh THEN 0 ELSE Day)

NoOlderStatus ==
  \A p \in Platforms : Live(p) /\ cache'[p] # None =>
    cache'[p].status.updated >= cache[p].status.updated

CacheNeverGoesBack == [][NoOlderStatus]_vars

\* The service agrees with the functions it says it replaces: every answer of
\* a handler gives the same usage and reset times, every status the same
\* record, every row of the table the same restored status.
ReplacesTheOldFunctions ==
  /\ \A p \in Platforms : \A answer \in Answers[p] :
       LET old == OldTransform(p, answer, now)
           new == TransformPlatformLimits(p, answer, now) IN
       /\ DOMAIN old = DOMAIN new
       /\ \A r \in DOMAIN new : [old[r] EXCEPT !.retry = None] = [new[r] EXCEPT !.retry = None]
       /\ OldRecord(p, Status(p, answer)) = ToNormalizedRecord(p, Status(p, answer))
  /\ \A p \in Platforms : rows[p] # None => OldRestored(p, rows[p]) = FromNormalizedRecord(p, rows[p])
=============================================================================
