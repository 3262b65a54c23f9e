------------------------------ MODULE MCRequests ------------------------------
(* The gateway, and, each by itself, the other components that serve requests  *)
(* (limiters, rate limits, settings, batches, caches, the unified OAuth        *)
(* service, retries) and the browser's hooks that make them.  They share no    *)
(* variable and only one of them, the part, moves in a behaviour, so the run   *)
(* explores the sum of their states and not the product.  For the same reason  *)
(* their variables can take the same places v1, v2 ...                         *)
EXTENDS MCToolGateway

\* The parameters of the components: the limiters', the rate limits', the settings',
\* the batches', the invalidation's, the caches', the unified OAuth service's, the
\* retries', the application state's and the browser hooks'.
CONSTANTS
  None,
  MaxAttempts, WindowMs, MaxTime,
  LimitAnswers, LimitRows, LimitCalls, LimitTTL, LimitDay, LimitTime,
  SettingTools, Patches, Flag, SettingFaults,
  BatchTimeouts, DefaultTimeout, BatchLimit, MaxBatch,
  Paths, Rules, Tags, MaxWrites,
  RedisKeys, Ttls, Second, RedisTime, RedisFaults,
  CacheConfigs, Caches,
  OAuthTools, Environments, StateAge, OAuthHour, OAuthLives, MaxStarts, OAuthTime,
  HttpAnswers, Tries, Many, Tenth, HttpRequests, MaxCleanups,
  StateKeys, Values, StateFaults,
  Endpoints, LoginTools, PageRequests, CacheTTL, MaxLogins, LoginTime,
  SessionValues, SessionUpdates, MaxSessions, SessionFaults,
  PageKeys, MaxFetches,
  Polled, PolledPlatforms, Usages, MaxRenders,
  QueryTools, Messages, MaxReports

\* Each platform is a part of its own: their limits are independent.
MCPlatforms == {"github", "gitlab", "jira"}

\* What the rate limit handlers answer: an exhausted limit and a missing one of
\* GitHub's; GitLab and Jira with and without a 429.
Limit(limit, remaining, reset) == [limit |-> limit, remaining |-> remaining, reset |-> reset]
GitHubAnswer(limit, remaining, searches) ==
  [core |-> Limit(limit, remaining, 2), search |-> Limit(2, searches, None)]
Statuses == {[code |-> 200, retry |-> None], [code |-> 429, retry |-> 2]}
MCAnswers == [github |-> {GitHubAnswer(20, 0, 2), GitHubAnswer(None, None, None)},
              gitlab |-> Statuses, jira |-> Statuses]

\* Rows of the table: an exhausted limit, a total of 0 and none.
Row(total, remaining) == [total |-> total, remaining |-> remaining, reset |-> 2, updated |-> 0]
MCRows == {Row(20, 0), Row(0, 0), Row(None, 2)}

MCFlag == [t \in {github} |-> None]
MCPatches == {[enabled |-> TRUE], [enabled |-> FALSE], [refreshInterval |-> 5, notifications |-> FALSE]}

Config(backend, url, fallback) == [backend |-> backend, url |-> url, fallback |-> fallback]
MCConfigs == {Config("hybrid", TRUE, TRUE), Config("redis", FALSE, TRUE), Config("redis", TRUE, FALSE)}

\* A rule whose regular expression fits no key, one without a pattern, and one
\* that works.
Rule(fires, pattern, hits, kin) ==
  [fires |-> fires, pattern |-> pattern, hits |-> hits, related |-> TRUE, kin |-> kin]
MCRules == {Rule({"config", "github"}, "regex", {}, {}), Rule({"config"}, "none", {}, {}),
            Rule({"config"}, "string", {"config"}, {"github"})}

\* A tool whose OAuth addresses are its own and one whose are relative to its web
\* address, which may be missing.
OAuthTool(relative) == [oauth |-> TRUE, enabled |-> TRUE, relative |-> relative]
MCOAuthTools == [github |-> OAuthTool(FALSE), jira |-> OAuthTool(TRUE)]
Has(secrets, webUrl) == [secrets |-> secrets, webUrl |-> webUrl]
MCEnvironments == {[github |-> Has("set", TRUE), jira |-> Has("set", TRUE)],
                   [github |-> Has("placeholder", TRUE), jira |-> Has("set", FALSE)]}

\* Successes with and without a body, refusals with and without a time to wait
\* (1 stands for none and 2 for a date, both negative).
HttpAnswer(status, retry, remaining, reset, keepAlive, size) ==
  [status |-> status, retryAfter |-> 0 - retry, remaining |-> remaining, untilReset |-> reset,
   keepAlive |-> keepAlive, size |-> size]
MCHttpAnswers ==
  [github |-> {HttpAnswer(204, 1, -1, -1, FALSE, "medium"), HttpAnswer(429, 2, -1, -1, FALSE, "medium"),
               HttpAnswer(403, 1, 0, 5, TRUE, "medium")},
   gitlab |-> {HttpAnswer(200, 1, -1, -1, FALSE, "medium"), HttpAnswer(429, 1, -1, -1, FALSE, "medium")},
   jira |-> {HttpAnswer(429, 1, -1, -1, TRUE, "cloud")}]

\* A query that is polled once a minute, a rare one and one of no platform; limits
\* that are used up by 1, 6.5, 0.5 and 10 per cent.
MCPolled == {[platform |-> "github", base |-> 60], [platform |-> "jira", base |-> 36000],
             [platform |-> None, base |-> 5]}
MCUsages == [github |-> {[core |-> 10, search |-> 65, graphql |-> None],
                         [core |-> None, search |-> 5, graphql |-> None]},
             jira |-> {[global |-> 100]}]

\* What a page updates of its session, and the tools of its queries.
MCUpdates == {[preferences |-> 1], [uiState |-> 1]}
MCQueryTools == <<"github", "github", "jira">>

VARIABLES part, v1, v2, v3, v4, v5, v6, v7, v8, v9, v10, v11

Limiters == INSTANCE AuthLimiters WITH
  Clients <- Requests, MaxRequests <- MaxAttempts, time <- v1, entries <- v2,
  requests <- v3, refused <- v4, fixedLog <- v5, slidingLog <- v6

Limits(p) == INSTANCE RateLimits WITH
  Platforms <- {p}, Answers <- LimitAnswers, Calls <- LimitCalls, Stored <- LimitRows,
  TTL <- LimitTTL, Day <- LimitDay, MaxTime <- LimitTime, now <- v1,
  cache <- v2, rows <- v3, calls <- v4, load <- v5

Settings == INSTANCE ToolConfigs WITH
  Tools <- SettingTools, Calls <- Requests, MaxFaults <- SettingFaults,
  rows <- v1, configCache <- v2, registry <- v3, calls <- v4, alone <- v5,
  faults <- v6

Batches == INSTANCE Batching WITH
  Timeouts <- BatchTimeouts, MaxRequests <- BatchLimit, batch <- v1,
  options <- v2, phase <- v3, flight <- v4, settled <- v5, responses <- v6,
  answer <- v7, job <- v8, elapsed <- v9

Redis == INSTANCE RedisCaches WITH
  Keys <- RedisKeys, Calls <- Requests, MaxTime <- RedisTime,
  MaxFaults <- RedisFaults, time <- v1, store <- v2, status <- v3,
  isConnecting <- v4, client <- v5, calls <- v6, faults <- v7

Factory == INSTANCE CacheFactory WITH
  Configs <- CacheConfigs, Calls <- Requests, reachable <- v1, instances <- v2,
  metrics <- v3, made <- v4, creations <- v5, disposal <- v6

Invalidation == INSTANCE CacheInvalidation WITH
  Calls <- Requests, written <- v1, cached <- v2, calls <- v3, raced <- v4

Unified == INSTANCE UnifiedOAuth WITH
  Tools <- OAuthTools, Calls <- Requests, Hour <- OAuthHour,
  Lives <- OAuthLives, MaxTime <- OAuthTime, now <- v1, env <- v2, starts <- v3,
  cookie <- v4, cookies <- v5, tokens <- v6, calls <- v7, gone <- v8

Retries == INSTANCE RetryRequests WITH
  Calls <- Requests, Answers <- HttpAnswers, MaxRequests <- HttpRequests,
  calls <- v1, total <- v2, succeeded <- v3, failed <- v4, opened <- v5,
  adrift <- v6, cleanups <- v7, aged <- v8

State == INSTANCE AppState WITH
  Calls <- Requests, Keys <- StateKeys, MaxFaults <- StateFaults, rows <- v1,
  calls <- v2, last <- v3, faults <- v4

Logins == INSTANCE AuthStatus WITH
  Hooks <- Requests, Tools <- LoginTools, Requests <- PageRequests,
  MaxTime <- LoginTime, now <- v1, logins <- v2, stored <- v3, mounted <- v4,
  cache <- v5, pending <- v6, requests <- v7, shown <- v8, loading <- v9,
  mixed <- v10, back <- v11

Browser == INSTANCE BrowserSessions WITH
  Calls <- Requests, Values <- SessionValues, Updates <- SessionUpdates,
  MaxFaults <- SessionFaults, store <- v1, stored <- v2, session <- v3,
  sessionId <- v4, loading <- v5, initialized <- v6, calls <- v7, nextId <- v8,
  faults <- v9, disturbed <- v10

Pages == INSTANCE PageFetches WITH
  Calls <- Requests, Keys <- PageKeys, policy <- v1, key <- v2, enabled <- v3,
  fetches <- v4, calls <- v5, shown <- v6, error <- v7, loading <- v8,
  overlapped <- v9, stopped <- v10

Polls == INSTANCE PollIntervals WITH
  Platforms <- PolledPlatforms, Answers <- Usages, Calls <- Requests,
  enabled <- v1, calls <- v2, statuses <- v3, loading <- v4, errors <- v5,
  visible <- v6, active <- v7, memo <- v8, renders <- v9, late <- v10

Queries == INSTANCE ToolQueries WITH
  ToolOf <- QueryTools, fetching <- v1, failed <- v2, reported <- v3, sent <- v4

\* The places from the n-th on, and that no part uses them.
Free11 == v11 = None
Free10 == v10 = None /\ Free11
Free9 == v9 = None /\ Free10
Free8 == v8 = None /\ Free9
Free7 == v7 = None /\ Free8
Free6 == v6 = None /\ Free7
Free5 == v5 = None /\ Free6
Free4 == v4 = None /\ Free5
Free3 == v3 = None /\ Free4
Free2 == v2 = None /\ Free3
Free1 == v1 = None /\ Free2
rest1 == <<v1, v2, v3, v4, v5, v6, v7, v8, v9, v10, v11>>
rest5 == <<v5, v6, v7, v8, v9, v10, v11>>
rest6 == <<v6, v7, v8, v9, v10, v11>>
rest7 == <<v7, v8, v9, v10, v11>>
rest8 == <<v8, v9, v10, v11>>
rest9 == <<v9, v10, v11>>
rest10 == <<v10, v11>>
rest11 == <<v11>>
all == <<part, vars, rest1>>

MCInit ==
  /\ Init
  /\ \/ part = "gateway" /\ Free1
     \/ part = "fixed windows" /\ Limiters!Init /\ Free7
     \/ part = "sliding log" /\ Limiters!Init /\ Free7
     \/ \E p \in MCPlatforms : part = p /\ Limits(p)!Init /\ Free6
     \/ part = "settings" /\ Settings!Init /\ Free7
     \/ part = "batches" /\ Batches!Init /\ Free10
     \/ part = "redis" /\ Redis!Init /\ Free8
     \/ part = "factory" /\ Factory!Init /\ Free7
     \/ part = "invalidation" /\ Invalidation!Init /\ Free5
     \/ part = "unified oauth" /\ Unified!Init /\ Free9
     \/ part = "retries" /\ Retries!Init /\ Free9
     \/ part = "app state" /\ State!Init /\ Free5
     \/ part = "auth status" /\ Logins!Init
     \/ part = "session" /\ Browser!Init /\ Free11
     \/ part = "pages" /\ Pages!Init /\ Free11
     \/ part = "polls" /\ Polls!Init /\ Free11
     \/ part = "queries" /\ Queries!Init /\ Free5

\* The bounds of the other parts may end a behaviour, those of the gateway may not.
MCNext ==
  \/ part = "gateway" /\ Next /\ UNCHANGED <<part, rest1>>
  \/ part = "fixed windows" /\ Limiters!Next /\ UNCHANGED <<part, vars, v3, v6, rest7>>
  \/ part = "sliding log" /\ Limiters!Next /\ UNCHANGED <<part, vars, v2, v4, v5, rest7>>
  \/ \E p \in MCPlatforms : part = p /\ Limits(p)!Next /\ UNCHANGED <<part, vars, rest6>>
  \/ part = "settings" /\ Settings!Next /\ UNCHANGED <<part, vars, rest7>>
  \/ part = "batches" /\ Batches!Next /\ UNCHANGED <<part, vars, rest10>>
  \/ part = "redis" /\ Redis!Next /\ UNCHANGED <<part, vars, rest8>>
  \/ part = "factory" /\ Factory!Next /\ UNCHANGED <<part, vars, rest7>>
  \/ part = "invalidation" /\ Invalidation!Next /\ UNCHANGED <<part, vars, rest5>>
  \/ part = "unified oauth" /\ Unified!Next /\ UNCHANGED <<part, vars, rest9>>
  \/ part = "retries" /\ Retries!Next /\ UNCHANGED <<part, vars, rest9>>
  \/ part = "app state" /\ State!Next /\ UNCHANGED <<part, vars, rest5>>
  \/ part = "auth status" /\ Logins!Next /\ UNCHANGED <<part, vars>>
  \/ part = "session" /\ Browser!Next /\ UNCHANGED <<part, vars, rest11>>
  \/ part = "pages" /\ Pages!Next /\ UNCHANGED <<part, vars, rest11>>
  \/ part = "polls" /\ Polls!Next /\ UNCHANGED <<part, vars, rest11>>
  \/ part = "queries" /\ Queries!Next /\ UNCHANGED <<part, vars, rest5>>
  \/ part # "gateway" /\ UNCHANGED all

MCSpec == MCInit /\ [][MCNext]_all
-----------------------------------------------------------------------------
\* The types of every part.
TypesOK ==
  CASE part = "gateway" -> TypeOK
    [] part \in {"fixed windows", "sliding log"} -> Limiters!TypeOK
    [] part \in MCPlatforms -> \A p \in MCPlatforms : part = p => Limits(p)!TypeOK
    [] part = "settings" -> Settings!TypeOK
    [] part = "batches" -> Batches!TypeOK
    [] part = "redis" -> Redis!TypeOK
    [] part = "factory" -> Factory!TypeOK
    [] part = "invalidation" -> Invalidation!TypeOK
    [] part = "unified oauth" -> Unified!TypeOK
    [] part = "retries" -> Retries!TypeOK
    [] part = "app state" -> State!TypeOK
    [] part = "auth status" -> Logins!TypeOK
    [] part = "session" -> Browser!TypeOK
    [] part = "pages" -> Pages!TypeOK
    [] part = "polls" -> Polls!TypeOK
    [] part = "queries" -> Queries!TypeOK

\* The auth limiters admit no more than they say in any window, and refuse no
\* longer than they say (lib/rate-limit-auth.ts, lib/rate-limit/index.ts).
AdmittedPerWindow ==
  part \in {"fixed windows", "sliding log"} =>
    Limiters!AdmittedPerWindow /\ Limiters!RefusedUntilReset

\* A cached status is never older than its time to live allows, a row of the table is
\* restored with the level of its numbers, and the service agrees with the functions
\* it replaces (lib/rate-limit/index.ts).
LimitsAreCurrent ==
  \A p \in MCPlatforms : part = p =>
    /\ Limits(p)!CachedIsRecent
    /\ Limits(p)!RestoredLevelIsTheRows
    /\ Limits(p)!ReplacesTheOldFunctions

\* No overlap of fetches and loads puts an older status over a newer one.
NoOlderStatus == \A p \in MCPlatforms : part = p => Limits(p)!NoOlderStatus

\* No component shows an older login status after a newer one, but where requests
\* were shared or abandoned (app/components/hooks/useAuthStatus.ts).
NoOlderLogin == part = "auth status" => Logins!NoOlderLogin

\* Neither the cached limits nor the login shown go back.
NothingGoesBack == [][NoOlderStatus /\ NoOlderLogin]_all

\* Settings that are answered are those of the table (tool-config-manager.ts), and
\* the enabled tools are those that it enables (app/api/tools/enabled/route.ts).
CachedIsPersisted == part = "settings" => Settings!CachedIsPersisted /\ Settings!ListedAsSaved

\* A save keeps the settings it does not name (lib/tool-config-manager.ts:4).
SettingsPersist == [][part = "settings" => Settings!NoSettingIsLost]_all

\* A batch's answer accounts for its requests (batching-middleware.ts).
BatchIsAccountedFor == part = "batches" => Batches!BatchIsAccountedFor

\* Redis keeps an entry as long as it was asked to, and no ended attempt to
\* connect blocks the next one (redis-cache.ts, redis-client.ts); what the cache
\* factory lists is open until its disposal ends (cache-factory.ts).
CachesLastAsLongAsAsked ==
  /\ part = "redis" => Redis!NeverDroppedEarly /\ Redis!ConnectingMeansConnecting
  /\ part = "factory" => Factory!ListedCachesAreOpen

\* A write leaves no stale answer that an invalidation could have seen
\* (cache-invalidation-middleware.ts).
StaleOnlyAfterARace == part = "invalidation" => Invalidation!StaleOnlyAfterARace

Errors == INSTANCE OAuthErrors
ErrorsKeepTheirMeaning == Errors!ErrorsKeepTheirMeaning

\* The unified OAuth service answers the newest login alone, finds the configurations
\* and errors that the modules it unifies find, and revoked tokens come back only by a
\* login or a refresh that was running (lib/oauth/index.ts).
UnifiedKeepsTheRules ==
  part = "unified oauth" =>
    /\ ErrorsKeepTheirMeaning
    /\ Unified!NewestLoginIsAnswered
    /\ Unified!ConfigurationsAgree
    /\ Unified!OnlyRunningRefreshesRevive

\* Retries are as many as allowed, the longest delays grow, and the pool's counters add
\* up but for requests that were under way when they were scaled down
\* (lib/api-client.ts, lib/connection-pool.ts).
RetriesAddUp ==
  part = "retries" => /\ Retries!GivesUpInTime /\ Retries!BackoffGrows
                      /\ Retries!CountersAddUp /\ Retries!HealthFollowsTheRate

\* What a set of the application state wrote stands, answered or thrown, until another
\* call reaches the row (lib/database/app-state-repository.ts).
SetsStand == part = "app state" => State!SetsStand

\* The page shows the session that is saved (app/components/hooks/useSession.ts).
ShownIsSaved == part = "session" => Browser!ShownIsSaved /\ Browser!LoadingEnds

\* The other hooks show the answer to what was asked last, end their loading, report
\* each error and poll as rarely as the limits demand
\* (useAuthStatus.ts, useDataFetching.ts, useToolQueries.ts, useRateLimit.ts).
HooksFollowTheirRequests ==
  /\ part = "auth status" => Logins!PendingIsInFlight /\ Logins!LoadingEnds
  /\ part = "pages" => Pages!ShownIsTheLastAsked /\ Pages!LoadingEnds
  /\ part = "polls" => Polls!PollsKeepTheLimits /\ Polls!LoadingEnds
  /\ part = "queries" => Queries!ErrorsAreReported
=============================================================================
