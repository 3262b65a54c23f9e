# A verification project for Hyperpage

Hyperpage is a Next.js server (TypeScript, Node) that shows a developer what is
going on in GitHub, GitLab and Jira.  Behind its pages it keeps sessions and
OAuth tokens, calls the tools' APIs through a cache and circuit breakers, queues
jobs that survive restarts, watches rate limits and detects bottlenecks.  This
directory models the parts of it that have state, checks them with TLC on small
instances, and proves the most important properties with TLAPS for all values of
the constants.

One Node process is single-threaded: code between two `await`s runs alone, and
everything else interleaves at the `await`s.  So the unit of all models is **one
action per stretch between two awaits that matter**, and what was read before an
await may be stale after it.  Several processes may share Postgres and Redis, and
a process may be restarted at any point, which loses its memory and the calls in
flight and keeps the tables.

## 1. Inventory

| Component | State | Operations | Interacts with | Hard because | Correct means |
|---|---|---|---|---|---|
| Memory job queue `lib/jobs/memory-job-queue.ts` | map of jobs, priority queue, statistics | enqueue, dequeue, cancel, updateJobStatus, loadPersistedJobs, cleanupOldJobs, clear | job repository | checks before awaits, statistics after them, restart, failing statements | accepted jobs survive; queue = pending jobs; counts are right; a finished job does not run again |
| Priority queue (same file) | array heap, map of priorities | enqueue, dequeue, remove, clear | job queue | removal from the middle of a heap | heap order; behaves as a bag that gives out a highest priority |
| Job repository `lib/database/job-repository.ts`, facade `lib/jobs/postgres-job-queue.ts` | tables jobs and job_history | insert (2 statements), exists, updateStatus (3), loadActiveJobs, cleanup | both queues | no transaction around the statements, a join that multiplies rows | mapping and row agree after any failure |
| Job scheduler `lib/jobs/memory-job-scheduler.ts` | scheduled jobs, timers, intervals | schedule, unschedule, start, stop, executeImmediate, the one-second check | an executor | timers and the check race for the same job; two intervals per bounded job | a job is executed at its time or at the next check; nothing of an unscheduled one starts again, but one interval (documented: one-time execution, which the code does not keep) |
| Pod coordinator `lib/coordination/pod-coordinator.ts` | leader key in Redis, local leadership, timers | election, heartbeat, follow, messages | Redis | leases expire while their owner believes in them; retries pile up | one leader at a time |
| Session manager and store `lib/sessions/` | sessions in Redis or memory | create, get, set, update, delete, extend, list | all auth routes | read-merge-write across awaits; eviction | an update loses no other update |
| OAuth login, disconnect, status `app/api/auth/` | state cookies, session, users, tokens | start, callback, disconnect, status | sessions, token store, provider | eight awaits in one callback; two providers per session | what the session claims is what the store holds |
| OAuth tokens and refresh `lib/oauth-token-store.ts`, `lib/oauth-token-refresh.ts`, `lib/database/oauth-token-repository.ts` | rows of oauth_tokens, the provider's token family | store, get, remove, refresh, cleanup | provider | concurrent refreshes of a rotating token; select-then-insert | a valid token is never dropped |
| Tool gateway `app/api/tools/[tool]/[endpoint]/` | requests in flight | GET, POST | breakers, cache, sessions, tools, compression | stale checks, late answers | breakers work as documented; answers match requests |
| Circuit breakers `tools/validation.ts` | failures, last failure and state per tool | canExecuteRequest, recordRequestSuccess, recordRequestFailure | gateway | reports of concurrent requests in any order | open at the threshold, shut for the timeout |
| Memory cache `lib/cache/memory-cache.ts` | entries with expiry, insertion order | get, set, delete, clear, cleanup | gateway, invalidation | expiry, eviction at the limit | fresh data only, limit kept |
| Advanced and Redis caches, factory `lib/cache/` | entries, access order, adaptive policy; Redis; instances | as above, create | gateway | eviction across awaits; fallback; creation race | limit kept, one instance per key |
| Rate limit service `lib/rate-limit/` | cached status per platform, table | get, persist, load, clear | repository, platforms | cached, persisted and real status drift | a stale status is not reported as fresh |
| Auth limiter `lib/rate-limit-auth.ts` | attempts per client | check | auth routes | window boundaries | fixed windows: fewer than twice the limit in any window; sliding log: at most the limit |
| Batching `lib/api/batching/` | one batch's results | execute in parallel or in order | internal routes, job queue | partial failure, continue-on-error, time limits | one result per request, in order |
| Tool configuration `lib/tool-config-manager.ts`, routes `app/api/tools/` | cache, table, tool registry | save, get, delete, toggle, load, list the enabled tools | repository, registry | three copies changed at three times | copies agree when quiet |
| Application state `lib/database/app-state-repository.ts` | table app_state | get, set, delete | Postgres | update-then-insert on a row count | what a set wrote stands until another call reaches the row |
| Bottleneck detection, performance monitoring `lib/monitoring/` | active and past bottlenecks, metric histories | detect, resolve, query | alerts | one per breach and tick, bounded histories | bounds kept, resolved ones stay so |
| Cache invalidation middleware `lib/api/middleware/` | - | cache, look up, invalidate by pattern | cache | invalidation between read and fill | no stale fill |
| Unified OAuth service `lib/oauth/` | a state cookie per browser, tokens | start, validate, exchange, store, refresh, revoke | providers, token store | a refresh that outlives a revocation; it is to replace code that differs | answers the newest login, finds what the modules it replaces find; only a login or a running refresh brings revoked tokens back |
| HTTP client and connection pool `lib/api-client.ts`, `lib/connection-pool.ts` | attempts of each call; counters of the pool | request with retries, scale the counters down, report health | tools, providers | retries, delays, answers without a body, concurrent scaling | as many attempts as allowed; counters add up until they are scaled down |
| Browser hooks `app/components/hooks/` | what each shows, its cache, its requests in flight, its intervals | mount, fetch, refresh, abort, update, clear, poll | the API routes, localStorage | answers out of order, requests shared or abandoned, stale memos | what is shown answers what was asked last; loading ends |
| IPv4 fetch, compression, configuration, logging, health and metrics endpoints, mappings of the tool integrations, pages | little or none | | | conversions and I/O | |

The hazards these parts are exposed to are listed with their lines in
`PROJECT.json` (`hazards`), with the properties that would catch each.

## 2. Plan

Order: what loses a user's work or shows him someone else's first.

1. **JobQueue** (+ PriorityHeap refining PriorityBag): done.  Proved: all its
   safety properties, and the refinement.
2. **ToolGateway** over **CircuitBreaker** and **MemoryCache**: done.  Proved: all
   its safety properties.
3. **OAuthTokens** (the token rows of a user and provider, with a provider that
   may rotate refresh tokens) and **OAuthLogin** (sessions, callback, disconnect,
   sessions API): done.  Proved: all their safety properties.
4. **Caches and settings**: AdvancedCache, RedisCaches, CacheFactory,
   CacheInvalidation, ToolConfigs, AppState, RateLimits, AuthLimiters: done, as
   independent components side by side.  Proved: all their properties.
5. **Scheduler** and **Coordinator**, timers against checks, leases against
   heartbeats: done, likewise.  Proved: all their properties.
6. **Batching**, **PerformanceDashboard** and **Bottlenecks**, **UnifiedOAuth** over
   **OAuthErrors**, **RetryRequests**, and the browser hooks (**AuthStatus**,
   **BrowserSessions**, **PageFetches**, **PollIntervals**, **ToolQueries**): done,
   likewise.  Proved: all their properties.

The components of 4 to 6 share no variables, so two runs explore them side by
side: a variable `part`, chosen in the initial state, says which one moves, and
the states are their sum, not their product.

7. Left to prove: nothing but `BatchEnds`, a liveness property, which the provers
   cannot reach.
8. Left to model: the memory session store's eviction by itself, the messages
   between pods once a handler does more than log, and the hooks' composition with
   the routes they call (AuthStatus over OAuthLogin).

Abstract specifications: PriorityBag for the heap (done), a bounded map for the
caches (left).

## 3. Modules

### JobQueue
`rows`, `nextPk`, `history` are the tables `jobs` and `job_history` (`nextPk` the
bigserial sequence); `objs`, `jobs`, `queue`, `stats` are the fields of
`MemoryJobQueue`, with object references as indices into `objs`, because the map
and the heap share objects; `held` is what workers were handed; `call` is the
async call each caller is in, with the statement it will execute next.
`accepted` is a history variable: ids whose `enqueue` has returned.

`EnqueueStart`, `CheckExists`, `InsertRow`, `InsertMapping`, `Admit` are the five
stretches of `enqueue`; `UpdateStart`, `Resolve`, `UpdateRow`, `AppendHistory`,
`Account` those of `updateJobStatus`; `Dequeue`, `Cancel`, `Clear` await nothing.
`PostgresJobQueue` reaches the same statements without the memory
(`FacadeEnqueueStart`, `FacadeUpdateStart`).  `LoadPersistedJobs` is one action:
it changes nothing before its only await and runs before calls are served.
`DbFailure` is a statement that fails, or whose reply is lost: it may come before
or after the statement's own action.  `Restart` drops memory and calls.

No file of the repository but the tests calls `dequeue` and `updateJobStatus`, so
what callers do is a constant: `WorkersDequeueFirst` says that a status is only
reported by a worker that was handed the job.  Validation of a job's fields and
the average execution time are left out; a job is its id, priority and status.

### PriorityHeap, PriorityBag
The array heap (`BubbleUp` and `SinkDown` as recursive functions of an array with one
of its positions) and its priority map; `PriorityBag` is what JobQueue uses: some entry of the
highest priority.  `RefinesBag` states that the heap implements it.

### ToolGateway, CircuitBreaker, MemoryCache
`ToolGateway` is `executeHandler`: `call` holds, per concurrent request, the
stretch it is in (`pc`), what it asks, whether the cache is bypassed, when the
breaker let it in (`since`) and the reply.  `Start` is the check of the breaker,
`ValidateSession` the await of the session (tools with an API configuration skip
it), `Lookup` the cache, `Dispatch` the look-up of the handler, `HandlerReturns`
and `Throws` its end, `Compress` the reply.  What is asked (`Inputs`) is tool,
endpoint, query and body together; `KeyOf` is `generateCacheKey`, a constant
function that need not tell inputs apart: it leaves out a POST's body, and
`Object.fromEntries` drops all but the last value of a query parameter that is given
twice.  In the instance two of the four inputs share a key.  `CircuitBreaker` and `MemoryCache` are
the modules the gateway imports by `INSTANCE`, sharing its clock.

A Map iterates its keys in the order of their insertion; `KeyOrders` has the order
as a sequence, and what is left of it when keys are deleted, for both memory caches.
The cache modelled is the memory backend, the one in use without `REDIS_URL`.
The real threshold of 3 and timeout of 60 s are the constants `Threshold` and
`Timeout`; a removed breaker is one with no failures.

### OAuthTokens
`rows` are the rows of `oauth_tokens` for one user and one provider, as values
(refresh token, expiry, refresh deadline).  There is no unique index on user and
provider, so there may be several; all statements but the cleanup address all of
them, and equal rows cannot be told apart by the code, so a set loses nothing.
`rotates`, `issued` and `live` are the provider, which is external: whether it ends
a refresh token when it is used, how many grants it has made, and which refresh
tokens it honours.  When its tokens end by its own clock is not modelled: the code
never learns it, but reckons an expiry (`Expiry`) from its clock when it has the
answer, which is after the grant.  The other variables are the locals of the calls:
where each waits (`pc`), what it is (`mode`), the row it read, the tokens it will
store, what its SELECT returned, and, for the properties, the token it spent and
whether it has stored.

`LoginIsGranted` is the provider's grant at the exchange of the code, `LoginStores`
where the callback, with the profile fetched and the user saved, reads its clock and
enters `storeTokens`; `LoginFails` is an error between the two.  `EnsureAnswers` and
`EnsureRefreshes` are `ensureValidTokens` up to its first request; in
`performTokenRefresh` the provider grants (`ProviderGrants`) and the answer arrives
later (`AnswerArrives`, where the clock is read) or never (`AnswerIsLost`), or it
refuses or fails (`ProviderRefuses`, `ProviderFails`); `StoreSelects`, `StoreUpdates`, `StoreInserts` and
`ExpiryWrites` are the statements of `storeTokens` and `updateTokenExpiry` (whose
own SELECT only carries metadata over), `StoreFails` a failure of any of them.
`GivesUp` is what follows a null: an expired pair's rows are removed
(`RemoveTokens`, `RemoveFails`), other tokens stay.  `Disconnect`,
`CleanupExpiredTokens` and `Tick` are the rest.  `refreshExpiredTokens` calls
`ensureValidTokens` for one pair after another, so it adds nothing here.
`IsAuthenticated` is what the provider's status route answers of the rows.

### OAuthLogin
`sessions` is the store of `SessionManager`, Redis or memory; `tokens` the
providers with token rows (whose details are OAuthTokens'), `granted` those that
ever had some; `state` and `cookie` what the browser holds.  Each request keeps
the session it read (`snap`) and what `updateSession` read to merge into (`merge`).
The callback is `CallbackBegins` (state check, session read or created),
`Exchange`, `StoreTokens`, `Reread`, then `UpdateReads` and `UpdateWrites`, then
`LoginResponds`; `LoginFails` is any error before the session update.  Disconnect
is `DisconnectBegins`, `DisconnectRemoves`, and the same update; `Merged` says what
these two put over the session they read.  The sessions API takes its client's body as
it is: a PATCH (`PatchBegins`) and a POST of updates (`PostBegins`) spread it over the
session they read (`BodyWrites`, `Put`), a POST of session data stores it, under a new
id too (`PostSaves`), and userId, user and authenticatedTools may be among its fields
(`Bodies`, with `Kept` for a field it leaves out).  `claimed`, a history variable, says
what a session was given in this way, so that the properties can tell what the routes
wrote from what a client wrote.  A GET creates a session and sets no cookie
(`CreateSession`); a DELETE is `DeleteBegins` and `DeleteRuns`.  `Vanish` is the loss of a
session by its TTL or by the memory store's eviction.  `AuthStatus` and
`ProviderStatus` are what the two status routes answer of a session.

One person has one account per provider here, so that `userId`, "provider:id", is
named by the provider.  The columns `users.id` and `oauth_tokens.user_id` are of
type uuid (`lib/database/pg-schema.ts`), which such an id is not; the models take
the statements as the code means them.

`MCOAuth` runs both side by side: `part` says which of the two moves.

### RateLimits, AuthLimiters
`RateLimits` is the unified service: `cache`, the table `rows`, what each call
waits for, and a `load` of the rows that has read and not yet applied.  `Asks`,
`Answered`, `Upsert` are the stretches of `getRateLimitStatus` and
`refreshPlatformLimits`, `LoadReads` and `LoadApplies` those of
`loadPersistedRateLimits`.  What a row keeps of a status and what is made of it
again are `ToNormalizedRecord` and `FromNormalizedRecord`; the functions of
`rate-limit-service.ts` and `rate-limit-monitor.ts` that the service is to replace
stand beside its own as `Old...`.  The statement of `Upsert` is rejected in every
case: it names a conflict on `key`, which has no unique index, and leaves columns
empty that are NOT NULL; the code catches the error and goes on.  So the rows a load
finds are any that were in the table before.  A resource that GitHub's answer lacks is
undefined and not null, and counts as 0 per cent used.  `AuthLimiters` has the fixed windows of
`rate-limit-auth.ts` and the sliding log of the unified service.

### ToolConfigs, AppState
`ToolConfigs` keeps the three copies of a tool's settings: `rows`, `configCache`,
`registry`.  A call sends a statement (`Post`, `Toggle`, `Get`, `Delete`, `Load`), the
statement `Runs` or `Fails`, and the call goes on (`SaveReturns` and so on).
`Merged` and `ToSave` are how a partial request becomes a full row; `EnabledTools`
is the list of `app/api/tools/enabled`.  `AppState` is `setState`: an update
(`Updates`), and, as the driver reports no `rowsAffected`, always an insert after it
(`Inserts`), which throws if the row is there; `last` keeps whose statement reached a
row last.

### Batching
One batch and its requests, by index: `Execute` validates and starts all of them or
the first, `Responds` and `TimesOut` end one, `Lists` makes the list of responses,
`Record` is the job the route keeps of it.  `MCBatching` adds the fairness of timers.

### AdvancedCache, RedisCaches, CacheFactory, CacheInvalidation
`AdvancedCache` splits `set` at its awaits (`SetBegins`, `SetCleansUp`, `SetEnforces`,
`SetStores`) and keeps the Map, its order and the order of use, under each eviction
policy.  `RedisCaches` has Redis, the connection as ioredis opens, loses and
reopens it (external), and the commands in flight, which may run twice or never.
`CacheFactory` has its instances and the state of each cache made.
`CacheInvalidation` counts the writes of a path, so that an answer is the number of
writes it has seen; a rule is what fires it and which keys it selects.

### Scheduler, Coordinator
`Scheduler` counts time in checks of a second and lets a timer that is due fire
before time goes on; each job object has a timer, an interval and, when bounded, a
second interval that counts.  `Coordinator` has the key in Redis and, for each pod,
its role, timers and commands in flight; an armed timer may fire at any time and a
lease may lapse at any time, which covers every stall.

### PerformanceDashboard, Bottlenecks
Requests are recorded in bursts, so that the code's own numbers (10,000 snapshots,
thresholds in requests) stay what they are.  A metric is a fraction; percentiles,
alerts, their deduplication and their limit follow the code; `Snapshot` is what the
requests kept come to.  `Bottlenecks` extends it
with the nine patterns, the detection loop, and the routes: `Patch` resolves,
`Analysis` is the report.  The routes that delete a bottleneck or execute an action
change nothing and are left out.

### UnifiedOAuth, OAuthErrors
The service for one user and browser next to the modules it consolidates:
configuration, state cookie, exchange, store, refresh, revocation.  `OAuthErrors` is
the classification of a provider's refusal by both.

### RetryRequests
`makeRetryRequest` with and without the pool: `Begin`, `Answered` or `AttemptFails`,
`Wakes` after a delay, `Over`.  The rules of GitHub, GitLab and Jira are operators;
delays are values, not time.  The pool's counters are changed by every attempt and
scaled down by `CleanupMetrics`.

### AuthStatus, BrowserSessions, PageFetches, PollIntervals, ToolQueries
The hooks.  A component's request and the arrival of its answer are two actions, so
answers come in any order.  `AuthStatus` has the components of one page, the pending
requests they share, each one's cache and localStorage; a login status is the number
of changes of the user's logins.  `BrowserSessions` joins `useSession` with the
sessions API and its store, statement by statement.  `PageFetches` is the hooks that
show one answer, under the policies "data", "limit" and "list".  `PollIntervals` is
how intervals follow the limits, with the map that is changed in place.  `ToolQueries`
takes React Query as external and keeps what is loading, failed and reported.

`MCRequests` extends `MCToolGateway` and `MCBackground` extends `MCPriorityHeap`; the
modules above are instances in them whose variables share the places `v1`, `v2` ...
The parameters of the parts that are proved about are constants of these modules too,
with values in the .cfg only, so that a theorem about `MCSpec` speaks of all values.

## 4. Runs

| Run | Instance | Shows |
|---|---|---|
| `job_queue_worker` | 2 callers, an id each, 2 priorities, one restart | PendingIffQueued, RunningCount, FinishedIsPersisted, CancelSticks |
| `job_queue_failures` | 1 caller, facade on another id, failing statements, failing recovery, clear, cleanup | TypeOK, PendingCount, AcceptedIsDurable, RecoveryComplete |
| `oauth` | tokens: 3 calls, up to 2 of them logins, 3 grants, one failure, clock to 3, a provider of either kind; sessions: 3 requests, 2 providers, 2 sessions, one failure, clients' bodies that name accounts and tools | TypeOK, SpentTokensLeaveTheTable, RemovesOnlyWhatItCouldNotRefresh, ExpiriesAreReckoned; LoginTypeOK, ListedToolsWereGranted (with UserIsListed and StatusesAgree) |
| `requests` | nineteen parts, see below | the gateway's OpenAtThreshold, WithinLimit, AnswersItsKey, HitsAreGood, OpenStaysShut, and the properties of the other parts |
| `background` | six parts, see below | RefinesBag of the heap, and the properties of the other parts |
| `batch_ends` | one batch of up to 3 requests, own timeouts 1 or 3, default 2, fairness | BatchEnds: a batch ends though no handler ever answers |
| `oauth_never_refreshed` | as `oauth`, logins without a refresh deadline | violates RemovesOnlyAfterARefusal (finding) |
| `oauth_patch` | as `oauth` | violates PatchKeepsTheLogin (finding) |
| `job_queue_recovered_twice` | 1 id, a job reported failed | violates RecoveredOnce (finding) |
| `tool_gateway_post` | the gateway with two inputs under one key | violates AnswersItsRequest (finding) |
| `scheduler_runs_twice` | the scheduler as in `background` | violates ExecutedOneTime (finding) |
| `tool_config_lost` | the settings as in `requests` | violates SettingsPersist (finding) |

The parts of `requests`:

| Part | Instance | Property: what it shows |
|---|---|---|
| gateway | 2 requests, 2 tools, 4 inputs of which two share a key, cache of 1, threshold 2, clock to 2 | the five above |
| fixed windows, sliding log | 2 clients, 2 requests per window of 2, clock to 5 | AdmittedPerWindow: the log admits no more than it says in any window, the fixed windows fewer than twice as many; a refusal lasts no longer than it said |
| github, gitlab, jira | 2 calls, a load beside them, time to live 1, clock to 3 | LimitsAreCurrent: a row is restored with the level its numbers had, the service agrees with the functions it replaces, what is served is recent; NothingGoesBack: no older status over a newer one |
| settings | 2 calls, 1 tool, 3 patches, 2 faults | CachedIsPersisted: what is answered without overlap is what the table holds, whatever fails or restarts; until then the list of enabled tools is the table's |
| batches | up to 3 requests with 2 allowed | BatchIsAccountedFor: one response per request, in order, counted once, in time |
| redis, factory | 2 calls, 1 key, 1 fault; 3 configurations, 3 caches | CachesLastAsLongAsAsked: no entry is dropped early, no flag blocks connecting; a listed cache is open and shared by no other configuration |
| invalidation | 2 calls, 2 paths, 3 rules, 2 writes | StaleOnlyAfterARace: what is stale was stored after its write |
| unified oauth | 2 calls, 2 tools, 2 logins | UnifiedKeepsTheRules: the newest login is answered and no other, configuration and errors as in the old modules; revoked tokens come back only by a login or a refresh that was running |
| retries | 2 calls, 3 requests, 1 scaling of the counters | RetriesAddUp: as many attempts as allowed, longest delays that grow, counters and health up to a scaling |
| app state | 2 calls, 1 key, 2 values, 1 fault | SetsStand: what a set wrote stands, though it threw, until another call reaches the row |
| session | 2 calls, 2 sessions, 1 fault | ShownIsSaved: the page shows what is stored; loading ends |
| auth status | 2 components, 2 requests, 1 login, time to live 1 | HooksFollowTheirRequests (pending is in flight, loading ends), NothingGoesBack |
| pages | 2 calls, 2 addresses, 4 requests | HooksFollowTheirRequests: the answer shown is to the last request |
| polls | 2 calls, 3 queries, 3 renders | HooksFollowTheirRequests: intervals keep the limits |
| queries | 3 queries of 2 tools | HooksFollowTheirRequests: errors are reported once while they last |

The parts of `background`:

| Part | Instance | Property: what it shows |
|---|---|---|
| heap | 6 entries, 2 priorities | TypesOK (HeapOrder, HasMatchesHeap), RefinesBag |
| scheduler | 2 jobs, clock to 4, timers to 2 | JobsRunOnTime: started at the time or at the next check, bounded recurrences counted to their end; CancelledJobsStayQuiet |
| coordinator | 2 pods, 2 faults, until a lease lapses | LeadersHoldTheKey |
| alerts | 3 kinds of requests, 3 alerts kept | AlarmsAreDistinct: no two active alerts of one kind |
| bottlenecks | 2 loads, 2 detections | AlarmsAreDistinct: each bottleneck is counted once, while it is active and after it was resolved |
| memory | 3 keys, 2 sets at a time, limit 1, every policy | WithinConcurrency: how far overlapping sets pass the limit |

**Bounds.**  `MaxRows`, `MaxHistory`, `MaxObjs`, `MaxRestarts` cap the tables, the
objects of one process life and the restarts; `Cancel` is capped by `MaxObjs`
because cancelling a job again counts again.  Two rows and two callers are enough
for every pair of interleaved calls, and one restart for every crash point; the
heap needs six entries for a removal whose replacement must rise.  The gateway
needs two requests (one late, one fresh), inputs of one tool with the same key and
with another, and a cache of
one entry for evictions; at clock 2 a timeout of 1 has passed and entries have
expired.  A request that was answered may be started again, so requests are as
many as the breakers and the clock tell apart.

Three calls on one token table are a login and two refreshes of its row, or two
logins and a refresh between them: the cases in which rows double, a refresh is
refused, or a late statement meets newer tokens.  The lives are chosen so that an
access token expires and is due for an early refresh within the clock, a deadline
may pass before or after it, and both may have passed for the cleanup.

In the other parts two calls at once are again every pair that can overlap, and the
limits (requests per window, entries of a cache, attempts) are small enough to be
reached and passed.  Clocks run at least to the end of the shortest life.  Platforms and tools
that share nothing are run one at a time.  `MaxTimers` and `Calls` are 1 in
`coordinator`: retries that pile up are told apart only by their number.  A lease that
lapsed ends that part, since LeadersHoldTheKey promises nothing after it.

**Deadlock** is not checked in the job runs, where the bounds on the tables stop
the system, nor in the OAuth runs, where each call is made once, nor in
`batch_ends`, where a batch that was answered is over.  In `requests` and
`background` it is checked for the gateway and the heap; the bounds of the other
parts may end a behaviour, so they may stutter.

**Fairness.**  Only `batch_ends` assumes any: that time goes on (WF on `Tick`) and that
a timer that is due fires (WF on `TimesOut` of each request).  Node's event loop gives
both, as `AbortSignal.timeout` is such a timer.  Nothing is assumed of the handlers a
batch calls, which may never answer, nor of the job that records it.  No run states
that accepted jobs end: nothing in the runtime takes them from the queue or reports
their end, so there is no fairness the code would justify.

### What holds only under conditions
- With ids chosen by two callers at once (`Owns <- SharedIds` in
  `MCJobQueue`), both pass both checks of `enqueue` and `QueuedIsCurrent`, a part of
  `PendingIffQueued`, fails: the map keeps one of two queued objects.
  `generateJobId` makes ids unique, so the runs give each caller its own.
- Without `WorkersDequeueFirst` an update of a job that is still queued leaves it
  in the heap under its new status, and `PendingIffQueued` fails.
- A job reported "running" is not queued again by a restart.
- `AnswersItsRequest`, that an answer is the one asked for, would need keys that tell
  inputs apart; run `tool_gateway_post` refutes it.  What holds is `AnswersItsKey`: a hit
  was fetched for an input of the same key.
- The refreshes of run `oauth` start from callers of `storeTokens` that pass a
  refresh deadline, as the token store's interface allows
  (`LoginRefreshLives = {1, 3}`).  The callback, the only caller today, passes
  none: see finding 3.
- `RemovesOnlyWhatItCouldNotRefresh` speaks of the tokens a call has read.  With a
  provider that rotates, the loser of two concurrent refreshes does remove the
  winner's new tokens.  And any failed request, a lost connection too, lets an
  expired pair's rows be removed, which is why `faulted` calls are excepted.
- `ExpiriesAreReckoned` says of any provider and logins that an expiry in the table is
  one that a call reckoned.  That it is no later than the one reckoned for the row's own
  tokens needs a rotating provider, which makes refreshes follow one another, and one
  login at most.  It bounds nothing by the provider's clock: the code adds `expires_in`
  to the time it has the answer, so a row may be called valid for that long after its
  token ended.
- A second provider's login takes the session's `userId` over, and a disconnect
  leaves the provider in `authenticatedTools`: the session then lists tools whose
  tokens cannot be reached or are gone.  `ListedToolsWereGranted` therefore speaks of
  the past; and it excepts the tools that a client's own body put into that session,
  as `UserIsListed` and `StatusesAgree` except sessions whose login a body touched
  (`claimed`): `app/api/sessions/route.ts:140` and `:192` take every field.
- `CachedIsPersisted` speaks of requests that did not overlap: of two saves at once
  the cache keeps one and the row the other.  And
  `app/api/tools/enabled/route.ts:40` calls the table the source of truth, which a
  restart ends: the registry starts with nothing enabled and nothing loads the rows.
- `LeadersHoldTheKey` holds until a lease lapses: a heartbeat then writes over the
  next leader's key.
- `WithinConcurrency` excepts the policy `ttl_only`, which enforces no limit, and an
  eviction by a use that is not tracked.
- `StaleOnlyAfterARace` speaks of paths whose own key a working rule deletes; the
  default rules delete nothing.
- `JobsRunOnTime` says nothing of how often: the check does not clear the timer, nor the
  timer's callback the map, so a job with a time may be started by both (finding 5).
- `NothingGoesBack` excepts pages where a login request was abandoned or shared;
  `ShownIsSaved` excepts calls that overlapped, `ShownIsTheLastAsked` the hooks
  without abort.
- `CountersAddUp` allows counters that were scaled down while requests were under way to
  be off by as many: the rate of successes may then exceed the 1.0 of
  `lib/connection-pool.ts:41`.  `HealthFollowsTheRate` counts requests under way as lost, as
  `getHealth` does, and speaks of the time before a scaling.
- `OnlyRunningRefreshesRevive` excepts what its name says: a refresh that was running when
  the tokens were revoked stores what it gets (`lib/oauth/index.ts:813`).
- `NewestLoginIsAnswered` leaves the state parameter apart: the unified callback never
  compares it with the cookie, as the older module does
  (`lib/oauth-state-cookies.ts:121`).

### Seen while modelling, in no run
Divergences that a run could show, but where the run would be of one statement or one
value and no order of events:
- `cancel` changes the memory only (`lib/jobs/memory-job-queue.ts:283`), so the row stays
  pending and a restart would queue the job again, against the persistence of line 5.
- The upsert of a rate limit is always rejected (`lib/database/pg-schema.ts:114`, `:122`,
  `rate-limit-repository.ts:73`), against `lib/rate-limit/index.ts:604`.
- A second `setState` of a key updates the row and then throws at its insert, against
  `app-state-repository.postgres.test.ts:228`, whose mock reports a row count.
- Six of the nine bottleneck patterns never fire: some of their conditions never hold,
  or never together.  No automated action is executed, and a DELETE finds no resolved
  bottleneck, against `bottleneck-patterns.ts:3`, `docs/monitoring.md` and the detector's
  tests (lines 174, 189 and 826).  The lemma `DetectedAreFiring` proves the first.
- `app/components/hooks/useToolQueries.ts:267` says that every query has its own loading
  state; the index is taken among the tool's own queries, so the queries of later tools
  show the states of the first tool's.

And besides:
- Several components have no caller in the runtime: `initializeDatabase`, the
  coordinator, the advanced cache, the unified rate limit and OAuth services, the
  invalidation middleware, `loadPersistedJobs`.
- The coordinator asks the cache for `getClient`, which no cache of the factory has.
- A login status may be up to 90 s old: `/api/auth/status` may be cached by
  the browser (`max-age=30, stale-while-revalidate=60`).
- The rate-limit headers are deleted from an answer after it was cached
  (`shared.ts:364`), the object being the same.
- A pooled answer with status 204, 205 or 304 throws in `new Response` and is retried.
- `maxExecutionTime` of a batch is never read; a rejected batch is recorded as a
  completed job.
- The hooks ask `/api/auth/<tool>/status`, `/disconnect` and `/api/auth/logout`, which
  have no route.
- A standing warning is renewed instead of raised to critical; an idle system detects
  low compression at every run.

### Findings
1. `loadActiveJobs` returns a job once per history row (run
   `job_queue_recovered_twice`), against the comment at
   `lib/database/job-repository.ts:174`.
2. The cache key of a tool request leaves out the body, and all but the last value of a
   query parameter given twice (run `tool_gateway_post`), so a POST for other issues is
   answered with the first one's data.
3. Tokens of a login are removed at their first expiry and never refreshed (run
   `oauth_never_refreshed`): the callback stores no refresh deadline
   (`app/api/auth/oauth/[provider]/route.ts:370`), and `isRefreshExpired` takes an
   absent one for a passed one, against the comments at
   `lib/oauth-token-refresh.ts:7` and `:51`.
4. A PATCH of a session's preferences writes back the user and tools it read (run
   `oauth_patch`), against `app/api/sessions/route.ts:169`.
5. A job with a time is executed twice (run `scheduler_runs_twice`): its timer fires and
   leaves it in the map, where the check finds it due, or the check takes it and leaves
   its timer (`lib/jobs/memory-job-scheduler.ts:256`), against "one-time execution" at
   line 251.
6. After a restart a save of one setting resets the others (run `tool_config_lost`):
   `lib/tool-config-manager.ts:79` merges into the cache or the defaults, never into
   the row, against the comment at `lib/tool-config-manager.ts:4`.

## 5. Proofs

Where a property holds only for some callers or constants, the theorem says so in a
named hypothesis, `ASSUME Hypothesis PROVE Spec => ...`, and the run that checks the
property has such constants.

### JobQueue_proofs (constants with `ConstAssumption`)
- `TypeCorrect`: `Spec => []TypeOK`.  TypeOK alone is not inductive: a call
  writes to the tables what it carries, so `TypeInv` adds that its id, priority
  and primary key are there by the time they are used, and that a starting
  process holds no work.
- `AcceptedJobsAreDurable`.  The invariant `DurableInv` adds that each object in
  memory, current or not, and each call past its second insert has a mapping.
  Recovered objects with an external id come from history rows (lemma
  `RecoveredJob`), and history rows are never removed, which carries the argument
  through restarts and cleanup.
- `PendingIsCounted`, under `QueueDiscipline`: a status is reported only of a job that
  was dequeued, nothing is reported pending, and callers own their ids.  `QueueInv`:
  the pending objects are the queued ones, no update in flight is from or to
  pending, what a worker holds is not queued, and an enqueue in flight is for an id
  the map does not know; then each stretch changes count and queue together.
- `PendingMeansQueued`, with `OnlyWriter` (no facade writes the same ids).  It needs
  the tables: `StoreInv` says that ids and primary keys match one to one, that only
  an update gives a row a second history row, and so that a pending row is recovered
  once and the object queued is the one its id leads to.
- `CancelledJobsStay`, under both hypotheses: a cancelled job is in no worker's
  hands and in no update, so no statement in flight can name it.
- `RecoveryIsComplete` has no hypothesis on callers or failures; it is a fact about the
  one action, and the types.
- `RunningIsCounted`, under `QueueDiscipline` and `NothingUncounted` (no statement fails, nobody clears):
  a failed statement ends the update that was to count its job, and clear() leaves
  updates in flight that count jobs that are gone.  The proof counts: the updates
  from running and to running are what separates the statistics from the objects.
- `FinishedJobsArePersisted`, under all these and `ReportsAreFinal` (no report of running): a job is
  then in one update at a time (`OneUpdate`), and a finished one is in the store or
  on its way there (`FinishedIsWritten`).

### ToolGateway_proofs (constants with `GatewayAssumption`)
From one invariant, `GatewayInv`: the breakers' types and OpenAtThreshold; requests in flight
have no reply and started no later than now; what is cached is data that expires its
time to live after it came; and `InFlightIsEarlier`, that a request in flight for a
shut tool was let in before the last failure.  Then
- `BreakersOpenAtThreshold`, `OpenBreakersStayShut`, `HitsAreGoodAlways`,
  `GatewayTypeOK`;
- `AnswersMatchTheKey`, with the further invariant `EntriesMatch`: an entry is filed under
  its own input's key.  Nothing is assumed of the keys; run `tool_gateway_post` shows
  that no more than this holds.
- `WithinLimitAlways`.  The limit alone is not inductive: the entry that goes is the
  head of the order, so an order that names a key the Map does not hold would make no
  room.  `OrderInv` says that it lists the keys held, each once.

`KeyOrders_proofs` has the lemmas about such orders: what is left of a list without
some keys lists the rest, each once (`WithoutDoes`), a list of distinct keys is as long
as they are many (`DistinctLen`), appending a new one keeps them distinct; and a set of
places that holds every place before one it holds is a first piece (`FirstPiece`).  It
also has what the provers need of recursion.  Their library's induction theorems cannot
be instantiated, so sets stand for predicates: a set of numbers that holds any number
whose predecessors it holds is all of them (`LeastElement`), a function whose equation
calls itself last, on something smaller, exists (`TailRecursion`), and so do the folds
of the community modules (`FoldExists`), which keep what each step keeps (`FoldStays`)
and, for a sum, do not depend on the order (`Summing`).

### OAuth_proofs (constants with `OAuthAssumption`)
Of the tokens:
- `SpentTokensLeaveTheTableAlways`, from `TokenInv`.  The property alone is not
  inductive: a store may write any tokens a call carries.  `PendingIsFresh` says
  that a token on its way to the table is honoured and, under rotation, in no row
  and no other call; `SpentIsDead` that an exchanged one is not honoured again;
  `AllKnown` that the next grant is none of those about; `NothingDies` covers
  providers that do not rotate.
- `RemovesOnlyWhatItCouldNotRefreshAlways`, with the further invariant
  `RemovalIsDue`: what could not be refreshed stays so until it is removed, and its
  status route no longer calls it authenticated.
- `ExpiriesAreReckonedAlways`, from `GrantInv`.  For any provider, an expiry in the rows is
  one that a call which stored has reckoned (`RowsAreReckoned`).  A late
  `updateTokenExpiry` writes its own to whatever rows it finds, so for the second part
  the grants must be ordered.  Under rotation each refresh token is one call's
  (`TokensAreOwn`); with one login besides (`OneLine`) only the last is honoured
  (`LastIsLive`), so a call still to write finds its own grant or a later one
  (`RowsAreNewer`), and a later grant was reckoned no earlier (`LaterEndsLater`), which
  keeps each row within the reckoning of its own tokens (`RowsKeepTheirReckoning`).
- `TokensTypeOK`.

Of the logins: `UserIsListedAlways`, `ListedToolsWereGrantedAlways`, `StatusesAgreeAlways` and
`LoginTypeOKAlways` of the login by itself, from `LoginInv`: not only the sessions but
everything a request has read and may write back is sound (`Carried`), and a login past
its store has been granted.  Sound is said of a session with what its own clients put
into it: each tool was granted or claimed there, and only where nobody claimed a login
do user and tools agree.  `ComposedSessionsAreSound` and `ComposedTypeOK` carry them to
`MCOAuth`, where the tokens' steps leave the login's variables alone.

The proofs that follow go the same way.  Each module extends the MC module whose part
it is about; a component is first an instance there by itself (`...Always`), then the
part of `MCSpec` that the run checks (`...Composed`): from an initial state of that part
its own steps are the only ones that change its places.

### Services_proofs
- `CachedIsPersistedComposed` and `ListedAsSavedAlways` (`NoneIsNothing`: null is neither
  TRUE nor a configuration), from `ConfigInv`.  Neither property is inductive, as each is
  about the moments when no statement has run without returning.  `OneAtATime` says that
  while `alone` holds at most one request is under way; `RunKnowsTheRow` that it carries
  the row it wrote or read; `CacheFollows` and `RegistryFollows` that cache and registry
  agree with the table but for the tool whose row that request has written, which it is
  about to put into both.
- `LimitsAreCurrentComposed` (`LimitsGiven`: numbers for the lives, and for the limits
  and remainders in answers that have them; rows whose remainder is there and whose total
  may be missing).  `LimitsInv` follows what a call was answered and what a load has read
  until it is stored: an entry expires no later than its time to live after its fetch, or
  a day and that time after a restored row was written (`EntriesAreRecent`), and a limit
  is known together with what remains of it (`Paired`), from which the restored level is
  computed.  That the older functions answer alike is compared case by case.
- `NothingGoesBackComposed` (also `LoginsGiven`, `StatusNone`).  For the limits by
  `LimitsInv`: a load leaves what is newer alone.  For the logins by `ForwardInv` of
  Hooks_proofs: in a page where no request was shared or abandoned each request is
  awaited by who asked and is the pending one of its address, and every answer and every
  cache holds a status that is past but no older than what the component shows.
- `UnifiedKeepsTheRulesComposed` (`UnifiedGiven`: the configuration's flags are flags, and
  null is not a record or a number).  `CookiesMatch`: the one cookie of the service is that
  of the last login, which has its own cookie of the older module too, and no two tools
  hold the same state.  `GoneStaysGone`: what was revoked has no tokens until a login or
  one of the refreshes that were running then ends, and the refreshes running now are
  among these.  Configurations and errors do not depend on the calls and are compared
  case by case.
- `RetriesAddUpComposed` (`HttpGiven`: the three tools with retry rules, numbers in the
  answers' headers; `PowersDouble`: a power of two is twice the one before, which the
  provers do not know of `^`).  `IsHttpCall` ties how often a call was tried to how often it failed, so
  that it gives up in time; `HttpCounts` adds the requests under way to those that ended,
  up to the number of requests that scalings met under way (`adrift`; lemma `ScaledDown`:
  rounding down keeps the parts within the whole and that number).

- For `TypesOKComposed`, of Requests_proofs, the module carries the types of its four
  services.  They need what the hypotheses above leave out: `SettingsGiven` (patches set
  fields to values of theirs), `LimitsSane` (null is no status), `TokensGiven` (the lives
  of tokens are numbers); and the invariants, since a call writes what it carries.

### Requests_proofs
- `SetsStandComposed` (`StateNone`: null is neither a value, a call nor a record).  Not
  inductive: a set that found no row has not written yet.  `LastOK` says that the row holds
  the value of the last to reach it, or is still to be inserted by that very call, which
  carries the value.
- `StaleOnlyAfterARaceComposed` (null is neither an answer nor a request).  The
  property is inductive with the types: an answer becomes stale by a write, which is
  then on its way; only its own invalidation ends that, and a covered path is among
  what it drops (lemma `CoveredIsDropped`), other rules that throw or match nothing
  included.
- `AdmittedPerWindowComposed` (numbers for the limit, the window and the clock).  A
  window may start anywhere, so the bound is not about the log as it is.  For the
  sliding log the admitted requests are in order and one is a window later than the one
  the limit's number of places before it (`Spread`, lemma `SlidingAdmits`), so no window
  has more (`AtMost`).  For the fixed windows some of the places open one (`Opened`):
  each of these is more than a window after the one before, and any limit's number of
  requests in a row has one; so twice as many in a row have two (lemma `TwoWindows`).
- `CachesLastComposed` (null is neither a key, a cache nor a call).  Redis: an entry's
  life is rounded up to whole seconds and counted from a later moment than the set's,
  so it is not dropped early; the flag `isConnecting` is set only while a connection is
  being made.  Factory: a cache that is being connected or registered is open and as yet
  in no place (`Waiting`), and what is in a place is there once, and open until a
  disposal under way closes it.
- `BatchIsAccountedForAlways`, `BatchIsAccountedForComposed` (`TimeoutsAreNumbers`;
  `MaxBatch` is a number).  `BatchInv` has a form for each way a batch runs.  `Together`:
  what is not answered is awaited, from the start.  `InTurn`: the requests before the one
  awaited have answered and, where one error ends the batch, without any; the time spent
  is within the sum of their timeouts (`UpTo`).  `Accounts`: the answer has the responses
  of the first m requests, and its two counts are m together, as a status is a success or
  an error and never both (`CountsAddUp`).
- `TypesOKComposed`: the types of the whole composition, gateway and hooks included.
  `PartsTyped`, `ServicesTyped` and `HooksTyped` put the invariants above together with
  what they leave out, mostly bounds on times: a window resets within its length from
  now, an entry in Redis is dropped later than now, tokens end within a life of the
  clock's last moment.  `PartsGiven`, `ServicesGiven` and `HooksGiven` are the hypotheses
  of the theorems above, with one more: no entry of Redis is asked to live for no time
  (`0 \notin Ttls`), which Redis would refuse.

### Hooks_proofs
- `ShownIsSavedComposed` (`SessionsGiven`: null is neither a session nor a value, updates
  are of values).  What the page shows and what the store holds meet only when nothing is
  under way, so `SessionInv` follows the calls: what a call carries at each step of its
  handler (`Carries`), that one call at most starts the page and the others are about
  the page's session (`OnePage`), and that what is shown is what is stored up to what the
  one call under way has read or written (`Calm`).
- `HooksFollowTheirRequestsComposed`, from an invariant of each hook.  Logins
  (`LoginsGiven`): a component that is loading awaits an answer about all logins or one
  of its own, and whatever removes a pending request answers who awaits it.  Pages
  (`PagesNone`): fetches are numbered, at most one is live, and what is shown came of the
  last that has answered.  Polls (`PollsGiven`): the configuration kept by useMemo is that
  of the page and of the limits' map, but for what came since the last render; the
  intervals are computed with divisions and roundings, which lemmas bound
  (`DynamicIs`, `FinalIs`).  Queries (`QueriesGiven`: null is no message): what has failed is what was
  reported, and was reported since it last worked.
- `ForwardInv`, on which `NothingGoesBackComposed` rests, belongs to the login hooks and
  stands here.

### Background_proofs
- `LeadersHoldTheKeyComposed`, `OneLeaderAlways` (some bound on timers and faults).
  Not inductive: a pod believes more than its role says.  `HoldersHoldTheKey` extends
  it to a pod whose heartbeat is on its way and to one whose election was won or has
  read its own name.
- `JobsRunOnTimeComposed`, `CancelledJobsStayQuietComposed` (`NoJobIsNone`: null is no
  job, undefined no time).  `SchedulerInv`: a timer is set for the time of its job, no job
  is started before it, and a job whose time passed was started or cancelled (`TimerOK`);
  the two intervals of a bounded job go in step, one ahead only while the other is due,
  and end together, when all recurrences are counted (`InStep`); and what was cancelled
  has no place in the map, no timer and no interval but that one (`Quiet`).
- `WithinConcurrencyComposed` (undefined is neither an entry nor a call).  `MemoryInv`:
  both orders list the keys held, so that an eviction by either finds a victim
  (`Listed`); the room is made before the await and the entry is stored after it, so
  entries and calls about to store are counted together.
- `HeapImplementsBag` and `RefinesBagComposed`, `HeapOrderAlways` (priorities are
  integers, the module's own assumption).  `HeapInv`: the array is a heap of distinct items,
  and the map has its items for keys.  `BubbleUp` and `SinkDown` are shown to keep an
  array's entries and to mend a heap that is broken at one place only, towards its root
  or towards its leaves; a removal from the middle breaks it at one place, and the entry
  that takes the hole either sinks or rises.  Then the first entry has a highest
  priority, as no child passes its parent, which is what the bag may give out.
- `CountedOnceAlways` and `AlarmsAreDistinctComposed` (`MonitoringIsSane`: a burst has
  requests in it; `AlertsAreKept`: the limit on alerts is a number).  `DetectorInv`: what is
  active or resolved is named by its pattern and its time, once, in one of the two lists
  (`OneOfEach`), with a confidence that its pattern allows, a sum of weights over the
  conditions that hold.  Only three patterns reach such a sum (`DetectedAreFiring`): of the
  other six some conditions never hold, or never together, as nothing counts evictions, the
  last 10,000 requests of five minutes are never 900 a second, and batches seem to fail
  only in a window without requests, which then were not slow and had no errors.
  `DashboardInv`: the alerts are no more than are kept and no two active ones are alike; it
  goes through the fold that raises a snapshot's alerts one by one.
- `TypesOKComposed` (`PartsAreSane`: the hypotheses above, and `SpecsInTime`, that the
  schedules asked for lie within the time looked at).  `PartsInv` joins the
  parts' invariants with `TimesInv`, that no timer is set beyond a time and an interval,
  and `UsedInv`, that the order of use follows the times of access.

### Only model-checked
- Liveness: `BatchEnds`, which rests on fairness and so on ENABLED.
- What the runs that expect a violation refute, which one behaviour shows.

## 6. Not modelled
- Response compression (`lib/api/compression`): a pure conversion by zlib.
- Configuration and logging: they read the environment and write text.
- Health and metrics endpoints: read-only reports over other components.
- The user interface: rendering.

Partly modelled: the manual reset and environment checks of the breakers' file; delete
and clear of the memory cache, which only the invalidation middleware uses; the memory
session store's own eviction order (one action loses a session) and the session
repository, which has no caller; messages between pods, whose handlers log; insights,
trends, correlations and recommendation texts of the monitoring, which are only shown;
undici's connections; the mappings of the tools' answers, which have no state.
