----------------------------- MODULE MCBackground -----------------------------
(* The priority heap of the job queue, and, each by itself, other components   *)
(* that work behind the requests: the scheduler, the coordinator, the          *)
(* monitoring and a cache.  They share no variable and only one of them, the   *)
(* part, moves in a behaviour, so the run explores the sum of their states and *)
(* not the product; their variables take the same places v1, v2 ...            *)
EXTENDS MCPriorityHeap

\* The parameters of the components that are proved about for all their values: the
\* coordinator's, the scheduler's, the cache's and the monitoring's.
CONSTANTS
  p1, p2, Nil, NoTime,
  Pods, LeaderCalls, MaxTimers, LeaderFaults,
  JobIds, JobRefs, JobSpecs, TimerRange, MaxCopies, LastCheck,
  CacheKeys, CacheSets, Ttls, MaxSize, ReadsToAdapt, AlertAt, CacheTime, MaxReads,
  RequestKinds, Burst, AlertsKept, AlertLife, AlertLimits, LimitUpdates, DashboardTime,
  LoadKinds, LoadLimits, HistoryLife, Detections

Three == {x1, x2, x3}
Pair == {p1, p2}
Symmetric == Permutations(Three) \cup Permutations(Pair)

\* At a time, beyond what a timer can wait for, once repeated, and both.
Schedule(at, every, max) == [at |-> at, every |-> every, max |-> max]
MCSpecs == {Schedule(1, 0, 0), Schedule(4, 0, 0), Schedule(0, 1, 1), Schedule(3, 1, 0)}

Request(ms, code, hit, ratio, bytes, endpoint) ==
  [ms |-> ms, code |-> code, cache |-> hit, ratio |-> ratio, bytes |-> bytes, endpoint |-> endpoint]

\* For the alerts: one endpoint is slow and very slow, and fails.
MCKinds == {Request(600, 200, "HIT", 60, 2000, "/api/tools"),
            Request(2500, 500, "MISS", Nil, 100, "/api/tools"),
            Request(50, 200, "BYPASS", 50, 2000, "/api/batch")}
Limits(p95, p99, errors, hits, ratio) ==
  [p95 |-> p95, p99 |-> p99, errors |-> errors, hits |-> hits, ratio |-> ratio]
MCThresholds == Limits(500, 2000, 5, 70, 40)
MCUpdates == {[p99 |-> 5000], [p95 |-> 700, errors |-> 50]}

\* For the bottlenecks: fast requests, slow and failing ones, and no alerts.
MCLoads == {Request(50, 200, "HIT", 60, 2000, "/api/tools"),
            Request(6000, 500, "MISS", Nil, 100, "/api/batch")}
Unreached == Limits(10000, 10000, 100, 0, 0)

VARIABLES part, v1, v2, v3, v4, v5, v6, v7, v8, v9, v10, v11, v12, v13

Schedules == INSTANCE Scheduler WITH
  Refs <- JobRefs, Specs <- JobSpecs, NoJob <- Nil, MaxTime <- LastCheck,
  clock <- v1, objs <- v2, jobs <- v3, checkAt <- v4, timer <- v5,
  interval <- v6, counted <- v7, count <- v8, starts <- v9, copies <- v10,
  cancelled <- v11

Leaders == INSTANCE Coordinator WITH
  Calls <- LeaderCalls, NoPod <- Nil, MaxFaults <- LeaderFaults, key <- v1,
  status <- v2, isLeader <- v3, info <- v4, beats <- v5, follows <- v6,
  expiries <- v7, retries <- v8, handle <- v9, election <- v10, beat <- v11,
  lapsed <- v12, faults <- v13

Dashboard == INSTANCE PerformanceDashboard WITH
  Kinds <- RequestKinds, Each <- Burst, MaxSnapshots <- 10000,
  MaxAlerts <- AlertsKept, Window <- AlertLife, Thresholds <- AlertLimits,
  Updates <- LimitUpdates, None <- Nil, MaxClock <- DashboardTime, clock <- v1,
  snapshots <- v2, alerts <- v3, thresholds <- v4, sent <- v5

Detector == INSTANCE Bottlenecks WITH
  Kinds <- LoadKinds, Each <- Burst, MaxSnapshots <- 10000,
  MaxAlerts <- AlertsKept, Window <- AlertLife, Thresholds <- LoadLimits,
  Updates <- {}, None <- Nil, MaxClock <- DashboardTime, Week <- HistoryLife,
  MaxDetections <- Detections, clock <- v1, snapshots <- v2, alerts <- v3,
  thresholds <- v4, sent <- v5, active <- v6, history <- v7, detections <- v8

Memory == INSTANCE AdvancedCache WITH
  Keys <- CacheKeys, Calls <- CacheSets,
  Policies <- {"lru", "fifo", "ttl_only", "adaptive"},
  Threshold <- ReadsToAdapt, None <- Nil, MaxTime <- CacheTime, time <- v1,
  policy <- v2, lru <- v3, mode <- v4, entries <- v5, order <- v6, used <- v7,
  hits <- v8, misses <- v9, usage <- v10, alerts <- v11, sets <- v12

\* The places from the n-th on, and that no part uses them.
Free13 == v13 = Nil
Free12 == v12 = Nil /\ Free13
Free11 == v11 = Nil /\ Free12
Free10 == v10 = Nil /\ Free11
Free9 == v9 = Nil /\ Free10
Free8 == v8 = Nil /\ Free9
Free7 == v7 = Nil /\ Free8
Free6 == v6 = Nil /\ Free7
Free5 == v5 = Nil /\ Free6
Free4 == v4 = Nil /\ Free5
Free3 == v3 = Nil /\ Free4
Free2 == v2 = Nil /\ Free3
Free1 == v1 = Nil /\ Free2
rest1 == <<v1, v2, v3, v4, v5, v6, v7, v8, v9, v10, v11, v12, v13>>
rest6 == <<v6, v7, v8, v9, v10, v11, v12, v13>>
rest9 == <<v9, v10, v11, v12, v13>>
rest12 == <<v12, v13>>
rest13 == <<v13>>
all == <<part, vars, rest1>>

MCInit ==
  /\ Init
  /\ \/ part = "heap" /\ Free1
     \/ part = "scheduler" /\ Schedules!Init /\ Free12
     \/ part = "coordinator" /\ Leaders!Init
     \/ part = "alerts" /\ Dashboard!Init /\ Free6
     \/ part = "bottlenecks" /\ Detector!BottlenecksInit /\ Free9
     \/ part = "memory" /\ Memory!Init /\ Free13

\* A lapsed lease of the coordinator, v12, ends the exploration of its part.
\* The bounds of the other parts may end a behaviour, those of the heap may not.
MCNext ==
  \/ part = "heap" /\ Next /\ UNCHANGED <<part, rest1>>
  \/ part = "scheduler" /\ Schedules!Next /\ UNCHANGED <<part, vars, rest12>>
  \/ part = "coordinator" /\ ~v12 /\ Leaders!Next /\ UNCHANGED <<part, vars>>
  \/ part = "alerts" /\ Dashboard!Next /\ UNCHANGED <<part, vars, rest6>>
  \/ part = "bottlenecks" /\ Detector!BottlenecksNext /\ UNCHANGED <<part, vars, rest9>>
  \/ part = "memory" /\ Memory!Next /\ UNCHANGED <<part, vars, rest13>>
  \/ part # "heap" /\ UNCHANGED all

MCSpec == MCInit /\ [][MCNext]_all
-----------------------------------------------------------------------------
\* The types of every part; for the heap, that it is one and its keys are its
\* entries.
TypesOK ==
  CASE part = "heap" -> HasMatchesHeap /\ HeapOrder
    [] part = "scheduler" -> Schedules!TypeOK
    [] part = "coordinator" -> Leaders!TypeOK
    [] part = "alerts" -> Dashboard!TypeOK
    [] part = "bottlenecks" -> Detector!BottlenecksTypeOK
    [] part = "memory" -> Memory!TypeOK

\* A scheduled job runs at its time or at the next check, and recurs until its
\* recurrences are counted up (lib/jobs/memory-job-scheduler.ts).
JobsRunOnTime == part = "scheduler" => Schedules!OnTime /\ Schedules!RecurrencesEnd

\* The comment of checkAndExecuteDueJobs: a job without an interval runs one time.
ExecutedOneTime == part = "scheduler" => Schedules!ExecutedOneTime

\* What was cancelled does not start again, but for one kind of interval.
NoLateStart == part = "scheduler" => Schedules!NoLateStart
CancelledJobsStayQuiet == [][NoLateStart]_all

\* Whoever takes itself for the leader holds the key, until a lease lapses
\* (lib/coordination/pod-coordinator.ts).
LeadersHoldTheKey == part = "coordinator" => Leaders!LeadersHoldTheKey

\* No two active alerts are of one type and endpoint
\* (lib/monitoring/performance-dashboard.ts), and every bottleneck is counted once,
\* while it is active and after it was resolved
\* (lib/monitoring/bottleneck-detector.ts).
AlarmsAreDistinct ==
  /\ part = "alerts" => Dashboard!AlertsAreDistinct
  /\ part = "bottlenecks" => Detector!CountedOnce

\* How far overlapping sets pass a cache's limit
\* (lib/cache/advanced-memory-cache.ts).
WithinConcurrency == part = "memory" => Memory!WithinConcurrency
=============================================================================
