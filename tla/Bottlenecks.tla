---------------------------- MODULE Bottlenecks ----------------------------
(***************************************************************************)
(* BottleneckDetector (lib/monitoring/bottleneck-detector.ts), its         *)
(* patterns (bottleneck-patterns.ts) and the routes of                     *)
(* app/api/bottlenecks, over the metrics of PerformanceDashboard.          *)
(*                                                                         *)
(* Correlations of two single values (always 0), trends, predictions and   *)
(* recommendations are only shown, and left out.  So are DELETE and the    *)
(* execution of an automated action, which change nothing: the first looks *)
(* for a resolved bottleneck among the active ones, where there is none,   *)
(* and the scripts of the second return placeholders.                      *)
(***************************************************************************)
EXTENDS PerformanceDashboard

CONSTANTS
  Week,           \* how long a resolved bottleneck is kept, here in ticks
  MaxDetections   \* bound on the runs of the detection loop

VARIABLES
  active,     \* this.activeBottlenecks
  history,    \* this.historicalBottlenecks, with the resolution's time
  detections  \* runs of the 30-second loop

bottleneckVars == <<active, history, detections>>

BottlenecksInit ==
  /\ Init
  /\ active = {} /\ history = {} /\ detections = 0

-----------------------------------------------------------------------------
Condition(metric, op, threshold, weight) ==
  [metric |-> metric, op |-> op, threshold |-> threshold, weight |-> weight]

Pattern(severity, minimum, conditions) ==
  [severity |-> severity, minimum |-> minimum, conditions |-> conditions]

MemoryLeak == Pattern("critical", 85,
  {Condition("averageResponseTime", "gt", 200, 30),
   Condition("averageBatchDuration", "gt", 3000, 25),
   Condition("evictionRate", "gt", 50, 45)})

CacheThrashing == Pattern("warning", 80,
  {Condition("hitRate", "lt", 60, 40),
   Condition("evictionRate", "gt", 30, 35),
   Condition("averageResponseTime", "gt", 150, 25)})

RateLimitExhaustion == Pattern("critical", 85,
  {Condition("errorRate", "gt", 10, 30),
   Condition("successRate", "lt", 90, 35),
   Condition("batchSuccessRate", "lt", 95, 35)})

PoolExhaustion == Pattern("critical", 90,
  {Condition("p95ResponseTime", "gt", 2000, 40),
   Condition("errorRate", "gt", 5, 30),
   Condition("totalRequests", "gt", 100, 30)})

CompressionDegradation == Pattern("info", 65,
  {Condition("compressionRatio", "lt", 40, 50),
   Condition("averageResponseTime", "gt", 100, 30),
   Condition("compressionSavings", "lt", 50000, 20)})

BatchOverload == Pattern("warning", 75,
  {Condition("averageBatchDuration", "gt", 5000, 40),
   Condition("batchSuccessRate", "lt", 85, 35),
   Condition("averageBatchSize", "gt", 15, 25)})

CircuitFailover == Pattern("critical", 95,
  {Condition("errorRate", "gt", 25, 50),
   Condition("p95ResponseTime", "gt", 5000, 30),
   Condition("batchSuccessRate", "lt", 50, 20)})

ThroughputSaturation == Pattern("warning", 70,
  {Condition("throughput", "gt", 900, 35),
   Condition("averageResponseTime", "gt", 100, 35),
   Condition("p95ResponseTime", "gt", 300, 30)})

SlowOperations == Pattern("warning", 85,
  {Condition("p95ResponseTime", "gt", 500, 40),
   Condition("averageResponseTime", "gt", 100, 40),
   Condition("hitRate", "lt", 75, 20)})

Patterns ==
  [memory |-> MemoryLeak, thrashing |-> CacheThrashing, limits |-> RateLimitExhaustion,
   pool |-> PoolExhaustion, compression |-> CompressionDegradation, batches |-> BatchOverload,
   failover |-> CircuitFailover, throughput |-> ThroughputSaturation, slow |-> SlowOperations]

-----------------------------------------------------------------------------
IsConditionBreached(value, c) ==
  IF c.op = "gt" THEN Above(value, c.threshold) ELSE Below(value, c.threshold)

Breached(p, w) == {c \in p.conditions : IsConditionBreached(Metric(w, c.metric), c)}

\* The sum of the breached weights; those of a pattern make 100.
Confidence(p, w) == MapThenSumSet(LAMBDA c : c.weight, Breached(p, w))

\* breachRatio * severityMultiplier * 100, in tenths of the 3 conditions.
CalculateImpact(p, breached) ==
  LET multiplier == [critical |-> 15, warning |-> 10, info |-> 5][p.severity]
      score == Cardinality(breached) * multiplier * 10
      AtLeast(percent) == score >= percent * Cardinality(p.conditions)
  IN  CASE AtLeast(90) -> "critical"
        [] AtLeast(70) -> "severe"
        [] AtLeast(40) -> "moderate"
        [] OTHER -> "minor"

Detected(w) == {id \in DOMAIN Patterns : Confidence(Patterns[id], w) >= Patterns[id].minimum}

Bottleneck(id, w) ==
  [id |-> id, at |-> <<clock, detections>>, confidence |-> Confidence(Patterns[id], w),
   impact |-> CalculateImpact(Patterns[id], Breached(Patterns[id], w)),
   resolved |-> FALSE]

\* detectBottlenecks: every pattern above its confidence is a new bottleneck, and
\* the critical ones, by pattern or by impact, are alerts.
Detect ==
  /\ detections < MaxDetections
  /\ detections' = detections + 1
  /\ LET w == InWindow(snapshots)
         found == {Bottleneck(id, w) : id \in Detected(w)}
         alarming == {b \in found : Patterns[b.id].severity = "critical" \/ b.impact = "critical"}
     IN  /\ active' = active \cup found
         /\ IF alarming = {} THEN sent' = sent
            ELSE \E b \in alarming :
                   sent' = Alert("resources",
                     IF Patterns[b.id].severity = "critical" THEN "critical" ELSE "warning", b.id)
  /\ UNCHANGED <<clock, snapshots, alerts, thresholds, history>>

-----------------------------------------------------------------------------
(* The routes; a bottleneck is asked for by its id, while it is active or     *)
(* after it was resolved.                                                    *)

Key(b) == <<b.id, b.at>>
Known == {Key(b) : b \in active} \cup {Key(h) : h \in history}
Named(k) == {b \in active : Key(b) = k}

\* The bottleneck with resolved set, and when.
Resolved(b) ==
  [id |-> b.id, at |-> b.at, confidence |-> b.confidence, impact |-> b.impact,
   resolved |-> TRUE, resolvedAt |-> clock]

\* Mutant: the resolved bottleneck stays among the active ones.
Resolve_KeepsActive(b) ==
  /\ active' = active
  /\ history' = {h \in history \cup {Resolved(b)} :
                  h.at[1] > clock - Week}
  /\ UNCHANGED <<dashVars, detections>>

\* resolveBottleneck marks an active one, puts it into the history, of which a week
\* is kept, and takes it from the active ones.
Resolve(b) ==
  /\ active' = active \ {b}
  /\ history' = {h \in history \cup {Resolved(b)} :
                  h.at[1] > clock - Week}
  /\ UNCHANGED <<dashVars, detections>>

\* PATCH /api/bottlenecks/[id]; for one that is not active it is a 404.
Patch(k) == \E b \in Named(k) : Resolve(b)

\* getBottleneckAnalysis, which GET /api/bottlenecks reports; of the types only the
\* five most frequent, which are all there are, for only three are ever detected.
Analysis ==
  LET unresolved == {h \in history : h.resolvedAt = None}
      resolved == history \ unresolved
  IN  [unresolvedCount |-> Cardinality(unresolved),
       averageResolutionTime |->
         Ratio(MapThenSumSet(LAMBDA h : h.resolvedAt - h.at[1], resolved), Cardinality(resolved)),
       topBottleneckTypes |->
         [id \in DOMAIN Patterns |-> Cardinality({b \in active : b.id = id})
                                      + Cardinality({h \in history : h.id = id})],
       resolutionRate |-> Ratio(100 * Cardinality(resolved), Cardinality(history))]

\* The dashboard's steps; its alerts are PerformanceDashboard's subject.
Observes ==
  /\ \/ \E k \in Kinds : RecordSnapshot(k)
     \/ Reset \/ Tick
  /\ UNCHANGED bottleneckVars

BottlenecksNext ==
  \/ Observes
  \/ Detect
  \/ \E k \in Known : Patch(k)

BottlenecksSpec == BottlenecksInit /\ [][BottlenecksNext]_<<dashVars, bottleneckVars>>

-----------------------------------------------------------------------------
BottlenecksTypeOK ==
  /\ \A b \in active : b.id \in DOMAIN Patterns /\ b.confidence \in Patterns[b.id].minimum..100
  /\ \A h \in history : h.resolved /\ h.at[1] <= h.resolvedAt

\* The analysis counts every bottleneck once, while it is active and after it was
\* resolved, however often the loop detects while others are resolved and forgotten,
\* and none was resolved before it was found.
CountedOnce ==
  /\ ~Below(Analysis.averageResolutionTime, 0)
  /\ MapThenSumSet(LAMBDA id : Analysis.topBottleneckTypes[id], DOMAIN Patterns)
       = Cardinality(Known)
=============================================================================
