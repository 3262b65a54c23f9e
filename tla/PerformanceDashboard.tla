------------------------- MODULE PerformanceDashboard -------------------------
(***************************************************************************)
(* PerformanceDashboard (lib/monitoring/performance-dashboard.ts) with the *)
(* middleware that feeds it (lib/monitoring/performance-middleware.ts),    *)
(* the routes of app/api/dashboard and the alert service.                  *)
(*                                                                         *)
(* Requests are recorded in bursts of Each equal ones, so that the numbers *)
(* of the code (10,000 snapshots, thresholds in requests and per second)   *)
(* stay what they are.  A metric is a fraction <<numerator, denominator>>. *)
(* Percentages of brotli and gzip, the metrics per endpoint and the        *)
(* Prometheus text are other views of the same window and are left out.    *)
(***************************************************************************)
EXTENDS Integers, Sequences, SequencesExt, KeyOrders

CONSTANTS
  Kinds,        \* requests: [ms, code, cache, ratio, bytes, endpoint]
  Each,         \* requests of a burst
  MaxSnapshots, \* this.maxSnapshots, 10000
  MaxAlerts,    \* this.maxAlerts
  Window,       \* the five minutes of the metrics and of an alert's life
  Thresholds,   \* the thresholds at first
  Updates,      \* the thresholds a POST may set
  None,         \* no compression ratio, no endpoint, not resolved
  MaxClock      \* bound on the clock

VARIABLES
  clock,
  snapshots,  \* this.snapshots, oldest first
  alerts,     \* this.alerts, oldest first
  thresholds, \* this.thresholds
  sent        \* the last alert handed to alertService, which keeps them all

dashVars == <<clock, snapshots, alerts, thresholds, sent>>

Init ==
  /\ clock = 0
  /\ snapshots = <<>>
  /\ alerts = <<>>
  /\ thresholds = Thresholds
  /\ sent = None

\* Array.shift past a limit.
Kept(s, limit) == IF Len(s) > limit THEN Tail(s) ELSE s

-----------------------------------------------------------------------------
\* getDashboardMetrics: the snapshots of the last five minutes.
InWindow(ss) == Without(ss, {s \in Elements(ss) : s.at < clock - Window})

Total(w, F(_)) == FoldSeq(LAMBDA s, sum : sum + F(s), 0, w)
Count(w, P(_)) == Len(SelectSeq(w, P))
Ratio(num, den) == IF den = 0 THEN <<0, 1>> ELSE <<num, den>>

\* responseTimes[Math.floor(length * 0.95)] of the sorted times.
Percentile95(w) ==
  LET times == SortSeq([i \in DOMAIN w |-> w[i].ms], <)
  IN  IF w = <<>> THEN <<0, 1>> ELSE <<times[1 + ((Each * Len(w) * 95) \div 100) \div Each], 1>>

Packed(w) == SelectSeq(w, LAMBDA s : s.ratio # None)

\* One snapshot of the batch endpoint makes all of them batch requests.
Batched(w) == IF \E i \in DOMAIN w : w[i].endpoint = "/api/batch" THEN w ELSE <<>>

\* Without any snapshot every metric is 0; a batch's size and success are
\* placeholders; there is no rate of evictions and no batching.successRate, and
\* what is not there reads as 0.
Metric(w, name) ==
  CASE name = "totalRequests" -> <<Each * Len(w), 1>>
    [] name = "averageResponseTime" -> Ratio(Total(w, LAMBDA s : s.ms), Len(w))
    [] name = "p95ResponseTime" -> Percentile95(w)
    [] name = "errorRate" -> Ratio(100 * Count(w, LAMBDA s : s.code >= 400), Len(w))
    [] name = "throughput" -> <<Each * Len(w), 300>>
    [] name = "hitRate" -> Ratio(100 * Count(w, LAMBDA s : s.cache = "HIT"),
                                 Count(w, LAMBDA s : s.cache \in {"HIT", "MISS"}))
    [] name = "compressionRatio" -> Ratio(Total(Packed(w), LAMBDA s : s.ratio), Len(Packed(w)))
    [] name = "compressionSavings" ->
         <<Each * Total(Packed(w), LAMBDA s : s.bytes * s.ratio), 100>>
    [] name = "averageBatchDuration" ->
         Ratio(Total(Batched(w), LAMBDA s : s.ms), Len(Batched(w)))
    [] name = "batchSuccessRate" -> <<IF w = <<>> THEN 0 ELSE 95, 1>>
    [] name = "averageBatchSize" -> <<IF w = <<>> THEN 0 ELSE 5, 1>>
    [] name \in {"evictionRate", "successRate"} -> <<0, 1>>

Above(m, bound) == m[1] > bound * m[2]
Below(m, bound) == m[1] < bound * m[2]

-----------------------------------------------------------------------------
Alert(type, severity, endpoint) ==
  [type |-> type, severity |-> severity, endpoint |-> endpoint, at |-> clock, resolved |-> FALSE]

\* checkAlertConditions, in its order.  A hit rate of a window without a hit or
\* a miss, and a ratio of one without a compressed answer, are 0 and so below.
Raised(s, w) ==
  (CASE s.ms > thresholds.p99 -> <<Alert("response", "critical", s.endpoint)>>
     [] s.ms > thresholds.p95 /\ s.ms <= thresholds.p99 ->
          <<Alert("response", "warning", s.endpoint)>>
     [] OTHER -> <<>>)
  \o (IF Above(Metric(w, "errorRate"), thresholds.errors)
      THEN <<Alert("errors", "warning", None)>> ELSE <<>>)
  \o (IF Below(Metric(w, "hitRate"), thresholds.hits)
      THEN <<Alert("hits", "warning", None)>> ELSE <<>>)
  \o (IF Below(Metric(w, "compressionRatio"), thresholds.ratio)
      THEN <<Alert("compression", "info", None)>> ELSE <<>>)

Active(a) == ~a.resolved /\ clock - a.at < Window

Same(a, b) == a.type = b.type /\ a.endpoint = b.endpoint

\* createAlert: the alert that stands for the same type and endpoint is only
\* renewed, and keeps its severity and its message.
Created(as, a) ==
  LET standing == {i \in DOMAIN as : Same(as[i], a) /\ Active(as[i])}
  IN  IF standing = {} THEN Kept(Append(as, a), MaxAlerts)
      ELSE [as EXCEPT ![CHOOSE i \in standing : \A j \in standing : i <= j].at = clock]

Snapshot(kind) ==
  [ms |-> kind.ms, code |-> kind.code, cache |-> kind.cache, ratio |-> kind.ratio,
   bytes |-> kind.bytes, endpoint |-> kind.endpoint, at |-> clock]

\* recordSnapshot, by the middleware or by hand: the alerts are checked against
\* the metrics that include it, and every one is handed to the alert service,
\* renewed or new.
RecordSnapshot(kind) ==
  /\ snapshots' = Kept(Append(snapshots, Snapshot(kind)), MaxSnapshots \div Each)
  /\ LET raised == Raised(kind, InWindow(snapshots'))
     IN  /\ alerts' = FoldLeft(Created, alerts, raised)
         /\ sent' = IF raised = <<>> THEN sent ELSE Last(raised)
  /\ UNCHANGED <<clock, thresholds>>

\* POST /api/dashboard?action=resolve-alert.
ResolveAlert(i) ==
  /\ i \in DOMAIN alerts /\ ~alerts[i].resolved
  /\ alerts' = [alerts EXCEPT ![i].resolved = TRUE]
  /\ UNCHANGED <<clock, snapshots, thresholds, sent>>

\* POST ?action=thresholds: the times only change if the body has a p95.
UpdateThresholds(u) ==
  /\ thresholds' = [f \in DOMAIN thresholds |->
                      IF f \in DOMAIN u /\ (f = "p99" => "p95" \in DOMAIN u) THEN u[f]
                      ELSE thresholds[f]]
  /\ UNCHANGED <<clock, snapshots, alerts, sent>>

\* DELETE ?action=reset.
Reset ==
  /\ snapshots' = <<>> /\ alerts' = <<>>
  /\ UNCHANGED <<clock, thresholds, sent>>

Tick ==
  /\ clock < MaxClock /\ clock' = clock + 1
  /\ UNCHANGED <<snapshots, alerts, thresholds, sent>>

Next ==
  \/ \E k \in Kinds : RecordSnapshot(k)
  \/ \E i \in 1..MaxAlerts : ResolveAlert(i)
  \/ \E u \in Updates : UpdateThresholds(u)
  \/ Reset \/ Tick

Spec == Init /\ [][Next]_dashVars

-----------------------------------------------------------------------------
TypeOK ==
  /\ Len(snapshots) <= MaxSnapshots \div Each
  /\ Len(alerts) <= MaxAlerts
  /\ \A i \in DOMAIN snapshots : snapshots[i].at \in 0..clock
  /\ \A i \in DOMAIN alerts : alerts[i].at \in 0..clock

\* docs/monitoring.md promises deduplicated alerts: of one type and endpoint at
\* most one alert is active, through renewals, resolutions, the five minutes'
\* expiry, changed thresholds and the limit of the history.
AlertsAreDistinct ==
  \A i, j \in DOMAIN alerts :
    i # j /\ Active(alerts[i]) /\ Active(alerts[j]) =>
       <<alerts[i].type, alerts[i].endpoint>> # <<alerts[j].type, alerts[j].endpoint>>
=============================================================================
