---------------------------- MODULE PollIntervals ----------------------------
(***************************************************************************)
(* How often the browser polls: useMultipleRateLimits                      *)
(* (app/components/hooks/useRateLimit.ts), the query configurations of     *)
(* useToolQueries.ts and the intervals of lib/rate-limit-utils.ts, for the *)
(* tools a page was given.                                                 *)
(*                                                                         *)
(* The map of the limits is changed in place, which no render notices: the *)
(* memoised configurations are made anew for the next change of the tools, *)
(* of the tab or of the user's activity only.  Percentages are in tenths,  *)
(* times in seconds.                                                       *)
(***************************************************************************)
EXTENDS Integers, FiniteSetsExt

CONSTANTS
  Polled,     \* set of [platform, base]: the polled queries; platform may be None
  Platforms,
  Answers,    \* platform -> the limits it may answer; None: not supported
  Calls,
  None,
  MaxRenders  \* bound

VARIABLES
  enabled,  \* whether the hook is
  calls,    \* call -> Free or the platform it asks
  statuses, \* platform -> None or the limits in the map
  loading,  \* platform -> the hook's loading flag, or None
  errors,   \* the platforms with an error in the map
  visible, active,
  memo,     \* what the configurations were made of
  renders,
  late      \* history: the platforms whose limits came after they were made

vars == <<enabled, calls, statuses, loading, errors, visible, active, memo, renders, late>>

Free == "free"

-----------------------------------------------------------------------------
(* Intervals.                                                                *)

Known(usage) == IF usage = None THEN 0 ELSE usage

GetGitHubWeightedUsage(limits) ==
  Max({7 * Known(limits.core), 8 * Known(limits.graphql), 15 * Known(limits.search)})

GetMaxUsageForPlatform(limits) == Max({0} \cup {10 * Known(limits[r]) : r \in DOMAIN limits})

UsageOf(p, limits) ==
  CASE limits = None -> 0
    [] limits # None /\ p = "github" -> GetGitHubWeightedUsage(limits)
    [] OTHER -> GetMaxUsageForPlatform(limits)

\* Multipliers are times ten.
Slower(usage) ==
  CASE usage >= 900 -> 40 [] usage < 900 /\ usage >= 750 -> 20
    [] usage < 750 /\ usage >= 500 -> 15 [] OTHER -> 10

GetDynamicInterval(usage, base, business) ==
  Max({30, (base * Slower(usage) * (IF business THEN 12 ELSE 10)) \div 100})

GetActivityAccelerationFactor(seen, busy) == IF ~seen THEN 20 ELSE IF ~busy THEN 15 ELSE 10

Day == 24 * 60 * 60
ClampInterval(interval) == Max({30, Min({Day, interval})})

FinalInterval(q) ==
  LET usage == IF q.platform = None THEN 0 ELSE UsageOf(q.platform, memo.statuses[q.platform]) IN
  ClampInterval((GetDynamicInterval(usage, q.base, memo.business)
                 * GetActivityAccelerationFactor(memo.visible, memo.active)) \div 10)

-----------------------------------------------------------------------------
(* The limits.                                                               *)

Assigned(f) == \A p, q \in Platforms : f[p] = f[q] => p = q

\* refreshAll: a request for each platform, when the hook is enabled.
RefreshAll ==
  IF ~enabled' THEN UNCHANGED <<calls, loading, errors>>
  ELSE /\ \E f \in [Platforms -> {c \in Calls : calls[c] = Free}] :
            /\ Assigned(f)
            /\ calls' = [c \in Calls |->
                 IF \E p \in Platforms : f[p] = c THEN CHOOSE p \in Platforms : f[p] = c ELSE calls[c]]
       /\ loading' = [p \in Platforms |-> TRUE]
       /\ errors' = {}

\* Limits, none (an unsupported platform) or an exception.  An answer fills the
\* maps whether or not the hook is still enabled.
Arrives(c) ==
  /\ calls[c] # Free
  /\ LET p == calls[c] IN
     \E limits \in Answers[p] \cup {None} :
       /\ statuses' = IF limits = None THEN statuses ELSE [statuses EXCEPT ![p] = limits]
       /\ errors' = IF limits = None THEN errors \cup {p} ELSE errors
       /\ late' = IF limits = None THEN late ELSE late \cup {p}
       /\ loading' = [loading EXCEPT ![p] = FALSE]
  /\ calls' = [calls EXCEPT ![c] = Free]
  /\ UNCHANGED <<enabled, visible, active, memo, renders>>

-----------------------------------------------------------------------------
(* Renders.                                                                  *)

CreateQueryConfigs ==
  /\ renders < MaxRenders /\ renders' = renders + 1
  /\ memo' \in [statuses : {statuses}, visible : {visible'}, active : {active'}, business : BOOLEAN]
  /\ late' = {}

\* A new array of the same tools: new configurations and new requests.
NewTools ==
  /\ UNCHANGED <<enabled, visible, active, statuses>>
  /\ CreateQueryConfigs /\ enabled /\ RefreshAll

\* The last tool with limits leaves, or the first comes: the maps are cleared, or
\* filled.  (The effects run after the render that made the configurations.)
EnabledChanges ==
  /\ UNCHANGED <<visible, active>> /\ CreateQueryConfigs
  /\ enabled' = ~enabled
  /\ IF enabled
     THEN /\ statuses' = [p \in Platforms |-> None]
          /\ loading' = [p \in Platforms |-> None]
          /\ errors' = {} /\ calls' = calls
     ELSE RefreshAll /\ statuses' = statuses

VisibilityChanges ==
  /\ visible' = ~visible
  /\ active' = active /\ CreateQueryConfigs
  /\ UNCHANGED <<enabled, calls, statuses, loading, errors>>

\* After five minutes without an event, and at the next one.
ActivityChanges ==
  /\ active' = ~active
  /\ visible' = visible /\ CreateQueryConfigs
  /\ UNCHANGED <<enabled, calls, statuses, loading, errors>>

-----------------------------------------------------------------------------
Init ==
  /\ enabled = TRUE /\ visible = TRUE /\ active = TRUE
  /\ renders = 0 /\ late = {} /\ errors = {}
  /\ \E f \in [Platforms -> Calls] :
       Assigned(f) /\ calls = [c \in Calls |->
         IF \E p \in Platforms : f[p] = c THEN CHOOSE p \in Platforms : f[p] = c ELSE Free]
  /\ statuses = [p \in Platforms |-> None]
  /\ loading = [p \in Platforms |-> TRUE]
  /\ memo \in [statuses : {statuses}, visible : {TRUE}, active : {TRUE}, business : BOOLEAN]

Next ==
  \/ NewTools \/ EnabledChanges \/ VisibilityChanges \/ ActivityChanges
  \/ \E c \in Calls : Arrives(c)

Spec == Init /\ [][Next]_vars

-----------------------------------------------------------------------------
TypeOK ==
  /\ calls \in [Calls -> Platforms \cup {Free}]
  /\ \A p \in Platforms : statuses[p] \in Answers[p] \cup {None}
  /\ loading \in [Platforms -> BOOLEAN \cup {None}]

\* Every query is polled once in thirty seconds to a day; four times as rarely as
\* configured when its platform's limit is nearly used up, and twice as rarely as
\* that while the page is hidden.  That limit is the one in the map, but for
\* answers that came since the tools, the tab or the activity last changed.
PollsKeepTheLimits ==
  \A q \in Polled :
    LET wait == FinalInterval(q) IN
    /\ wait \in 30..Day
    /\ q.platform \in Platforms \ late =>
         (enabled /\ UsageOf(q.platform, statuses[q.platform]) >= 900 =>
            wait >= Min({Day, 4 * q.base * (IF visible THEN 1 ELSE 2)}))

\* While the hook is enabled, a platform that is not loading has an answer, an error
\* or a request under way.
LoadingEnds ==
  \A p \in Platforms :
    enabled /\ loading[p] = FALSE /\ statuses[p] = None =>
      p \in errors \/ \E c \in Calls : calls[c] = p
=============================================================================
