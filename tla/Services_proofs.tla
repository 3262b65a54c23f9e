---------------------------- MODULE Services_proofs ----------------------------
(***************************************************************************)
(* Proofs about the services that MCRequests composes beside the limiters  *)
(* and the caches: the settings, the rate limits, the unified OAuth        *)
(* service and the retries, for any tools, answers, requests and faults.   *)
(* Each has an invariant of its own; the theorems at the end carry them to *)
(* the composition.                                                        *)
(***************************************************************************)
EXTENDS Hooks_proofs

(* The settings (lib/tool-config-manager.ts): their places in MCRequests, by the *)
(* names of ToolConfigs.                                                        *)
rows == v1
configCache == v2
registry == v3
calls == v4
alone == v5
faults == v6

USE DEF rows, configCache, registry, calls, alone, faults

\* None is no value: not TRUE, and no configuration.
NoneIsNothing == None # TRUE /\ \A config : None # [f \in Settings!Fields |-> config[f]]

\* A request is free, or one of five kinds with its fields.
SettingKinds == {"save", "delete", "get", "toggle", "load"}
IsOf(request, at, kind, tool, patch, config) ==
  /\ request = [at |-> at, kind |-> kind, tool |-> tool, patch |-> patch, config |-> config]
  /\ kind # "load" => tool \in SettingTools
  /\ kind = "save" => config # None
IsCall(request) ==
  \E at \in {"sent", "run"}, kind \in SettingKinds :
    \E tool, patch, config : IsOf(request, at, kind, tool, patch, config)
Shapes ==
  /\ rows = [t \in SettingTools |-> rows[t]]
  /\ configCache = [t \in SettingTools |-> configCache[t]]
  /\ registry = [t \in SettingTools |-> registry[t]]
  /\ calls = [c \in Requests |-> calls[c]]
  /\ \A t \in SettingTools : registry[t] = [enabled |-> registry[t].enabled,
                                     refreshInterval |-> registry[t].refreshInterval]
  /\ \A c \in Requests : calls[c] = Settings!Free \/ IsCall(calls[c])
  /\ faults \in Nat /\ alone \in BOOLEAN

\* Alone means that there is at most one request.
OneAtATime == alone => \A c, d \in Requests : calls[c] # Settings!Free /\ calls[d] # Settings!Free => c = d

\* What a statement has done, its request still knows: the row it wrote or read.
RunKnowsTheRow ==
  alone => \A c \in Requests : calls[c].at = "run" =>
    LET request == calls[c] IN
    /\ request.kind = "save" => rows[request.tool] = request.config
    /\ request.kind = "delete" => rows[request.tool] = None
    /\ request.kind \in {"get", "toggle"} => request.config = rows[request.tool]
    /\ request.kind = "load" => request.config = rows

\* The cache, and while nothing failed the registry, lag behind the table only for
\* the tool whose row a request has written and not yet returned from.
Behind(t) == \E c \in Requests : calls[c].at = "run" /\ calls[c].kind \in {"save", "delete"} /\ calls[c].tool = t
CacheFollows ==
  alone => \A t \in SettingTools : Behind(t) \/ configCache[t] = None \/ configCache[t] = rows[t]
RegistryFollows ==
  alone /\ faults = 0 => \A t \in SettingTools : Flag[t] = None =>
    Behind(t) \/ (registry[t].enabled <=> rows[t] # None /\ rows[t].enabled)

ConfigInv == Shapes /\ OneAtATime /\ RunKnowsTheRow /\ CacheFollows /\ RegistryFollows

-----------------------------------------------------------------------------
Sends(c, kind, tool, patch, config) ==
  calls' = [calls EXCEPT ![c] = Settings!Does(kind, tool, patch, config)] /\ UNCHANGED configCache

\* A request that begins is alone or ends the time of being alone; it has done
\* nothing yet.
LEMMA BeginsStep ==
  ASSUME ConfigInv, NEW c \in Requests, Settings!Begins(c),
         NEW kind \in SettingKinds, NEW tool, NEW patch, NEW config,
         Sends(c, kind, tool, patch, config), kind # "load" => tool \in SettingTools,
         kind = "save" => config # None
  PROVE  ConfigInv'
<1> USE DEF ConfigInv, Sends
<1>1. calls'[c] = [at |-> "sent", kind |-> kind, tool |-> tool, patch |-> patch, config |-> config]
  BY DEF Shapes, Settings!Does
<1>2. \A d \in Requests \ {c} : calls'[d] = calls[d]
  BY DEF Shapes
<1>3. IsCall(calls'[c])
  <2>1. IsOf(calls'[c], "sent", kind, tool, patch, config)
    BY <1>1 DEF IsOf
  <2> QED BY <2>1 DEF IsCall
<1>4. Shapes'
  <2>1. \A d \in Requests : calls'[d] = Settings!Free \/ IsCall(calls'[d])
    BY <1>2, <1>3 DEF Shapes
  <2>2. calls' = [d \in Requests |-> calls'[d]]
    BY DEF Shapes
  <2>3. alone' \in BOOLEAN
    BY DEF Settings!Begins, Shapes
  <2> QED BY <2>1, <2>2, <2>3 DEF Settings!Begins, Shapes, IsCall
<1>5. OneAtATime'
  BY <1>2 DEF OneAtATime, Settings!Begins
<1>6. alone' => alone
  BY DEF Settings!Begins
<1>7. \A d \in Requests : calls'[d].at = "run" => calls'[d] = calls[d]
  BY <1>1, <1>2
<1>8. RunKnowsTheRow'
  BY <1>6, <1>7 DEF RunKnowsTheRow, Settings!Begins
<1>9. \A t \in SettingTools : Behind(t) => Behind(t)'
  BY <1>2 DEF Behind, Settings!Begins, Settings!Free
<1>10. CacheFollows' /\ RegistryFollows'
  BY <1>6, <1>9 DEF CacheFollows, RegistryFollows, Settings!Begins
<1> QED BY <1>4, <1>5, <1>8, <1>10

\* A merged configuration is a configuration.
LEMMA MergedIsAConfig ==
  ASSUME NoneIsNothing, NEW config, NEW patch
  PROVE  Settings!Merged(config, patch) # None
<1> DEFINE merged == Settings!Merged(config, patch)
<1>1. merged = [f \in Settings!Fields |-> merged[f]]
  BY DEF Settings!Merged
<1> QED BY <1>1 DEF NoneIsNothing

\* The handlers of the settings page, POST, PATCH, GET and DELETE, up to their statement.
LEMMA PostStep ==
  ASSUME NoneIsNothing, ConfigInv, NEW c \in Requests, NEW t \in SettingTools,
         Settings!Post(c, t) \/ Settings!Toggle(c, t) \/ Settings!Get(c,
         t) \/ Settings!Delete(c, t)
  PROVE  ConfigInv'
<1>1. CASE Settings!Post(c, t)
  <2>1. PICK patch \in Patches : Sends(c, "save", t, patch, Settings!ToSave(t, patch))
    BY <1>1 DEF Settings!Post, Settings!SaveBegins, Sends
  <2>2. Settings!Begins(c)
    BY <1>1 DEF Settings!Post
  <2>3. Settings!ToSave(t, patch) # None
    BY MergedIsAConfig DEF Settings!ToSave
  <2> QED BY <2>1, <2>2, <2>3, BeginsStep DEF SettingKinds
<1>2. CASE Settings!Toggle(c, t)
  <2>1. Settings!Begins(c)
    BY <1>2 DEF Settings!Toggle
  <2>2. \/ Sends(c, "toggle", t, Settings!NoPatch, None)
        \/ Sends(c, "save", t, Settings!Toggled(configCache[t]), Settings!ToSave(t, Settings!Toggled(configCache[t])))
    BY <1>2 DEF Settings!Toggle, Sends
  <2>3. Settings!ToSave(t, Settings!Toggled(configCache[t])) # None
    BY MergedIsAConfig DEF Settings!ToSave
  <2> QED BY <2>1, <2>2, <2>3, BeginsStep DEF SettingKinds
<1>3. CASE Settings!Get(c, t)
  <2>1. Settings!Begins(c) /\ Sends(c, "get", t, Settings!NoPatch, None)
    BY <1>3 DEF Settings!Get, Sends
  <2> QED BY <2>1, BeginsStep DEF SettingKinds
<1>4. CASE Settings!Delete(c, t)
  <2>1. Settings!Begins(c) /\ Sends(c, "delete", t, Settings!NoPatch, None)
    BY <1>4 DEF Settings!Delete, Sends
  <2> QED BY <2>1, BeginsStep DEF SettingKinds
<1> QED BY <1>1, <1>2, <1>3, <1>4

\* loadAllConfigs up to its statement.
LEMMA LoadStep ==
  ASSUME ConfigInv, NEW c \in Requests, Settings!Load(c)
  PROVE  ConfigInv'
<1>1. Settings!Begins(c) /\ Sends(c, "load", None, Settings!NoPatch, None)
  BY DEF Settings!Load, Sends
<1> QED BY <1>1, BeginsStep DEF SettingKinds

-----------------------------------------------------------------------------
\* The table changes here only, and the tool that changes is then behind.
LEMMA RunsStep ==
  ASSUME ConfigInv, NEW c \in Requests, Settings!Runs(c)
  PROVE  ConfigInv'
<1> USE DEF ConfigInv
<1> DEFINE request == calls[c]
           after == calls'[c]
<1>1. calls[c] # Settings!Free /\ IsCall(request)
  BY DEF Settings!Runs, Shapes, Settings!Free
<1>2. PICK kind \in SettingKinds : \E tool, patch, config : IsOf(request, "sent", kind, tool, patch, config)
  <2>1. PICK at \in {"sent", "run"}, kind \in SettingKinds :
          \E tool, patch, config : IsOf(request, at, kind, tool, patch, config)
    BY <1>1 DEF IsCall
  <2>2. at = "sent"
    BY <2>1 DEF IsOf, Settings!Runs
  <2> QED BY <2>1, <2>2
<1>21. PICK tool, patch, config : IsOf(request, "sent", kind, tool, patch, config)
  BY <1>2
<1>22. /\ request = [at |-> "sent", kind |-> kind, tool |-> tool, patch |-> patch, config |-> config]
       /\ kind # "load" => tool \in SettingTools
       /\ kind = "save" => config # None
  BY <1>21 DEF IsOf
<1> DEFINE knows == CASE kind \in {"get", "toggle"} -> rows[tool]
                      [] kind = "load" -> rows
                      [] OTHER -> config
<1>3. after = [at |-> "run", kind |-> kind, tool |-> tool, patch |-> patch, config |-> knows]
  <2>1. request.kind = kind /\ request.tool = tool /\ request.config = config
    BY <1>22
  <2>2. after = [request EXCEPT !.at = "run", !.config = knows]
    <3>1. CASE kind \in {"get", "toggle"}
      BY <2>1, <3>1 DEF Settings!Runs, Shapes
    <3>2. CASE kind = "load"
      BY <2>1, <3>2 DEF Settings!Runs, Shapes
    <3>3. CASE kind \in {"save", "delete"}
      BY <2>1, <3>3 DEF Settings!Runs, Shapes
    <3> QED BY <3>1, <3>2, <3>3 DEF SettingKinds
  <2> HIDE DEF knows, after
  <2>3. after = [[at |-> "sent", kind |-> kind, tool |-> tool, patch |-> patch, config |-> config]
                 EXCEPT !.at = "run", !.config = knows]
    BY <1>22, <2>2
  <2> QED BY <2>3
<1>31. /\ kind \in {"save", "delete"} => knows = config
       /\ kind \in {"get", "toggle"} => knows = rows[tool]
       /\ kind = "load" => knows = rows
  OBVIOUS
<1> HIDE DEF knows
<1>4. \A d \in Requests \ {c} : calls'[d] = calls[d]
  BY DEF Settings!Runs, Shapes
<1>5. /\ kind = "save" => rows' = [rows EXCEPT ![tool] = config]
      /\ kind = "delete" => rows' = [rows EXCEPT ![tool] = None]
      /\ kind \notin {"save", "delete"} => rows' = rows
  BY <1>22 DEF Settings!Runs, SettingKinds
<1>6. Shapes'
  <2>1. IsCall(after)
    BY <1>22, <1>3, <1>31 DEF IsCall, IsOf, SettingKinds
  <2>2. \A d \in Requests : calls'[d] = Settings!Free \/ IsCall(calls'[d])
    BY <2>1, <1>4 DEF Shapes
  <2>3. rows' = [t \in SettingTools |-> rows'[t]]
    BY <1>5 DEF Shapes
  <2>4. calls' = [d \in Requests |-> calls'[d]]
    BY DEF Settings!Runs, Shapes
  <2> QED BY <2>2, <2>3, <2>4 DEF Settings!Runs, Shapes, IsCall
<1>7. OneAtATime'
  BY <1>1, <1>4 DEF OneAtATime, Settings!Runs
<1>8. alone => \A d \in Requests : d # c => calls[d] = Settings!Free /\ calls'[d] = Settings!Free
  BY <1>1, <1>4 DEF OneAtATime
<1>9. alone' = alone /\ UNCHANGED <<configCache, registry, faults>>
  BY DEF Settings!Runs
<1>10. RunKnowsTheRow'
  <2> SUFFICES ASSUME alone
               PROVE  /\ kind = "save" => rows'[tool] = after.config
                      /\ kind = "delete" => rows'[tool] = None
                      /\ kind \in {"get", "toggle"} => after.config = rows'[tool]
                      /\ kind = "load" => after.config = rows'
    BY <1>3, <1>8, <1>9 DEF RunKnowsTheRow, Settings!Free
  <2> QED BY <1>22, <1>3, <1>31, <1>5 DEF Shapes, SettingKinds
<1>11. alone => \A t \in SettingTools : ~Behind(t)
  BY <1>22, <1>8 DEF Behind, Settings!Free
<1>12. \A t \in SettingTools : Behind(t)' \/ rows'[t] = rows[t]
  <2>1. CASE kind \in {"save", "delete"}
    <3>1. \A t \in SettingTools : t # tool => rows'[t] = rows[t]
      BY <1>5, <2>1 DEF Shapes
    <3>2. Behind(tool)'
      BY <1>3, <2>1 DEF Behind
    <3> QED BY <3>1, <3>2
  <2>2. CASE kind \notin {"save", "delete"}
    BY <1>5, <2>2
  <2> QED BY <2>1, <2>2
<1>13. CacheFollows'
  BY <1>9, <1>11, <1>12 DEF CacheFollows
<1>14. RegistryFollows'
  BY <1>9, <1>11, <1>12 DEF RegistryFollows
<1> QED BY <1>6, <1>7, <1>10, <1>13, <1>14

-----------------------------------------------------------------------------
\* What remains to be shown of a request that leaves: a request alone leaves none.
LEMMA EndsStep ==
  ASSUME ConfigInv, NEW c \in Requests, calls[c] # Settings!Free, Settings!Ends(c), UNCHANGED <<rows, alone>>, faults' \in Nat
  PROVE  /\ calls' = [d \in Requests |-> calls'[d]]
         /\ \A d \in Requests : calls'[d] = Settings!Free \/ IsCall(calls'[d])
         /\ rows' = [t \in SettingTools |-> rows'[t]]
         /\ faults' \in Nat /\ alone' \in BOOLEAN
         /\ OneAtATime' /\ RunKnowsTheRow'
         /\ alone => \A d \in Requests : d # c => calls[d] = Settings!Free
         /\ alone => \A t \in SettingTools : Behind(t) =>
               calls[c].at = "run" /\ calls[c].kind \in {"save", "delete"} /\ calls[c].tool = t
<1> USE DEF ConfigInv
<1>1. \A d \in Requests : calls'[d] = IF d = c THEN Settings!Free ELSE calls[d]
  BY DEF Settings!Ends, Shapes
<1>2. calls' = [d \in Requests |-> calls'[d]]
  BY DEF Settings!Ends, Shapes
<1>3. \A d \in Requests : calls'[d] = Settings!Free \/ IsCall(calls'[d])
  BY <1>1 DEF Shapes
<1>4. alone => \A d \in Requests : d # c => calls[d] = Settings!Free
  BY DEF OneAtATime
<1>5. alone => \A d \in Requests : calls'[d] = Settings!Free
  BY <1>1, <1>4
<1>6. OneAtATime'
  BY <1>5 DEF OneAtATime
<1>7. RunKnowsTheRow'
  BY <1>5 DEF RunKnowsTheRow, Settings!Free
<1>8. alone => \A t \in SettingTools : Behind(t) =>
        calls[c].at = "run" /\ calls[c].kind \in {"save", "delete"} /\ calls[c].tool = t
  BY <1>4 DEF Behind, Settings!Free
<1>9. rows' = [t \in SettingTools |-> rows'[t]] /\ alone' \in BOOLEAN
  BY DEF Shapes
<1> QED BY <1>2, <1>3, <1>4, <1>6, <1>7, <1>8, <1>9

\* What applying a configuration does to the tools of the registry.
LEMMA ApplyShape ==
  ASSUME NEW reg, NEW t, NEW config, reg = [u \in SettingTools |-> reg[u]],
         \A u \in SettingTools : reg[u] = [enabled |-> reg[u].enabled, refreshInterval |-> reg[u].refreshInterval]
  PROVE  LET next == Settings!Apply(reg, t, config) IN
         /\ next = [u \in SettingTools |-> next[u]]
         /\ \A u \in SettingTools :
              /\ next[u] = [enabled |-> next[u].enabled, refreshInterval |-> next[u].refreshInterval]
              /\ IF u = t THEN next[u].enabled = config.enabled ELSE next[u] = reg[u]
BY DEF Settings!Apply

\* The returns: the cache and the registry catch up with the table.
LEMMA SaveReturnsStep ==
  ASSUME ConfigInv, NEW c \in Requests, Settings!SaveReturns(c)
  PROVE  ConfigInv'
<1> USE DEF ConfigInv
<1> DEFINE tool == calls[c].tool
           saved == calls[c].config
<1>1. calls[c] # Settings!Free /\ calls[c].at = "run" /\ calls[c].kind = "save"
  BY DEF Settings!SaveReturns, Settings!Returned, Settings!Free
<1>11. saved # None
  BY <1>1 DEF Shapes, IsCall, IsOf
<1>2. Settings!Ends(c) /\ UNCHANGED <<rows, alone, faults>>
  BY DEF Settings!SaveReturns, Settings!Returned
<1>3. faults' \in Nat
  BY <1>2 DEF Shapes
<1>4. configCache' = [configCache EXCEPT ![tool] = saved] /\ registry' = Settings!Apply(registry, tool, saved)
  BY DEF Settings!SaveReturns
<1>5. /\ registry' = [t \in SettingTools |-> registry'[t]]
      /\ \A t \in SettingTools :
           /\ registry'[t] = [enabled |-> registry'[t].enabled,
                               refreshInterval |-> registry'[t].refreshInterval]
           /\ IF t = tool THEN registry'[t].enabled = saved.enabled ELSE registry'[t] = registry[t]
  <2>1. registry = [t \in SettingTools |-> registry[t]]
    BY DEF Shapes
  <2>2. \A t \in SettingTools : registry[t] = [enabled |-> registry[t].enabled,
                                       refreshInterval |-> registry[t].refreshInterval]
    BY DEF Shapes
  <2> HIDE DEF ConfigInv, tool, saved
  <2> QED BY <1>4, <2>1, <2>2, ApplyShape
<1>6. alone => rows[tool] = saved
  BY <1>1 DEF RunKnowsTheRow
<1>7. /\ configCache' = [t \in SettingTools |-> configCache'[t]]
      /\ \A t \in SettingTools : configCache'[t] = IF t = tool THEN saved ELSE configCache[t]
  BY <1>4 DEF Shapes
<1>10. alone => \A t \in SettingTools : Behind(t) => t = tool
  BY <1>1, <1>2, <1>3, EndsStep
<1>8. CacheFollows'
  BY <1>2, <1>6, <1>7, <1>10 DEF CacheFollows
<1>9. RegistryFollows'
  <2> SUFFICES ASSUME alone, faults = 0, NEW t \in SettingTools, Flag[t] = None, rows'[t] = rows[t]
               PROVE  registry'[t].enabled <=> rows[t] # None /\ rows[t].enabled
    BY <1>2 DEF RegistryFollows
  <2>1. CASE t = tool
    BY <1>5, <1>6, <1>11, <2>1
  <2>2. CASE t # tool
    BY <1>5, <1>10, <2>2 DEF RegistryFollows
  <2> QED BY <2>1, <2>2
<1> QED BY <1>1, <1>2, <1>3, <1>5, <1>7, <1>8, <1>9, EndsStep DEF Shapes
\* The delete's return: cache and registry follow the table.
LEMMA DeleteReturnsStep ==
  ASSUME ConfigInv, NEW c \in Requests, Settings!DeleteReturns(c)
  PROVE  ConfigInv'
<1> USE DEF ConfigInv
<1> DEFINE tool == calls[c].tool
<1>1. calls[c] # Settings!Free /\ calls[c].at = "run" /\ calls[c].kind = "delete"
  BY DEF Settings!DeleteReturns, Settings!Returned, Settings!Free
<1>2. Settings!Ends(c) /\ UNCHANGED <<rows, alone, faults>>
  BY DEF Settings!DeleteReturns, Settings!Returned
<1>3. faults' \in Nat
  BY <1>2 DEF Shapes
<1>4. configCache' = [configCache EXCEPT ![tool] = None] /\ registry' = Settings!Apply(registry, tool, Settings!DefaultConfig)
  BY DEF Settings!DeleteReturns
<1>5. /\ registry' = [t \in SettingTools |-> registry'[t]]
      /\ \A t \in SettingTools :
           /\ registry'[t] = [enabled |-> registry'[t].enabled,
                               refreshInterval |-> registry'[t].refreshInterval]
           /\ IF t = tool THEN registry'[t].enabled = FALSE ELSE registry'[t] = registry[t]
  <2>1. registry = [t \in SettingTools |-> registry[t]]
    BY DEF Shapes
  <2>2. \A t \in SettingTools : registry[t] = [enabled |-> registry[t].enabled,
                                       refreshInterval |-> registry[t].refreshInterval]
    BY DEF Shapes
  <2> HIDE DEF ConfigInv, tool
  <2>3. Settings!DefaultConfig.enabled = FALSE
    BY DEF Settings!DefaultConfig
  <2> QED BY <1>4, <2>1, <2>2, <2>3, ApplyShape
<1>6. alone => rows[tool] = None
  BY <1>1 DEF RunKnowsTheRow
<1>7. /\ configCache' = [t \in SettingTools |-> configCache'[t]]
      /\ \A t \in SettingTools : configCache'[t] = IF t = tool THEN None ELSE configCache[t]
  BY <1>4 DEF Shapes
<1>10. alone => \A t \in SettingTools : Behind(t) => t = tool
  BY <1>1, <1>2, <1>3, EndsStep
<1>8. CacheFollows'
  BY <1>2, <1>6, <1>7, <1>10 DEF CacheFollows
<1>9. RegistryFollows'
  <2> SUFFICES ASSUME alone, faults = 0, NEW t \in SettingTools, Flag[t] = None, rows'[t] = rows[t]
               PROVE  registry'[t].enabled <=> rows[t] # None /\ rows[t].enabled
    BY <1>2 DEF RegistryFollows
  <2>1. CASE t = tool
    BY <1>5, <1>6, <2>1
  <2>2. CASE t # tool
    BY <1>5, <1>10, <2>2 DEF RegistryFollows
  <2> QED BY <2>1, <2>2
<1> QED BY <1>1, <1>2, <1>3, <1>5, <1>7, <1>8, <1>9, EndsStep DEF Shapes
\* The read's return fills the cache with the row.
LEMMA GetReturnsStep ==
  ASSUME ConfigInv, NEW c \in Requests, Settings!GetReturns(c)
  PROVE  ConfigInv'
<1> USE DEF ConfigInv
<1>1. calls[c] # Settings!Free /\ calls[c].at = "run" /\ calls[c].kind = "get"
  BY DEF Settings!GetReturns, Settings!Returned, Settings!Free
<1>2. Settings!Ends(c) /\ UNCHANGED <<rows, registry, alone, faults>>
  BY DEF Settings!GetReturns, Settings!Returned
<1>3. faults' \in Nat
  BY <1>2 DEF Shapes
<1>4. /\ configCache' = [t \in SettingTools |-> configCache'[t]]
      /\ \A t \in SettingTools : configCache'[t] = configCache[t]
                          \/ (t = calls[c].tool /\ configCache'[t] = calls[c].config)
  <2> DEFINE new == IF calls[c].config = None THEN configCache[calls[c].tool] ELSE calls[c].config
  <2>1. configCache' = [configCache EXCEPT ![calls[c].tool] = new]
    BY DEF Settings!GetReturns
  <2>2. new \in {configCache[calls[c].tool], calls[c].config}
    OBVIOUS
  <2>3. configCache = [t \in SettingTools |-> configCache[t]]
    BY DEF Shapes
  <2> HIDE DEF new
  <2> QED BY <2>1, <2>2, <2>3
<1>5. alone => calls[c].config = rows[calls[c].tool]
  BY <1>1 DEF RunKnowsTheRow
<1>6. alone => \A t \in SettingTools : ~Behind(t)
  BY <1>1, <1>2, <1>3, EndsStep
<1>7. CacheFollows'
  BY <1>2, <1>4, <1>5, <1>6 DEF CacheFollows
<1>8. RegistryFollows'
  BY <1>2, <1>6 DEF RegistryFollows
<1> QED BY <1>1, <1>2, <1>3, <1>4, <1>7, <1>8, EndsStep DEF Shapes

\* The load's return fills cache and registry.
LEMMA LoadReturnsStep ==
  ASSUME ConfigInv, NEW c \in Requests, Settings!LoadReturns(c)
  PROVE  ConfigInv'
<1> USE DEF ConfigInv
<1> DEFINE read == calls[c].config
<1>1. calls[c] # Settings!Free /\ calls[c].at = "run" /\ calls[c].kind = "load"
  BY DEF Settings!LoadReturns, Settings!Returned, Settings!Free
<1>2. Settings!Ends(c) /\ UNCHANGED <<rows, alone, faults>>
  BY DEF Settings!LoadReturns, Settings!Returned
<1>3. faults' \in Nat
  BY <1>2 DEF Shapes
<1>4. /\ configCache' = [t \in SettingTools |-> configCache'[t]]
      /\ \A t \in SettingTools : configCache'[t] = IF read[t] = None THEN configCache[t] ELSE read[t]
  BY DEF Settings!LoadReturns
<1>5. /\ registry' = [t \in SettingTools |-> registry'[t]]
      /\ \A t \in SettingTools : registry'[t] = IF read[t] = None THEN registry[t]
                                         ELSE Settings!Apply(registry, t, read[t])[t]
  BY DEF Settings!LoadReturns
<1>6. \A t \in SettingTools :
        /\ registry'[t] = [enabled |-> registry'[t].enabled,
                           refreshInterval |-> registry'[t].refreshInterval]
        /\ read[t] # None => registry'[t].enabled = read[t].enabled
  <2>1. registry = [t \in SettingTools |-> registry[t]]
    BY DEF Shapes
  <2>2. \A t \in SettingTools : registry[t] = [enabled |-> registry[t].enabled,
                                       refreshInterval |-> registry[t].refreshInterval]
    BY DEF Shapes
  <2> HIDE DEF ConfigInv, read
  <2>3. SUFFICES ASSUME NEW t \in SettingTools
                 PROVE  /\ registry'[t] = [enabled |-> registry'[t].enabled,
                                           refreshInterval |-> registry'[t].refreshInterval]
                        /\ read[t] # None => registry'[t].enabled = read[t].enabled
    OBVIOUS
  <2> DEFINE applied == Settings!Apply(registry, t, read[t])
  <2>4. /\ applied[t] = [enabled |-> applied[t].enabled, refreshInterval |-> applied[t].refreshInterval]
        /\ applied[t].enabled = read[t].enabled
    BY <2>1, <2>2, ApplyShape
  <2>5. registry'[t] = IF read[t] = None THEN registry[t] ELSE applied[t]
    BY <1>5
  <2> HIDE DEF applied
  <2> QED BY <2>2, <2>4, <2>5
<1>7. alone => read = rows
  BY <1>1 DEF RunKnowsTheRow
<1>8. alone => \A t \in SettingTools : ~Behind(t)
  BY <1>1, <1>2, <1>3, EndsStep
<1>9. CacheFollows'
  BY <1>2, <1>4, <1>7, <1>8 DEF CacheFollows
<1>10. RegistryFollows'
  <2> SUFFICES ASSUME alone, faults = 0, NEW t \in SettingTools, Flag[t] = None, rows'[t] = rows[t]
               PROVE  registry'[t].enabled <=> rows[t] # None /\ rows[t].enabled
    BY <1>2 DEF RegistryFollows
  <2>1. CASE rows[t] = None
    BY <1>5, <1>7, <1>8, <2>1 DEF RegistryFollows
  <2>2. CASE rows[t] # None
    BY <1>6, <1>7, <2>2
  <2> QED BY <2>1, <2>2
<1> QED BY <1>1, <1>2, <1>3, <1>4, <1>5, <1>6, <1>9, <1>10, EndsStep DEF Shapes

\* The toggle becomes a save that has done nothing yet.
LEMMA ToggleReturnsStep ==
  ASSUME NoneIsNothing, ConfigInv, NEW c \in Requests, Settings!ToggleReturns(c)
  PROVE  ConfigInv'
<1> USE DEF ConfigInv
<1>1. calls[c] # Settings!Free /\ calls[c].at = "run" /\ calls[c].kind = "toggle"
  BY DEF Settings!ToggleReturns, Settings!Returned, Settings!Free
<1>2. UNCHANGED <<rows, registry, alone, faults>>
  BY DEF Settings!ToggleReturns, Settings!Returned
<1>3. calls[c].tool \in SettingTools
  BY <1>1 DEF Shapes, IsCall, IsOf
<1>4. /\ configCache' = [t \in SettingTools |-> configCache'[t]]
      /\ \A t \in SettingTools : configCache'[t] = configCache[t]
                          \/ (t = calls[c].tool /\ configCache'[t] = calls[c].config)
  <2> DEFINE new == IF calls[c].config = None THEN configCache[calls[c].tool] ELSE calls[c].config
  <2>1. configCache' = [configCache EXCEPT ![calls[c].tool] = new]
    BY DEF Settings!ToggleReturns
  <2>2. new \in {configCache[calls[c].tool], calls[c].config}
    OBVIOUS
  <2>3. configCache = [t \in SettingTools |-> configCache[t]]
    BY DEF Shapes
  <2> HIDE DEF new
  <2> QED BY <2>1, <2>2, <2>3
<1>5. PICK base : calls' = [calls EXCEPT ![c] =
        Settings!Does("save", calls[c].tool, Settings!Toggled(calls[c].config),
        Settings!Merged(base, Settings!Toggled(calls[c].config)))]
  BY DEF Settings!ToggleReturns
<1> DEFINE config == Settings!Merged(base, Settings!Toggled(calls[c].config))
<1>6. calls'[c] = [at |-> "sent", kind |-> "save", tool |-> calls[c].tool,
                   patch |-> Settings!Toggled(calls[c].config), config |-> config]
  BY <1>5 DEF Shapes, Settings!Does
<1>7. config # None
  BY MergedIsAConfig
<1> HIDE DEF config
<1>8. calls' = [d \in Requests |-> calls'[d]] /\ \A d \in Requests \ {c} : calls'[d] = calls[d]
  BY <1>5 DEF Shapes
<1>9. IsCall(calls'[c])
  <2>1. IsOf(calls'[c], "sent", "save", calls[c].tool, Settings!Toggled(calls[c].config), config)
    BY <1>3, <1>6, <1>7 DEF IsOf
  <2> QED BY <2>1 DEF IsCall, SettingKinds
<1>10. Shapes'
  BY <1>2, <1>4, <1>8, <1>9 DEF Shapes, IsCall
<1>11. OneAtATime'
  BY <1>1, <1>2, <1>8 DEF OneAtATime
<1>12. alone => \A d \in Requests : d # c => calls[d] = Settings!Free
  BY <1>1 DEF OneAtATime
<1>13. RunKnowsTheRow'
  BY <1>2, <1>6, <1>8, <1>12 DEF RunKnowsTheRow, Settings!Free
<1>14. alone => calls[c].config = rows[calls[c].tool]
  BY <1>1 DEF RunKnowsTheRow
<1>15. alone => \A t \in SettingTools : ~Behind(t)
  BY <1>1, <1>12 DEF Behind, Settings!Free
<1>16. CacheFollows'
  BY <1>2, <1>4, <1>14, <1>15 DEF CacheFollows
<1>17. RegistryFollows'
  BY <1>2, <1>15 DEF RegistryFollows
<1> QED BY <1>10, <1>11, <1>13, <1>16, <1>17
-----------------------------------------------------------------------------
\* A failed statement leaves the table, and the request, with nothing done.
LEMMA FailsStep ==
  ASSUME ConfigInv, NEW c \in Requests, Settings!Fails(c)
  PROVE  ConfigInv'
<1> USE DEF ConfigInv
<1>1. calls[c] # Settings!Free /\ calls[c].at = "sent" /\ Settings!Ends(c)
  BY DEF Settings!Fails, Settings!Free
<1>2. UNCHANGED <<rows, configCache, registry, alone>>
  BY DEF Settings!Fails
<1>3. faults' \in Nat /\ faults' # 0
  BY DEF Settings!Fails, Shapes
<1>4. alone => \A t \in SettingTools : ~Behind(t)
  BY <1>1, <1>2, <1>3, EndsStep
<1>5. CacheFollows'
  BY <1>2, <1>4 DEF CacheFollows
<1>6. RegistryFollows'
  BY <1>3 DEF RegistryFollows
<1> QED BY <1>1, <1>2, <1>3, <1>5, <1>6, EndsStep DEF Shapes

\* A cleared cache agrees with anything.
LEMMA ClearCacheStep ==
  ASSUME ConfigInv, Settings!ClearCache
  PROVE  ConfigInv'
<1> USE DEF ConfigInv, Settings!ClearCache
<1>1. Shapes'
  BY DEF Shapes, IsCall, IsOf
<1>2. OneAtATime' /\ RunKnowsTheRow'
  BY DEF OneAtATime, RunKnowsTheRow
<1>3. CacheFollows'
  BY DEF CacheFollows
<1>4. \A t \in SettingTools : Behind(t)' = Behind(t)
  BY DEF Behind
<1>5. RegistryFollows'
  BY <1>4 DEF RegistryFollows
<1> QED BY <1>1, <1>2, <1>3, <1>5

\* The environment changes no tool that it does not define.
LEMMA SyncStep ==
  ASSUME ConfigInv, Settings!SyncToolEnablementFromEnv
  PROVE  ConfigInv'
<1> USE DEF ConfigInv
<1>1. UNCHANGED <<rows, configCache, calls, alone, faults>> /\ registry' = Settings!Synced
  BY DEF Settings!SyncToolEnablementFromEnv
<1>2. registry' = [t \in SettingTools |-> registry'[t]]
  BY <1>1 DEF Settings!Synced
<1>3. \A t \in SettingTools :
        /\ registry'[t] = [enabled |-> registry'[t].enabled,
                           refreshInterval |-> registry'[t].refreshInterval]
        /\ Flag[t] = None => registry'[t].enabled = registry[t].enabled
  <2> SUFFICES ASSUME NEW t \in SettingTools
               PROVE  /\ registry'[t] = [enabled |-> registry'[t].enabled,
                                         refreshInterval |-> registry'[t].refreshInterval]
                      /\ Flag[t] = None => registry'[t].enabled = registry[t].enabled
    OBVIOUS
  <2> DEFINE enabled == registry[t].enabled
             interval == registry[t].refreshInterval
             flag == IF Flag[t] = None THEN enabled ELSE Flag[t]
  <2>1. registry[t] = [enabled |-> enabled, refreshInterval |-> interval]
    BY DEF Shapes
  <2>2. registry'[t] = [registry[t] EXCEPT !.enabled = flag]
    BY <1>1 DEF Settings!Synced
  <2>3. Flag[t] = None => flag = enabled
    OBVIOUS
  <2> HIDE DEF flag, enabled, interval
  <2>4. registry'[t] = [[enabled |-> enabled, refreshInterval |-> interval] EXCEPT !.enabled = flag]
    BY <2>1, <2>2
  <2>5. registry'[t] = [enabled |-> flag, refreshInterval |-> interval]
    BY <2>4
  <2> QED BY <2>3, <2>5 DEF enabled
<1>4. Shapes'
  BY <1>1, <1>2, <1>3 DEF Shapes, IsCall, IsOf
<1>5. OneAtATime' /\ RunKnowsTheRow' /\ CacheFollows'
  BY <1>1 DEF OneAtATime, RunKnowsTheRow, CacheFollows, Behind
<1>6. \A t \in SettingTools : Behind(t)' = Behind(t)
  BY <1>1 DEF Behind
<1>7. RegistryFollows'
  BY <1>1, <1>3, <1>6 DEF RegistryFollows
<1> QED BY <1>4, <1>5, <1>7

\* A new process has an empty cache and the registry's defaults.
LEMMA RestartStep ==
  ASSUME ConfigInv, Settings!Restart
  PROVE  ConfigInv'
<1> USE DEF ConfigInv, Settings!Restart
<1>1. Shapes'
  BY DEF Shapes, Settings!Starts
<1>2. OneAtATime' /\ RunKnowsTheRow' /\ CacheFollows'
  BY DEF OneAtATime, RunKnowsTheRow, CacheFollows, Settings!Free
<1>3. RegistryFollows'
  BY DEF RegistryFollows, Shapes
<1> QED BY <1>1, <1>2, <1>3

\* It holds at the start.
LEMMA ConfigStart ==
  ASSUME NoneIsNothing, Settings!Init
  PROVE  ConfigInv
<1>1. alone = TRUE /\ faults = 0
  BY DEF Settings!Init
<1>2. Shapes
  BY <1>1 DEF Settings!Init, Shapes, Settings!Starts
<1>3. OneAtATime /\ RunKnowsTheRow /\ CacheFollows
  BY DEF Settings!Init, OneAtATime, RunKnowsTheRow, CacheFollows, Settings!Free
<1>4. RegistryFollows
  BY DEF Settings!Init, RegistryFollows, Settings!Starts, NoneIsNothing
<1> QED BY <1>2, <1>3, <1>4 DEF ConfigInv

\* Every step keeps it.
LEMMA ConfigStep ==
  ASSUME NoneIsNothing, ConfigInv, [Settings!Next]_(Settings!vars)
  PROVE  ConfigInv'
<1>1. ASSUME NEW c \in Requests, NEW t \in SettingTools,
             \/ Settings!Post(c, t) \/ Settings!Toggle(c, t)
             \/ Settings!Get(c, t) \/ Settings!Delete(c, t)
      PROVE  ConfigInv'
  BY <1>1, PostStep
<1>2. ASSUME NEW c \in Requests, Settings!Load(c) \/ Settings!Runs(c) \/ Settings!Fails(c)
      PROVE  ConfigInv'
  BY <1>2, LoadStep, RunsStep, FailsStep
<1>3. ASSUME NEW c \in Requests,
             Settings!SaveReturns(c) \/ Settings!DeleteReturns(c) \/ Settings!GetReturns(c)
      PROVE  ConfigInv'
  BY <1>3, SaveReturnsStep, DeleteReturnsStep, GetReturnsStep
<1>4. ASSUME NEW c \in Requests, Settings!ToggleReturns(c) \/ Settings!LoadReturns(c)
      PROVE  ConfigInv'
  BY <1>4, ToggleReturnsStep, LoadReturnsStep
<1>5. CASE Settings!ClearCache \/ Settings!SyncToolEnablementFromEnv \/ Settings!Restart
  BY <1>5, ClearCacheStep, SyncStep, RestartStep
<1>6. CASE UNCHANGED Settings!vars
  BY <1>6 DEF Settings!vars, ConfigInv, Shapes, IsCall, IsOf, OneAtATime, RunKnowsTheRow,
    CacheFollows, RegistryFollows, Behind
<1> QED BY <1>1, <1>2, <1>3, <1>4, <1>5, <1>6 DEF Settings!Next

\* The invariant holds in every reachable state.
LEMMA ConfigInvAlways ==
  ASSUME NoneIsNothing
  PROVE  Settings!Spec => []ConfigInv
  BY ConfigStart, ConfigStep, PTL DEF Settings!Spec

\* A cached configuration is the one of the row, but while a save is on its way.
LEMMA CacheAnswers == ConfigInv => Settings!CachedIsPersisted
  BY DEF ConfigInv, CacheFollows, Behind, Settings!CachedIsPersisted

\* A tool is listed by its flag in the registry, which the row has set.
LEMMA EnabledAsSaved == ConfigInv => Settings!ListedAsSaved
<1> SUFFICES ASSUME ConfigInv, alone, faults = 0, \A c \in Requests : calls[c].at # "run",
                    NEW t \in SettingTools, Flag[t] = None
             PROVE  /\ t \in DOMAIN Settings!EnabledTools <=> rows[t] # None /\ rows[t].enabled
                    /\ t \in DOMAIN Settings!EnabledTools /\ rows[t].refreshInterval # None =>
                         Settings!EnabledTools[t] = rows[t].refreshInterval
  BY DEF Settings!ListedAsSaved
<1>1. registry[t].enabled <=> rows[t] # None /\ rows[t].enabled
  BY DEF ConfigInv, RegistryFollows, Behind
<1>2. Settings!Synced[t].enabled = registry[t].enabled
  <2>1. registry[t] = [enabled |-> registry[t].enabled,
                       refreshInterval |-> registry[t].refreshInterval]
    BY DEF ConfigInv, Shapes
  <2>2. Settings!Synced[t] = [registry[t] EXCEPT !.enabled = registry[t].enabled]
    BY DEF Settings!Synced
  <2> QED BY <2>1, <2>2
<1>3. t \in DOMAIN Settings!EnabledTools <=> Settings!Synced[t].enabled /\ ~Settings!Disables(rows[t])
  BY DEF Settings!EnabledTools
<1>4. t \in DOMAIN Settings!EnabledTools <=> rows[t] # None /\ rows[t].enabled
  BY <1>1, <1>2, <1>3 DEF Settings!Disables
<1>5. t \in DOMAIN Settings!EnabledTools => Settings!EnabledTools[t] = Settings!Interval(t)
  BY DEF Settings!EnabledTools
<1> QED BY <1>4, <1>5 DEF Settings!Interval

-----------------------------------------------------------------------------
\* In lib/tool-config-manager.ts, whatever fails or restarts, as long as no two
\* requests overlapped the cache answers what the table holds: save and delete write
\* the table first, and the reads put only what they found.
THEOREM CachedIsPersistedAlways ==
  ASSUME NoneIsNothing
  PROVE  Settings!Spec => []Settings!CachedIsPersisted
  BY CacheAnswers, ConfigInvAlways, PTL

\* As long as nothing failed either, the tools that the environment leaves alone are
\* listed by GET /api/tools/enabled exactly if their row enables them, with the
\* interval of the row.
THEOREM ListedAsSavedAlways ==
  ASSUME NoneIsNothing
  PROVE  Settings!Spec => []Settings!ListedAsSaved
  BY EnabledAsSaved, ConfigInvAlways, PTL

-----------------------------------------------------------------------------
(* The types of the settings.                                                  *)

\* Patches set fields to what they may be, and the environment enables, disables
\* or says nothing.
SettingsGiven ==
  /\ NoneIsNothing
  /\ \A patch \in Patches :
       /\ "enabled" \in DOMAIN patch => patch["enabled"] \in BOOLEAN
       /\ "refreshInterval" \in DOMAIN patch => patch["refreshInterval"] \in {None} \cup Nat
       /\ "notifications" \in DOMAIN patch => patch["notifications"] \in BOOLEAN
  /\ \A t \in SettingTools : Flag[t] \in {None} \cup BOOLEAN

\* What is in the table, in the cache and in the registry.
IsRow(x) == x = None \/ x \in Settings!Configs
TablesTyped ==
  \A t \in SettingTools : IsRow(rows[t]) /\ IsRow(configCache[t]) /\ registry[t].enabled \in BOOLEAN

\* What a request is to save, or has read.
RequestTyped(request) ==
  /\ request.at \in {"free", "sent", "run"}
  /\ request.at # "free" =>
       /\ request.kind = "save" => request.config \in Settings!Configs
       /\ request.at = "run" /\ request.kind \in {"get", "toggle"} => IsRow(request.config)
       /\ request.at = "run" /\ request.kind = "load" => \A t \in SettingTools : IsRow(request.config[t])
RequestsTyped == \A c \in Requests : RequestTyped(calls[c])

SettingsTyped == TablesTyped /\ RequestsTyped

\* A configuration with some of its fields replaced is one.
LEMMA MergedTyped ==
  ASSUME NEW config \in Settings!Configs, NEW patch,
         "enabled" \in DOMAIN patch => patch["enabled"] \in BOOLEAN,
         "refreshInterval" \in DOMAIN patch => patch["refreshInterval"] \in {None} \cup Nat,
         "notifications" \in DOMAIN patch => patch["notifications"] \in BOOLEAN
  PROVE  Settings!Merged(config, patch) \in Settings!Configs
<1> DEFINE m == Settings!Merged(config, patch)
<1>1. m = [f \in {"enabled", "refreshInterval", "notifications"} |->
             IF f \in DOMAIN patch THEN patch[f] ELSE config[f]]
  BY DEF Settings!Merged, Settings!Fields
<1>2. /\ config["enabled"] \in BOOLEAN /\ config["notifications"] \in BOOLEAN
      /\ config["refreshInterval"] \in {None} \cup Nat
  BY DEF Settings!Configs
<1>3. /\ m["enabled"] \in BOOLEAN /\ m["notifications"] \in BOOLEAN
      /\ m["refreshInterval"] \in {None} \cup Nat
  BY <1>1, <1>2
<1>4. m = [enabled |-> m["enabled"], refreshInterval |-> m["refreshInterval"],
           notifications |-> m["notifications"]]
  <2> DEFINE r == [enabled |-> m["enabled"], refreshInterval |-> m["refreshInterval"],
                   notifications |-> m["notifications"]]
             F == {"enabled", "refreshInterval", "notifications"}
  <2>1. m = [f \in F |-> m[f]]
    BY <1>1
  <2>2. r = [f \in F |-> r[f]]
    OBVIOUS
  <2>3. \A f \in F : m[f] = r[f]
    OBVIOUS
  <2> HIDE DEF m, r, F
  <2>4. [f \in F |-> m[f]] = [f \in F |-> r[f]]
    BY <2>3
  <2>5. m = r
    BY <2>1, <2>2, <2>4
  <2> QED
    BY <2>5 DEF r
<1> HIDE DEF m
<1>5. \A a, b \in BOOLEAN, n \in {None} \cup Nat :
        [enabled |-> a, refreshInterval |-> n, notifications |-> b] \in Settings!Configs
  BY DEF Settings!Configs
<1>6. [enabled |-> m["enabled"], refreshInterval |-> m["refreshInterval"],
       notifications |-> m["notifications"]] \in Settings!Configs
  BY <1>3, <1>5
<1>7. m \in Settings!Configs
  BY <1>4, <1>6, Zenon
<1> QED
  BY <1>7 DEF m

\* What a save writes is a configuration.
LEMMA SavedTyped ==
  ASSUME SettingsGiven, TablesTyped, NEW t \in SettingTools
  PROVE  /\ Settings!DefaultConfig \in Settings!Configs
         /\ \A patch \in Patches : Settings!ToSave(t, patch) \in Settings!Configs
         /\ \A x : IsRow(x) => \A y : IsRow(y) =>
              Settings!Merged(IF y = None THEN Settings!DefaultConfig ELSE y, Settings!Toggled(x)) \in Settings!Configs
<1>1. Settings!DefaultConfig \in Settings!Configs
  BY DEF Settings!DefaultConfig, Settings!Configs
<1>2. \A y : IsRow(y) => (IF y = None THEN Settings!DefaultConfig ELSE y) \in Settings!Configs
  BY <1>1 DEF IsRow
<1>3. ASSUME NEW patch \in Patches
      PROVE  Settings!ToSave(t, patch) \in Settings!Configs
  <2>1. IsRow(configCache[t])
    BY DEF TablesTyped
  <2>2. (IF configCache[t] = None THEN Settings!DefaultConfig ELSE configCache[t]) \in Settings!Configs
    BY <1>2, <2>1
  <2> QED
    BY <2>2, MergedTyped DEF SettingsGiven, Settings!ToSave
<1>4. ASSUME NEW x, IsRow(x), NEW y, IsRow(y)
      PROVE  Settings!Merged(IF y = None THEN Settings!DefaultConfig ELSE y, Settings!Toggled(x)) \in Settings!Configs
  <2> DEFINE patch == Settings!Toggled(x)
  <2>1. DOMAIN patch = {"enabled"} /\ patch["enabled"] \in BOOLEAN
    BY <1>4 DEF Settings!Toggled, IsRow, Settings!Configs
  <2> HIDE DEF patch
  <2>2. (IF y = None THEN Settings!DefaultConfig ELSE y) \in Settings!Configs
    BY <1>2, <1>4
  <2>3. Settings!Merged(IF y = None THEN Settings!DefaultConfig ELSE y, patch) \in Settings!Configs
    BY <2>1, <2>2, MergedTyped
  <2> QED
    BY <2>3 DEF patch
<1> QED
  BY <1>1, <1>3, <1>4

\* A request moves.
LEMMA RequestMoves ==
  ASSUME ConfigInv, RequestsTyped, NEW c \in Requests, NEW new, RequestTyped(new),
         calls' = [calls EXCEPT ![c] = new]
  PROVE  RequestsTyped'
<1>1. \A d \in Requests : calls'[d] = calls[d] \/ calls'[d] = new
  BY DEF ConfigInv, Shapes
<1> QED
  BY <1>1 DEF RequestsTyped, RequestTyped, IsRow

\* Nothing is known of a request that is over.
LEMMA FreeTyped == RequestTyped(Settings!Free)
  BY DEF RequestTyped, Settings!Free

\* Requests up to their statement.
LEMMA BeginningsTyped ==
  ASSUME SettingsGiven, ConfigInv, SettingsTyped, NEW c \in Requests,
         \/ Settings!Load(c)
         \/ \E t \in SettingTools :
              Settings!Post(c, t) \/ Settings!Toggle(c, t) \/ Settings!Get(c, t) \/ Settings!Delete(c, t)
  PROVE  SettingsTyped'
<1>1. UNCHANGED <<rows, configCache, registry>>
  BY DEF Settings!Load, Settings!Post, Settings!SaveBegins, Settings!Toggle, Settings!Get, Settings!Delete, Settings!Begins
<1>2. TablesTyped'
  BY <1>1 DEF SettingsTyped, TablesTyped, IsRow
<1>3. ASSUME NEW kind, NEW t, NEW patch, NEW config, kind # "save" \/ config \in Settings!Configs
      PROVE  RequestTyped(Settings!Does(kind, t, patch, config))
  BY <1>3 DEF RequestTyped, Settings!Does
<1>4. \E new : RequestTyped(new) /\ calls' = [calls EXCEPT ![c] = new]
  <2>1. CASE Settings!Load(c)
    BY <1>3, <2>1 DEF Settings!Load
  <2>2. ASSUME NEW t \in SettingTools, Settings!Post(c, t)
        PROVE  \E new : RequestTyped(new) /\ calls' = [calls EXCEPT ![c] = new]
    <3>1. PICK patch \in Patches : calls' = [calls EXCEPT ![c] = Settings!Does("save", t, patch, Settings!ToSave(t, patch))]
      BY <2>2 DEF Settings!Post, Settings!SaveBegins
    <3> QED
      BY <1>3, <3>1, SavedTyped DEF SettingsTyped
  <2>3. ASSUME NEW t \in SettingTools, Settings!Toggle(c, t)
        PROVE  \E new : RequestTyped(new) /\ calls' = [calls EXCEPT ![c] = new]
    <3> DEFINE patch == Settings!Toggled(configCache[t])
    <3>1. CASE configCache[t] = None
      <4>1. calls' = [calls EXCEPT ![c] = Settings!Does("toggle", t, Settings!NoPatch, None)]
        BY <2>3, <3>1 DEF Settings!Toggle
      <4> QED
        BY <1>3, <4>1
    <3>2. CASE configCache[t] # None
      <4>1. calls' = [calls EXCEPT ![c] = Settings!Does("save", t, patch, Settings!ToSave(t, patch))]
        BY <2>3, <3>2 DEF Settings!Toggle
      <4>2. IsRow(configCache[t])
        BY DEF SettingsTyped, TablesTyped
      <4>3. Settings!ToSave(t, patch) \in Settings!Configs
        BY <4>2, SavedTyped DEF SettingsTyped, Settings!ToSave
      <4> QED
        BY <1>3, <4>1, <4>3
    <3> QED
      BY <3>1, <3>2
  <2>4. ASSUME NEW t \in SettingTools, Settings!Get(c, t) \/ Settings!Delete(c, t)
        PROVE  \E new : RequestTyped(new) /\ calls' = [calls EXCEPT ![c] = new]
    <3>1. CASE Settings!Get(c, t)
      BY <1>3, <3>1 DEF Settings!Get
    <3>2. CASE Settings!Delete(c, t)
      BY <1>3, <3>2 DEF Settings!Delete
    <3> QED
      BY <2>4, <3>1, <3>2
  <2> QED
    BY <2>1, <2>2, <2>3, <2>4
<1> QED
  BY <1>2, <1>4, RequestMoves DEF SettingsTyped

\* A statement writes or reads a row.
LEMMA RunTyped ==
  ASSUME SettingsGiven, ConfigInv, SettingsTyped, NEW c \in Requests, Settings!Runs(c)
  PROVE  SettingsTyped'
<1> DEFINE request == calls[c]
           new == [request EXCEPT !.at = "run",
                    !.config = CASE request.kind \in {"get", "toggle"} -> rows[request.tool]
                                 [] request.kind = "load" -> rows
                                 [] OTHER -> @]
<1>1. /\ request.at = "sent" /\ calls' = [calls EXCEPT ![c] = new]
      /\ rows' = CASE request.kind = "save" -> [rows EXCEPT ![request.tool] = request.config]
                   [] request.kind = "delete" -> [rows EXCEPT ![request.tool] = None]
                   [] OTHER -> rows
      /\ UNCHANGED <<configCache, registry>>
  BY DEF Settings!Runs
<1>2. PICK at, kind, tool, patch, config :
        at \in {"sent", "run"} /\ kind \in SettingKinds /\ IsOf(request, at, kind, tool, patch, config)
  BY <1>1 DEF ConfigInv, Shapes, IsCall, Settings!Free
<1>3. RequestTyped(request) /\ \A t \in SettingTools : IsRow(rows[t])
  BY DEF SettingsTyped, RequestsTyped, TablesTyped
<1>4. /\ new.at = "run" /\ new.kind = kind
      /\ kind \in {"get", "toggle"} => new.config = rows[tool]
      /\ kind = "load" => new.config = rows
      /\ kind = "save" => new.config = config
  BY <1>2 DEF IsOf, SettingKinds
<1>5. kind = "save" => config \in Settings!Configs
  BY <1>1, <1>2, <1>3 DEF RequestTyped, IsOf
<1>6. kind # "load" => tool \in SettingTools
  BY <1>2 DEF IsOf
<1> HIDE DEF new
<1>7. RequestTyped(new)
  BY <1>3, <1>4, <1>5, <1>6 DEF RequestTyped
<1>8. RequestsTyped'
  BY <1>1, <1>7, RequestMoves DEF SettingsTyped
<1>9. \A t \in SettingTools : rows'[t] \in {rows[t], None} \/ (kind = "save" /\ rows'[t] = config)
  BY <1>1, <1>2 DEF ConfigInv, Shapes, IsOf
<1>10. \A t \in SettingTools : IsRow(rows'[t])
  BY <1>3, <1>5, <1>9 DEF IsRow
<1> QED
  BY <1>1, <1>8, <1>10 DEF SettingsTyped, TablesTyped, IsRow

\* What follows a statement.
LEMMA ReturnsTyped ==
  ASSUME SettingsGiven, ConfigInv, SettingsTyped, NEW c \in Requests,
         \/ Settings!SaveReturns(c) \/ Settings!DeleteReturns(c) \/ Settings!GetReturns(c)
         \/ Settings!ToggleReturns(c) \/ Settings!LoadReturns(c)
  PROVE  SettingsTyped'
<1> DEFINE request == calls[c]
<1>1. request.at = "run" /\ rows' = rows
  BY DEF Settings!SaveReturns, Settings!DeleteReturns, Settings!GetReturns, Settings!ToggleReturns,
    Settings!LoadReturns, Settings!Returned
<1>2. PICK at, kind, tool, patch, config :
        at \in {"sent", "run"} /\ kind \in SettingKinds /\ IsOf(request, at, kind, tool, patch, config)
  BY <1>1 DEF ConfigInv, Shapes, IsCall, Settings!Free
<1>3. /\ RequestTyped(request)
      /\ \A t \in SettingTools : IsRow(rows[t]) /\ IsRow(configCache[t]) /\ registry[t].enabled \in BOOLEAN
  BY DEF SettingsTyped, RequestsTyped, TablesTyped
<1>4. request.kind = kind /\ request.tool = tool /\ request.config = config
  BY <1>2 DEF IsOf
<1>5. kind # "load" => tool \in SettingTools
  BY <1>2 DEF IsOf
<1>6. /\ kind = "save" => config \in Settings!Configs
      /\ kind \in {"get", "toggle"} => IsRow(config)
      /\ kind = "load" => \A t \in SettingTools : IsRow(config[t])
  BY <1>1, <1>3, <1>4 DEF RequestTyped
<1>7. Settings!DefaultConfig \in Settings!Configs /\ \A x \in Settings!Configs : x.enabled \in BOOLEAN
  BY DEF Settings!DefaultConfig, Settings!Configs
<1>8. ASSUME NEW x \in Settings!Configs, NEW t \in SettingTools, NEW u \in SettingTools
      PROVE  Settings!Apply(registry, u, x)[t].enabled \in BOOLEAN
  <2>1. registry = [v \in SettingTools |-> registry[v]]
    BY DEF ConfigInv, Shapes
  <2> QED
    BY <1>3, <1>7, <2>1 DEF Settings!Apply
<1> HIDE DEF request
<1>9. CASE Settings!SaveReturns(c)
  <2>1. /\ kind = "save" /\ configCache' = [configCache EXCEPT ![tool] = config]
        /\ registry' = Settings!Apply(registry, tool, config)
        /\ calls' = [calls EXCEPT ![c] = Settings!Free]
    BY <1>4, <1>9 DEF Settings!SaveReturns, Settings!Returned, Settings!Ends, request
  <2>2. \A t \in SettingTools : configCache'[t] \in {configCache[t], config}
    BY <2>1 DEF ConfigInv, Shapes
  <2>3. TablesTyped'
    BY <1>1, <1>3, <1>5, <1>6, <1>8, <2>1, <2>2 DEF TablesTyped, IsRow
  <2> QED
    BY <2>1, <2>3, FreeTyped, RequestMoves DEF SettingsTyped
<1>10. CASE Settings!DeleteReturns(c)
  <2>1. /\ kind = "delete" /\ configCache' = [configCache EXCEPT ![tool] = None]
        /\ registry' = Settings!Apply(registry, tool, Settings!DefaultConfig)
        /\ calls' = [calls EXCEPT ![c] = Settings!Free]
    BY <1>4, <1>10 DEF Settings!DeleteReturns, Settings!Returned, Settings!Ends, request
  <2>2. \A t \in SettingTools : configCache'[t] \in {configCache[t], None}
    BY <2>1 DEF ConfigInv, Shapes
  <2>3. TablesTyped'
    BY <1>1, <1>3, <1>5, <1>7, <1>8, <2>1, <2>2 DEF TablesTyped, IsRow
  <2> QED
    BY <2>1, <2>3, FreeTyped, RequestMoves DEF SettingsTyped
<1>11. CASE Settings!GetReturns(c)
  <2>1. /\ kind = "get" /\ configCache' = [configCache EXCEPT ![tool] = IF config = None THEN @ ELSE config]
        /\ registry' = registry /\ calls' = [calls EXCEPT ![c] = Settings!Free]
    BY <1>4, <1>11 DEF Settings!GetReturns, Settings!Returned, Settings!Ends, request
  <2>2. \A t \in SettingTools : configCache'[t] \in {configCache[t], config}
    BY <2>1 DEF ConfigInv, Shapes
  <2>3. TablesTyped'
    BY <1>1, <1>3, <1>6, <2>1, <2>2 DEF TablesTyped, IsRow
  <2> QED
    BY <2>1, <2>3, FreeTyped, RequestMoves DEF SettingsTyped
<1>12. CASE Settings!ToggleReturns(c)
  <2> DEFINE over == IF configCache'[tool] = None THEN Settings!DefaultConfig ELSE configCache'[tool]
             new == Settings!Does("save", tool, Settings!Toggled(config), Settings!Merged(over, Settings!Toggled(config)))
  <2>1. /\ kind = "toggle" /\ configCache' = [configCache EXCEPT ![tool] = IF config = None THEN @ ELSE config]
        /\ registry' = registry /\ calls' = [calls EXCEPT ![c] = new]
    BY <1>4, <1>12 DEF Settings!ToggleReturns, Settings!Returned, request
  <2>2. \A t \in SettingTools : configCache'[t] \in {configCache[t], config}
    BY <2>1 DEF ConfigInv, Shapes
  <2>3. TablesTyped'
    BY <1>1, <1>3, <1>6, <2>1, <2>2 DEF TablesTyped, IsRow
  <2>4. IsRow(configCache'[tool]) /\ IsRow(config) /\ tool \in SettingTools
    BY <1>5, <1>6, <2>1, <2>3 DEF TablesTyped, IsRow
  <2>5. Settings!Merged(over, Settings!Toggled(config)) \in Settings!Configs
    BY <2>4, SavedTyped DEF SettingsTyped
  <2> HIDE DEF over
  <2>6. RequestTyped(new)
    BY <2>5 DEF RequestTyped, Settings!Does
  <2> QED
    BY <2>1, <2>3, <2>6, RequestMoves DEF SettingsTyped
<1>13. CASE Settings!LoadReturns(c)
  <2>1. /\ kind = "load"
        /\ configCache' = [t \in SettingTools |-> IF config[t] = None THEN configCache[t] ELSE config[t]]
        /\ registry' = [t \in SettingTools |->
             IF config[t] = None THEN registry[t] ELSE Settings!Apply(registry, t, config[t])[t]]
        /\ calls' = [calls EXCEPT ![c] = Settings!Free]
    BY <1>4, <1>13 DEF Settings!LoadReturns, Settings!Returned, Settings!Ends, request
  <2>2. \A t \in SettingTools : IsRow(configCache'[t])
    BY <1>3, <1>6, <2>1
  <2>3. ASSUME NEW t \in SettingTools PROVE registry'[t].enabled \in BOOLEAN
    <3>1. CASE config[t] = None
      BY <1>3, <2>1, <3>1
    <3>2. CASE config[t] # None
      <4>1. config[t] \in Settings!Configs
        BY <1>6, <2>1, <3>2 DEF IsRow
      <4>2. registry'[t] = Settings!Apply(registry, t, config[t])[t]
        BY <2>1, <3>2
      <4> QED
        BY <1>8, <4>1, <4>2
    <3> QED
      BY <3>1, <3>2
  <2>4. TablesTyped'
    BY <1>1, <1>3, <2>2, <2>3 DEF TablesTyped, IsRow
  <2> QED
    BY <2>1, <2>4, FreeTyped, RequestMoves DEF SettingsTyped
<1> QED
  BY <1>9, <1>10, <1>11, <1>12, <1>13

\* Every step.
LEMMA SettingsTypedStep ==
  ASSUME SettingsGiven, ConfigInv, SettingsTyped, [Settings!Next]_(Settings!vars)
  PROVE  SettingsTyped'
<1>1. ASSUME NEW c \in Requests, Settings!Fails(c) PROVE SettingsTyped'
  <2>1. UNCHANGED <<rows, configCache, registry>> /\ calls' = [calls EXCEPT ![c] = Settings!Free]
    BY <1>1 DEF Settings!Fails, Settings!Ends
  <2> QED
    BY <2>1, FreeTyped, RequestMoves DEF SettingsTyped, TablesTyped, IsRow
<1>2. CASE Settings!ClearCache
  BY <1>2 DEF Settings!ClearCache, SettingsTyped, TablesTyped, RequestsTyped, RequestTyped, IsRow
<1>3. CASE Settings!SyncToolEnablementFromEnv
  <2>1. UNCHANGED <<rows, configCache, calls>> /\ registry' = Settings!Synced
    BY <1>3 DEF Settings!SyncToolEnablementFromEnv
  <2>2. ASSUME NEW t \in SettingTools PROVE registry'[t].enabled \in BOOLEAN
    <3>1. registry'[t] = [registry[t] EXCEPT !.enabled = IF Flag[t] = None THEN @ ELSE Flag[t]]
      BY <2>1 DEF Settings!Synced
    <3>2. registry[t] = [enabled |-> registry[t].enabled, refreshInterval |-> registry[t].refreshInterval]
      BY DEF ConfigInv, Shapes
    <3>3. registry'[t].enabled = IF Flag[t] = None THEN registry[t].enabled ELSE Flag[t]
      BY <3>1, <3>2
    <3> QED
      BY <3>3 DEF SettingsGiven, SettingsTyped, TablesTyped
  <2> QED
    BY <2>1, <2>2 DEF SettingsTyped, TablesTyped, RequestsTyped, RequestTyped, IsRow
<1>4. CASE Settings!Restart
  <2>1. /\ rows' = rows /\ configCache' = [t \in SettingTools |-> None] /\ registry' = Settings!Starts
        /\ calls' = [c \in Requests |-> Settings!Free]
    BY <1>4 DEF Settings!Restart
  <2>2. \A t \in SettingTools : registry'[t].enabled \in BOOLEAN
    BY <2>1 DEF Settings!Starts
  <2> QED
    BY <2>1, <2>2, FreeTyped DEF SettingsTyped, TablesTyped, RequestsTyped, RequestTyped, IsRow
<1>5. CASE UNCHANGED Settings!vars
  BY <1>5 DEF Settings!vars, SettingsTyped, TablesTyped, RequestsTyped, RequestTyped, IsRow
<1> QED
  BY <1>1, <1>2, <1>3, <1>4, <1>5, BeginningsTyped, RunTyped, ReturnsTyped DEF Settings!Next

\* Nothing is configured at the start.
LEMMA SettingsTypedStart == Settings!Init => SettingsTyped
<1> SUFFICES ASSUME Settings!Init PROVE SettingsTyped
  OBVIOUS
<1>1. \A t \in SettingTools : rows[t] = None /\ configCache[t] = None /\ registry[t].enabled \in BOOLEAN
  BY DEF Settings!Init, Settings!Starts
<1>2. \A c \in Requests : calls[c] = Settings!Free
  BY DEF Settings!Init
<1> QED
  BY <1>1, <1>2, FreeTyped DEF SettingsTyped, TablesTyped, RequestsTyped, IsRow

\* The types follow.
LEMMA SettingsTypes == SettingsTyped => Settings!TypeOK
  BY DEF SettingsTyped, TablesTyped, RequestsTyped, RequestTyped, IsRow, Settings!TypeOK

-----------------------------------------------------------------------------
(* Rate limits (lib/rate-limit/index.ts).                                      *)

limitNow == v1
limitCache == v2
limitRows == v3
asking == v4
loaded == v5

USE DEF limitNow, limitCache, limitRows, asking, loaded

\* Times are numbers, null is neither a number nor an entry; a row of the table is of
\* the past, its total may be missing, what remains of it not; GitHub answers a limit
\* together with what remains of it or leaves out both, and GitLab names a time to wait
\* that is not negative, if any.
LimitsGiven ==
  /\ LimitTTL \in Nat /\ LimitDay \in Nat /\ None \notin Int
  /\ \A s, t : None # [status |-> s, expires |-> t]
  /\ \A row \in LimitRows : /\ row.updated = 0 /\ row.remaining \in Nat
                             /\ row.total \in Nat \cup {None}
  /\ \A answer \in LimitAnswers["github"] :
       /\ "core" \in DOMAIN answer
       /\ \/ answer["core"].limit = None /\ answer["core"].remaining = None
          \/ answer["core"].limit \in Nat /\ answer["core"].remaining \in Nat
  /\ \A answer \in LimitAnswers["gitlab"] : answer.retry \in Nat \cup {None}

\* A limit is known with what remains of it.
Paired(limit, remaining) == limit = None \/ (limit \in Nat /\ remaining \in Nat)

\* Statuses and rows are of the past.
StatusIsGood(p, status) ==
  /\ status.updated \in Nat /\ status.updated <= limitNow
  /\ LET usage == status.limits[Limits(p)!Primary(p)] IN Paired(usage.limit, usage.remaining)
RowIsGood(row) ==
  /\ row.updated \in Nat /\ row.updated <= limitNow
  /\ Paired(row.total, row.remaining)

LimitShapes(p) ==
  /\ limitNow \in Nat
  /\ limitCache = [q \in {p} |-> limitCache[q]]
  /\ limitRows = [q \in {p} |-> limitRows[q]]
  /\ asking = [c \in LimitCalls |-> asking[c]]

\* An entry expires a time to live after it was fetched, or after it was restored
\* from a row of the last day.
EntryIsGood(p, entry) ==
  /\ StatusIsGood(p, entry.status)
  /\ entry.expires \in Nat
  /\ entry.expires <= entry.status.updated + LimitTTL + (IF entry.status.fresh THEN 0 ELSE LimitDay)
EntriesAreRecent(p) == limitCache[p] # None => EntryIsGood(p, limitCache[p])

RowsAreOld(p) == limitRows[p] # None => RowIsGood(limitRows[p])

CallsHoldStatuses(p) ==
  \A c \in LimitCalls : asking[c] # Limits(p)!Free =>
    asking[c].platform = p /\ (asking[c].at = "save" => StatusIsGood(p, asking[c].status))
LoadHoldsRows(p) == loaded # None /\ loaded[p] # None => RowIsGood(loaded[p])

LimitsInv(p) ==
  LimitShapes(p) /\ EntriesAreRecent(p) /\ RowsAreOld(p) /\ CallsHoldStatuses(p) /\ LoadHoldsRows(p)

\* What is fetched.
LEMMA FetchedIs ==
  ASSUME LimitsGiven, NEW p \in MCPlatforms, limitNow \in Nat, NEW answer \in LimitAnswers[p]
  PROVE  LET status == Limits(p)!Status(p, answer) IN
         StatusIsGood(p, status) /\ status.updated = limitNow /\ status.fresh = TRUE
<1> DEFINE limits == Limits(p)!TransformPlatformLimits(p, answer, limitNow)
           usage == limits[Limits(p)!Primary(p)]
<1>1. Paired(usage.limit, usage.remaining)
  <2>1. CASE p = "github"
    BY <2>1 DEF LimitsGiven, Limits!TransformPlatformLimits, Limits!GitHubLimits, Limits!Usage, Limits!Primary, Paired
  <2>2. CASE p = "gitlab"
    BY <2>2 DEF Limits!TransformPlatformLimits, Limits!GitLabLimits, Limits!Global, Limits!Primary, Paired
  <2>3. CASE p = "jira"
    BY <2>3 DEF Limits!TransformPlatformLimits, Limits!JiraLimits, Limits!Global, Limits!Primary, Paired
  <2> QED BY <2>1, <2>2, <2>3 DEF MCPlatforms
<1>2. /\ Limits(p)!Status(p, answer).updated = limitNow
      /\ Limits(p)!Status(p, answer).fresh = TRUE
      /\ Limits(p)!Status(p, answer).limits = limits
  BY DEF Limits!Status
<1> QED BY <1>1, <1>2 DEF StatusIsGood

\* What is restored.
LEMMA RestoredIs ==
  ASSUME LimitsGiven, NEW p \in MCPlatforms, limitNow \in Nat, NEW row, RowIsGood(row)
  PROVE  LET status == Limits(p)!FromNormalizedRecord(p, row) IN
         /\ StatusIsGood(p, status) /\ status.updated = row.updated /\ status.fresh = FALSE
<1> DEFINE status == Limits(p)!FromNormalizedRecord(p, row)
           entry == Limits(p)!CreateLimitEntry(row.total, row.remaining, row.reset)
<1>1. entry.limit = row.total /\ entry.remaining = row.remaining
  BY DEF Limits!CreateLimitEntry
<1> HIDE DEF entry
<1>2. /\ status.updated = row.updated /\ status.fresh = FALSE
      /\ status.limits = [r \in IF p = "github" THEN {"core", "search", "graphql"} ELSE {"global"} |-> entry]
  BY DEF Limits!FromNormalizedRecord, entry
<1>3. status.limits[Limits(p)!Primary(p)] = entry
  BY <1>2 DEF Limits!Primary
<1> QED BY <1>1, <1>2, <1>3 DEF StatusIsGood, RowIsGood

\* An entry made now.
LEMMA EntryIs ==
  ASSUME LimitsGiven, NEW p \in MCPlatforms, limitNow \in Nat, NEW status, StatusIsGood(p, status),
         status.fresh \in BOOLEAN,
         limitNow <= status.updated + (IF status.fresh THEN 0 ELSE LimitDay)
  PROVE  Limits(p)!Entry(status) # None /\ EntryIsGood(p, Limits(p)!Entry(status))
<1>1. Limits(p)!Entry(status) = [status |-> status, expires |-> limitNow + LimitTTL]
  BY DEF Limits!Entry
<1>2. limitNow + LimitTTL <= status.updated + LimitTTL + (IF status.fresh THEN 0 ELSE LimitDay)
  BY DEF StatusIsGood, LimitsGiven
<1> QED BY <1>1, <1>2 DEF EntryIsGood, LimitsGiven

\* A call that goes on with a status.
LEMMA ContinuesKeeps ==
  ASSUME LimitsGiven, NEW p \in MCPlatforms, NEW c \in LimitCalls, NEW save \in BOOLEAN, NEW status,
         LimitShapes(p), CallsHoldStatuses(p), StatusIsGood(p, status),
         Limits(p)!Continues(c, p, save, status), limitNow' = limitNow
  PROVE  asking' = [d \in LimitCalls |-> asking'[d]] /\ CallsHoldStatuses(p)'
<1>1. /\ asking' = [d \in LimitCalls |-> asking'[d]]
      /\ \A d \in LimitCalls : d # c => asking'[d] = asking[d]
      /\ \/ asking'[c] = Limits(p)!Free
         \/ /\ asking'[c].platform = p /\ asking'[c].status = status
  BY DEF Limits!Continues, LimitShapes
<1> QED BY <1>1 DEF CallsHoldStatuses, StatusIsGood

\* What is swept is gone or stays.
LEMMA SweptIs ==
  ASSUME NEW p \in MCPlatforms, LimitShapes(p)
  PROVE  /\ Limits(p)!Swept(p) = [q \in {p} |-> Limits(p)!Swept(p)[q]]
         /\ Limits(p)!Swept(p)[p] = limitCache[p] \/ (Limits(p)!Swept(p)[p] = None /\ ~Limits(p)!Live(p))
  BY DEF Limits!Swept, LimitShapes

\* A call that asks for a status: what is live is answered, else the platform is asked.
LEMMA AsksKeeps ==
  ASSUME LimitsGiven, NEW p \in MCPlatforms, LimitsInv(p), NEW c \in LimitCalls, NEW save \in BOOLEAN,
         Limits(p)!Asks(c, p, save)
  PROVE  LimitsInv(p)' /\ Limits(p)!NoOlderStatus
<1>1. /\ limitCache' = Limits(p)!Swept(p)
      /\ UNCHANGED <<limitNow, limitRows, loaded>>
  BY DEF Limits!Asks
<1>2. asking' = [d \in LimitCalls |-> asking'[d]] /\ CallsHoldStatuses(p)'
  <2>1. CASE Limits(p)!Live(p)
    <3>1. Limits(p)!Continues(c, p, save, limitCache[p].status)
      BY <2>1 DEF Limits!Asks
    <3>2. StatusIsGood(p, limitCache[p].status)
      BY <2>1 DEF LimitsInv, EntriesAreRecent, EntryIsGood, Limits!Live
    <3> QED BY <1>1, <3>1, <3>2, ContinuesKeeps DEF LimitsInv
  <2>2. CASE ~Limits(p)!Live(p)
    <3>1. asking' = [asking EXCEPT ![c] = [at |-> "fetch", platform |-> p, save |-> save, status |-> None]]
      BY <2>2 DEF Limits!Asks
    <3>2. /\ asking' = [d \in LimitCalls |-> asking'[d]]
          /\ \A d \in LimitCalls : d # c => asking'[d] = asking[d]
          /\ asking'[c].at = "fetch" /\ asking'[c].platform = p
      BY <3>1 DEF LimitsInv, LimitShapes
    <3> QED BY <1>1, <3>2 DEF LimitsInv, CallsHoldStatuses, StatusIsGood
  <2> QED BY <2>1, <2>2
<1>3. limitCache' = [q \in {p} |-> limitCache'[q]] /\ (limitCache'[p] # None => limitCache'[p] = limitCache[p])
  BY <1>1, SweptIs DEF LimitsInv
<1>4. EntriesAreRecent(p)'
  BY <1>1, <1>3 DEF LimitsInv, EntriesAreRecent, EntryIsGood, StatusIsGood
<1>5. RowsAreOld(p)' /\ LoadHoldsRows(p)'
  BY <1>1 DEF LimitsInv, RowsAreOld, RowIsGood, LoadHoldsRows
<1>6. LimitShapes(p)'
  BY <1>1, <1>2, <1>3 DEF LimitsInv, LimitShapes
<1>7. limitCache[p] # None => limitCache[p].status.updated \in Nat
  BY DEF LimitsInv, EntriesAreRecent, EntryIsGood, StatusIsGood
<1>8. Limits(p)!NoOlderStatus
  BY <1>3, <1>7 DEF Limits!NoOlderStatus, Limits!Live
<1> QED BY <1>2, <1>4, <1>5, <1>6, <1>8 DEF LimitsInv

\* The platform answers: the status is cached, and a call that saves goes on.
LEMMA AnsweredKeeps ==
  ASSUME LimitsGiven, NEW p \in MCPlatforms, LimitsInv(p), NEW c \in LimitCalls, Limits(p)!Answered(c)
  PROVE  LimitsInv(p)' /\ Limits(p)!NoOlderStatus
<1>1. asking[c] # Limits(p)!Free /\ asking[c].platform = p
  BY DEF Limits!Answered, Limits!Free, LimitsInv, CallsHoldStatuses
<1>2. PICK answer \in LimitAnswers[p] :
        LET status == Limits(p)!Status(p, answer) IN
        /\ limitCache' = [limitCache EXCEPT ![p] = Limits(p)!Entry(status)]
        /\ Limits(p)!Continues(c, p, asking[c].save, status)
  BY <1>1 DEF Limits!Answered
<1>3. UNCHANGED <<limitNow, limitRows, loaded>> /\ limitNow \in Nat
  BY DEF Limits!Answered, LimitsInv, LimitShapes
<1> DEFINE status == Limits(p)!Status(p, answer)
<1>4. StatusIsGood(p, status) /\ status.updated = limitNow /\ status.fresh = TRUE
  BY <1>3, FetchedIs
<1> HIDE DEF status
<1>5. Limits(p)!Entry(status) # None /\ EntryIsGood(p, Limits(p)!Entry(status))
  <2>1. status.fresh \in BOOLEAN
    BY <1>4
  <2>2. (IF status.fresh THEN 0 ELSE LimitDay) = 0
    BY <1>4, Zenon
  <2>3. limitNow <= status.updated + (IF status.fresh THEN 0 ELSE LimitDay)
    BY <1>3, <1>4, <2>2
  <2> QED BY <1>3, <1>4, <2>1, <2>3, EntryIs
<1>6. Limits(p)!Entry(status).status = status
  BY DEF Limits!Entry
<1>7. limitCache' = [q \in {p} |-> limitCache'[q]] /\ limitCache'[p] = Limits(p)!Entry(status)
  BY <1>2 DEF LimitsInv, LimitShapes, status
<1>8. EntriesAreRecent(p)'
  BY <1>3, <1>5, <1>7 DEF EntriesAreRecent, EntryIsGood, StatusIsGood
<1>9. asking' = [d \in LimitCalls |-> asking'[d]] /\ CallsHoldStatuses(p)'
  <2>1. /\ asking' = [d \in LimitCalls |-> asking'[d]]
        /\ \A d \in LimitCalls : d # c => asking'[d] = asking[d]
        /\ asking'[c] = Limits(p)!Free \/ (asking'[c].platform = p /\ asking'[c].status = status)
    BY <1>2 DEF Limits!Continues, LimitsInv, LimitShapes, status
  <2> QED BY <1>3, <1>4, <2>1 DEF LimitsInv, CallsHoldStatuses, StatusIsGood
<1>10. RowsAreOld(p)' /\ LoadHoldsRows(p)'
  BY <1>3 DEF LimitsInv, RowsAreOld, RowIsGood, LoadHoldsRows
<1>11. LimitShapes(p)'
  BY <1>3, <1>7, <1>9 DEF LimitsInv, LimitShapes
<1>12. Limits(p)!NoOlderStatus
  BY <1>4, <1>6, <1>7 DEF LimitsInv, EntriesAreRecent, EntryIsGood, StatusIsGood, Limits!NoOlderStatus, Limits!Live
<1> QED BY <1>8, <1>9, <1>10, <1>11, <1>12 DEF LimitsInv

\* What was read of the table is put into the cache.
LEMMA LoadAppliesKeeps ==
  ASSUME LimitsGiven, NEW p \in MCPlatforms, LimitsInv(p), Limits(p)!LoadApplies
  PROVE  LimitsInv(p)' /\ Limits(p)!NoOlderStatus
<1>1. /\ UNCHANGED <<limitNow, limitRows, asking>> /\ loaded' = None /\ loaded # None
      /\ limitNow \in Nat
  BY DEF Limits!LoadApplies, LimitsInv, LimitShapes
<1> DEFINE row == loaded[p]
           status == Limits(p)!FromNormalizedRecord(p, row)
<1>2. /\ limitCache' = [q \in {p} |-> limitCache'[q]]
      /\ \/ Limits(p)!Warms(p) /\ limitCache'[p] = Limits(p)!Entry(status)
         \/ limitCache'[p] = Limits(p)!Swept(p)[p]
         \/ limitCache'[p] = limitCache[p]
  BY DEF Limits!LoadApplies
<1>3. limitCache'[p] = limitCache[p] \/ limitCache'[p] = None \/ (Limits(p)!Warms(p) /\ limitCache'[p] = Limits(p)!Entry(status))
  BY <1>2, SweptIs DEF LimitsInv
<1>4. ASSUME Limits(p)!Warms(p)
      PROVE  /\ EntryIsGood(p, Limits(p)!Entry(status)) /\ Limits(p)!Entry(status).status.updated = row.updated
             /\ Limits(p)!Live(p) => limitCache[p].status.updated <= row.updated
  <2>1. RowIsGood(row) /\ limitNow - row.updated <= LimitDay
        /\ ~(Limits(p)!Live(p) /\ limitCache[p].status.updated > row.updated)
    BY <1>1, <1>4 DEF LimitsInv, LoadHoldsRows, Limits!Warms
  <2>2. StatusIsGood(p, status) /\ status.updated = row.updated /\ status.fresh = FALSE
    BY <1>1, <2>1, RestoredIs
  <2> HIDE DEF status, row
  <2>3. limitNow <= status.updated + (IF status.fresh THEN 0 ELSE LimitDay)
    BY <1>1, <2>1, <2>2 DEF RowIsGood, LimitsGiven
  <2>4. EntryIsGood(p, Limits(p)!Entry(status))
    BY <1>1, <2>2, <2>3, EntryIs
  <2>5. Limits(p)!Entry(status).status = status
    BY DEF Limits!Entry
  <2>6. Limits(p)!Live(p) => limitCache[p].status.updated \in Nat
    BY DEF LimitsInv, EntriesAreRecent, EntryIsGood, StatusIsGood, Limits!Live
  <2> QED BY <2>1, <2>2, <2>4, <2>5, <2>6 DEF RowIsGood
<1> HIDE DEF status, row
<1>5. EntriesAreRecent(p)'
  BY <1>1, <1>3, <1>4 DEF LimitsInv, EntriesAreRecent, EntryIsGood, StatusIsGood
<1>6. Limits(p)!NoOlderStatus
  BY <1>3, <1>4 DEF LimitsInv, EntriesAreRecent, EntryIsGood, StatusIsGood, Limits!NoOlderStatus, Limits!Live
<1>7. LimitShapes(p)' /\ LoadHoldsRows(p)' /\ RowsAreOld(p)' /\ CallsHoldStatuses(p)'
  BY <1>1, <1>2 DEF LimitsInv, LimitShapes, LoadHoldsRows, RowsAreOld, RowIsGood, CallsHoldStatuses, StatusIsGood
<1> QED BY <1>5, <1>6, <1>7 DEF LimitsInv

\* Every step.
LEMMA LimitsStep ==
  ASSUME LimitsGiven, NEW p \in MCPlatforms
  PROVE  LimitsInv(p) /\ [Limits(p)!Next]_(Limits(p)!vars) => LimitsInv(p)' /\ Limits(p)!NoOlderStatus
<1> SUFFICES ASSUME LimitsInv(p), [Limits(p)!Next]_(Limits(p)!vars) PROVE LimitsInv(p)' /\ Limits(p)!NoOlderStatus
  OBVIOUS
<1>0. limitNow \in Nat
  BY DEF LimitsInv, LimitShapes
<1>1. ASSUME NEW c \in LimitCalls, NEW q \in {p}, NEW save \in BOOLEAN, Limits(p)!Asks(c, q, save)
      PROVE  LimitsInv(p)' /\ Limits(p)!NoOlderStatus
  BY <1>1, AsksKeeps
<1>2. ASSUME NEW c \in LimitCalls, Limits(p)!Answered(c)
      PROVE  LimitsInv(p)' /\ Limits(p)!NoOlderStatus
  BY <1>2, AnsweredKeeps
<1>4. CASE Limits(p)!LoadApplies
  BY <1>4, LoadAppliesKeeps
<1>5. ASSUME /\ limitNow' \in Nat /\ limitNow' >= limitNow
             /\ limitRows' = limitRows
             /\ limitCache' = limitCache \/ limitCache' = [q \in {p} |-> None]
             /\ asking' = [c \in LimitCalls |-> asking'[c]]
             /\ \A c \in LimitCalls : asking'[c] \in {asking[c], Limits(p)!Free}
             /\ loaded' \in {loaded, None, limitRows}
      PROVE  LimitsInv(p)' /\ Limits(p)!NoOlderStatus
  <2>1. LimitShapes(p)'
    BY <1>5 DEF LimitsInv, LimitShapes
  <2>2. EntriesAreRecent(p)'
    BY <1>0, <1>5 DEF LimitsInv, EntriesAreRecent, EntryIsGood, StatusIsGood
  <2>3. RowsAreOld(p)' /\ LoadHoldsRows(p)'
    BY <1>0, <1>5 DEF LimitsInv, RowsAreOld, LoadHoldsRows, RowIsGood
  <2>4. CallsHoldStatuses(p)'
    BY <1>0, <1>5 DEF LimitsInv, CallsHoldStatuses, StatusIsGood
  <2>5. Limits(p)!NoOlderStatus
    BY <1>5 DEF LimitsInv, EntriesAreRecent, EntryIsGood, StatusIsGood, Limits!NoOlderStatus, Limits!Live
  <2> QED BY <2>1, <2>2, <2>3, <2>4, <2>5 DEF LimitsInv
<1>6. ASSUME NEW c \in LimitCalls, Limits(p)!Fails(c) \/ Limits(p)!Upsert(c)
      PROVE  LimitsInv(p)' /\ Limits(p)!NoOlderStatus
  BY <1>0, <1>5, <1>6 DEF Limits!Fails, Limits!Upsert, LimitsInv, LimitShapes
<1>7. CASE \/ Limits(p)!LoadReads \/ Limits(p)!LoadFails \/ Limits(p)!ClearCache \/ Limits(p)!Restart
           \/ Limits(p)!Tick \/ UNCHANGED Limits(p)!vars
  BY <1>0, <1>5, <1>7 DEF Limits!LoadReads, Limits!LoadFails, Limits!ClearCache, Limits!Restart, Limits!Tick,
    Limits!vars, LimitsInv, LimitShapes
<1> QED BY <1>1, <1>2, <1>4, <1>6, <1>7 DEF Limits!Next

\* At the start nothing is cached or asked.
LEMMA LimitsStart ==
  ASSUME LimitsGiven, NEW p \in MCPlatforms
  PROVE  Limits(p)!Init => LimitsInv(p)
<1> SUFFICES ASSUME Limits(p)!Init PROVE LimitsInv(p)
  OBVIOUS
<1>1. limitNow = 0 /\ limitRows \in [{p} -> {None} \cup LimitRows]
  BY DEF Limits!Init
<1>2. RowsAreOld(p)
  BY <1>1 DEF RowsAreOld, RowIsGood, Paired, LimitsGiven
<1> QED
  BY <1>1, <1>2 DEF Limits!Init, LimitsInv, LimitShapes, EntriesAreRecent, CallsHoldStatuses, LoadHoldsRows

\* The share of a limit that is used, and the same between 0 and 100, are of one level.
LEMMA ClampedLevel ==
  ASSUME LimitsGiven, NEW p, NEW x \in Int
  PROVE  Limits(p)!Level(Limits(p)!Clamp(x)) = Limits(p)!Level(x)
<1>1. Limits(p)!Clamp(x) \in Int /\ x # None /\ Limits(p)!Clamp(x) # None
  BY DEF Limits!Clamp, LimitsGiven
<1>2. /\ Limits(p)!Clamp(x) >= 90 <=> x >= 90
      /\ Limits(p)!Clamp(x) < 90 /\ Limits(p)!Clamp(x) >= 75 <=> x < 90 /\ x >= 75
  BY DEF Limits!Clamp
<1> HIDE DEF limitNow
<1> QED BY <1>1, <1>2 DEF Limits!Level

\* What a row of a known limit is restored to.
LEMMA LevelIsKept ==
  ASSUME LimitsGiven, NEW p, NEW limit \in Nat, NEW remaining \in Nat
  PROVE  Limits(p)!RestoredLevel(limit, remaining) = Limits(p)!Level(Limits(p)!Usage(limit, remaining, None, None).percent)
<1> DEFINE x == (100 * (limit - remaining)) \div limit
<1>2. CASE limit = 0
  <2>1. None \notin {limit, remaining} /\ 0 # None
    BY <1>2 DEF LimitsGiven
  <2>2. Limits(p)!Usage(limit, remaining, None, None).percent = 0
    BY <1>2, <2>1 DEF Limits!Usage
  <2> QED BY <1>2, <2>1, <2>2 DEF Limits!RestoredLevel, Limits!Level
<1>3. CASE limit > 0
  <2>1. x \in Int
    BY <1>3
  <2>2. None \notin {limit, remaining} /\ limit # 0
    BY <1>3 DEF LimitsGiven
  <2>3. Limits(p)!Usage(limit, remaining, None, None).percent = Limits(p)!Clamp(x)
    BY <1>3, <2>2 DEF Limits!Usage
  <2>4. Limits(p)!RestoredLevel(limit, remaining) = Limits(p)!Level(x)
    BY <2>2 DEF Limits!RestoredLevel
  <2> HIDE DEF x
  <2> QED BY <2>1, <2>3, <2>4, ClampedLevel
<1> QED BY <1>2, <1>3

\* A restored status has the level of its row.
LEMMA LevelsPromise ==
  ASSUME LimitsGiven, NEW p \in MCPlatforms, LimitsInv(p)
  PROVE  Limits(p)!RestoredLevelIsTheRows
<1> DEFINE row == limitRows[p]
<1> SUFFICES ASSUME row # None, row.total # None
             PROVE  Limits(p)!FromNormalizedRecord(p, row).level =
                      Limits(p)!Level(Limits(p)!Usage(row.total, row.remaining, None, None).percent)
  BY DEF Limits!RestoredLevelIsTheRows
<1>1. row.total \in Nat /\ row.remaining \in Nat
  BY DEF LimitsInv, RowsAreOld, RowIsGood, Paired
<1>2. Limits(p)!FromNormalizedRecord(p, row).level = Limits(p)!RestoredLevel(row.total, row.remaining)
  BY DEF Limits!FromNormalizedRecord
<1> HIDE DEF row
<1> QED BY <1>1, <1>2, LevelIsKept

\* What is live in the cache is recent.
LEMMA RecentPromise ==
  ASSUME LimitsGiven, NEW p \in MCPlatforms, LimitsInv(p)
  PROVE  Limits(p)!CachedIsRecent
  BY DEF LimitsGiven, LimitsInv, LimitShapes, EntriesAreRecent, EntryIsGood, StatusIsGood, Limits!CachedIsRecent, Limits!Live

\* A handler's answer is read as it was by the older functions, but for the time to
\* retry.
LEMMA AnswersAgree ==
  ASSUME LimitsGiven, NEW p \in MCPlatforms, NEW answer \in LimitAnswers[p]
  PROVE  LET old == Limits(p)!OldTransform(p, answer, limitNow)
             new == Limits(p)!TransformPlatformLimits(p, answer, limitNow)
         IN /\ DOMAIN old = DOMAIN new
            /\ \A r \in DOMAIN new : [old[r] EXCEPT !.retry = None] = [new[r] EXCEPT !.retry = None]
<1>1. CASE p = "github"
  BY <1>1 DEF Limits!OldTransform, Limits!TransformPlatformLimits
<1>2. CASE p = "jira"
  BY <1>2 DEF Limits!OldTransform, Limits!TransformPlatformLimits
<1>3. CASE p = "gitlab"
  <2> DEFINE old == Limits(p)!OldGitLabLimits(answer, limitNow)
             new == Limits(p)!GitLabLimits(answer, limitNow)
             waits == answer.retry \notin {None, 0}
             percent == CASE answer.code = 429 -> 100
                          [] answer.code # 429 /\ waits -> 90
                          [] answer.code = 200 /\ ~waits -> 10
                          [] OTHER -> None
             after == IF waits THEN limitNow + answer.retry ELSE None
             usage(retry) == [limit |-> None, remaining |-> None, percent |-> percent, reset |-> after, retry |-> retry]
  <2>1. answer.retry = None \/ answer.retry \in Nat
    BY <1>3 DEF LimitsGiven
  <2>2. waits <=> answer.retry # None /\ answer.retry > 0
    BY <2>1 DEF LimitsGiven
  <2>3. old = [global |-> usage(answer.retry)]
    <3>1. (IF answer.code = 429 THEN 100 ELSE IF answer.retry # None /\ answer.retry > 0 THEN 90
           ELSE IF answer.code = 200 THEN 10 ELSE None) = percent
      BY <2>2
    <3>2. Limits(p)!After(limitNow, answer.retry) = after
      BY DEF Limits!After
    <3> HIDE DEF percent, after, waits
    <3> QED BY <3>1, <3>2 DEF Limits!OldGitLabLimits, Limits!Global
  <2>4. new = [global |-> usage(IF waits THEN answer.retry ELSE None)]
    <3>1. Limits(p)!After(limitNow, IF waits THEN answer.retry ELSE None) = after
      BY DEF Limits!After
    <3> QED BY <3>1 DEF Limits!GitLabLimits, Limits!Global
  <2> HIDE DEF old, new, waits, percent, after
  <2>5. [usage(answer.retry) EXCEPT !.retry = None] = [usage(IF waits THEN answer.retry ELSE None) EXCEPT !.retry = None]
    OBVIOUS
  <2>6. Limits(p)!OldTransform(p, answer, limitNow) = old /\ Limits(p)!TransformPlatformLimits(p, answer, limitNow) = new
    BY <1>3 DEF Limits!OldTransform, Limits!TransformPlatformLimits, old, new
  <2> QED BY <2>3, <2>4, <2>5, <2>6
<1> QED BY <1>1, <1>2, <1>3 DEF MCPlatforms

\* A row is restored as it was by the older functions.
LEMMA RowsAgree ==
  ASSUME LimitsGiven, NEW p \in MCPlatforms, NEW row, Paired(row.total, row.remaining)
  PROVE  Limits(p)!OldRestored(p, row) = Limits(p)!FromNormalizedRecord(p, row)
<1> DEFINE numbers == None \notin {row.total, row.remaining}
           truthy == numbers /\ row.total # 0 /\ row.remaining # 0
           raw == (100 * (row.total - row.remaining)) \div row.total
           percent == IF truthy THEN (IF raw > 100 THEN 100 ELSE raw) ELSE None
           entry == [limit |-> row.total, remaining |-> row.remaining, reset |-> row.reset,
                     retry |-> None, percent |-> percent]
           level == IF ~numbers THEN "unknown" ELSE IF row.total = 0 THEN "normal" ELSE Limits(p)!Level(raw)
           status == [updated |-> row.updated, fresh |-> FALSE, level |-> level,
                      limits |-> [r \in IF p = "github" THEN {"core", "search", "graphql"} ELSE {"global"} |-> entry]]
<1>1. ({row.total, row.remaining} \cap {None, 0} = {}) <=> truthy
  OBVIOUS
<1>2. truthy => Limits(p)!Min({100, raw}) = IF raw > 100 THEN 100 ELSE raw
  <2> SUFFICES ASSUME truthy PROVE Limits(p)!Min({100, raw}) = IF raw > 100 THEN 100 ELSE raw
    OBVIOUS
  <2>1. raw \in Int
    BY DEF Paired
  <2> HIDE DEF raw
  <2> DEFINE m == IF raw > 100 THEN 100 ELSE raw
  <2>2. m \in {100, raw} /\ (\A y \in {100, raw} : m <= y)
    BY <2>1
  <2>3. \A x \in {100, raw} : (\A y \in {100, raw} : x <= y) => x = m
    BY <2>1
  <2> HIDE DEF m
  <2> QED BY <2>2, <2>3 DEF Limits!Min, m
<1>3. Limits(p)!CreateLimitEntry(row.total, row.remaining, row.reset) = entry
  BY <1>1 DEF Limits!CreateLimitEntry
<1>4. Limits(p)!FromNormalizedRecord(p, row) = status
  <2> HIDE DEF entry
  <2> QED BY <1>3 DEF Limits!FromNormalizedRecord, Limits!RestoredLevel
<1>5. (IF truthy THEN Limits(p)!Min({100, raw}) ELSE None) = percent
  BY <1>2
<1>6. Limits(p)!OldRestored(p, row) =
        LET e == [limit |-> row.total, remaining |-> row.remaining, reset |-> row.reset, retry |-> None,
                  percent |-> IF truthy THEN Limits(p)!Min({100, raw}) ELSE None] IN
        [updated |-> row.updated, fresh |-> FALSE, level |-> level,
         limits |-> IF p = "github" THEN [r \in {"core", "search", "graphql"} |-> e] ELSE [global |-> e]]
  BY DEF Limits!OldRestored
<1> HIDE DEF percent, truthy, level
<1>7. Limits(p)!OldRestored(p, row) =
        [updated |-> row.updated, fresh |-> FALSE, level |-> level,
         limits |-> IF p = "github" THEN [r \in {"core", "search", "graphql"} |-> entry] ELSE [global |-> entry]]
  BY <1>5, <1>6
<1> HIDE DEF entry
<1>8. [global |-> entry] = [r \in {"global"} |-> entry]
  OBVIOUS
<1> DEFINE given == IF p = "github" THEN [r \in {"core", "search", "graphql"} |-> entry] ELSE [global |-> entry]
           made == [r \in IF p = "github" THEN {"core", "search", "graphql"} ELSE {"global"} |-> entry]
<1>9. given = made
  <2>1. CASE p = "github"
    BY <2>1
  <2>2. CASE p # "github"
    BY <1>8, <2>2
  <2> QED BY <2>1, <2>2
<1>10. Limits(p)!OldRestored(p, row) = [updated |-> row.updated, fresh |-> FALSE, level |-> level, limits |-> given]
  BY <1>7
<1>11. Limits(p)!FromNormalizedRecord(p, row) = [updated |-> row.updated, fresh |-> FALSE, level |-> level, limits |-> made]
  BY <1>4
<1> HIDE DEF given, made
<1> QED BY <1>9, <1>10, <1>11

\* The service answers, saves and restores as the functions it replaces.
LEMMA ReplacesPromise ==
  ASSUME LimitsGiven, NEW p \in MCPlatforms, LimitsInv(p)
  PROVE  Limits(p)!ReplacesTheOldFunctions
<1>1. \A status : Limits(p)!OldRecord(p, status) = Limits(p)!ToNormalizedRecord(p, status)
  BY DEF Limits!OldRecord, Limits!ToNormalizedRecord
<1>2. limitRows[p] # None => Limits(p)!OldRestored(p, limitRows[p]) = Limits(p)!FromNormalizedRecord(p, limitRows[p])
  BY RowsAgree DEF LimitsInv, RowsAreOld, RowIsGood
<1> QED BY <1>1, <1>2, AnswersAgree DEF Limits!ReplacesTheOldFunctions

-----------------------------------------------------------------------------
(* The types of the rate limits.                                               *)

\* Null is no status.
LimitsSane ==
  /\ LimitsGiven /\ LimitTime \in Nat
  /\ \A a, b, c, d : None # [updated |-> a, fresh |-> b, level |-> c, limits |-> d]

\* A status is none of nothing, and has one of four levels.
IsLimitStatus(p, status) == status # None /\ status.level \in Limits(p)!Levels

\* What the cache, the table and the calls hold.
CacheTyped(p) ==
  limitCache[p] # None => /\ IsLimitStatus(p, limitCache[p].status)
                          /\ limitCache[p].expires \in LimitTTL .. limitNow + LimitTTL
IsAsking(p, asked) ==
  asked.at \in {"free", "fetch", "save"} /\ (asked.at = "save" => IsLimitStatus(p, asked.status))
AskingTyped(p) == \A c \in LimitCalls : IsAsking(p, asking[c])
LimitsTyped(p) == limitNow <= LimitTime /\ CacheTyped(p) /\ AskingTyped(p)

\* What is fetched, or restored, is a status.
LEMMA StatusesTyped ==
  ASSUME LimitsSane, NEW p \in MCPlatforms
  PROVE  /\ \A answer : IsLimitStatus(p, Limits(p)!Status(p, answer))
         /\ \A row : IsLimitStatus(p, Limits(p)!FromNormalizedRecord(p, row))
<1>1. \A percent : Limits(p)!Level(percent) \in Limits(p)!Levels
  BY DEF Limits!Level, Limits!Levels
<1>2. ASSUME NEW answer PROVE IsLimitStatus(p, Limits(p)!Status(p, answer))
  <2>1. \A limits : Limits(p)!OverallStatus(limits) \in Limits(p)!Levels
    BY <1>1, Zenon DEF Limits!OverallStatus
  <2> DEFINE limits == Limits(p)!TransformPlatformLimits(p, answer, limitNow)
  <2>2. Limits(p)!Status(p, answer) =
          [updated |-> limitNow, fresh |-> TRUE, level |-> Limits(p)!OverallStatus(limits), limits |-> limits]
    BY DEF Limits!Status
  <2> HIDE DEF limits
  <2> QED
    BY <2>1, <2>2 DEF IsLimitStatus, LimitsSane
<1>3. ASSUME NEW row PROVE IsLimitStatus(p, Limits(p)!FromNormalizedRecord(p, row))
  <2>1. \A a, b : Limits(p)!RestoredLevel(a, b) \in Limits(p)!Levels
    BY <1>1 DEF Limits!RestoredLevel, Limits!Levels
  <2>2. PICK limits : Limits(p)!FromNormalizedRecord(p, row) =
          [updated |-> row.updated, fresh |-> FALSE, level |-> Limits(p)!RestoredLevel(row.total, row.remaining),
           limits |-> limits]
    BY DEF Limits!FromNormalizedRecord
  <2> QED
    BY <2>1, <2>2 DEF IsLimitStatus, LimitsSane
<1> QED
  BY <1>2, <1>3

\* An entry made now expires a time to live from now.
LEMMA EntryTyped ==
  ASSUME LimitsSane, NEW p \in MCPlatforms, limitNow \in Nat, NEW status, IsLimitStatus(p, status)
  PROVE  /\ IsLimitStatus(p, Limits(p)!Entry(status).status)
         /\ Limits(p)!Entry(status).expires \in LimitTTL .. limitNow + LimitTTL
<1>1. /\ Limits(p)!Entry(status).status = status
      /\ Limits(p)!Entry(status).expires = limitNow + LimitTTL
  BY DEF Limits!Entry
<1> QED
  BY <1>1 DEF LimitsSane, LimitsGiven

\* A call moves.
LEMMA AskingMoves ==
  ASSUME NEW p \in MCPlatforms, LimitShapes(p), AskingTyped(p), NEW c \in LimitCalls, NEW new,
         IsAsking(p, new),
         asking' = [asking EXCEPT ![c] = new]
  PROVE  AskingTyped(p)'
<1>1. \A d \in LimitCalls : asking'[d] = asking[d] \/ asking'[d] = new
  BY DEF LimitShapes
<1> QED
  BY <1>1 DEF AskingTyped, IsAsking, IsLimitStatus

\* A call goes on to save a status, or ends.
LEMMA ContinuesTyped ==
  ASSUME NEW p \in MCPlatforms, LimitShapes(p), AskingTyped(p), NEW c \in LimitCalls, NEW save \in BOOLEAN,
         NEW status, IsLimitStatus(p, status), Limits(p)!Continues(c, p, save, status)
  PROVE  AskingTyped(p)'
<1> DEFINE new == IF save THEN [at |-> "save", platform |-> p, save |-> TRUE, status |-> status] ELSE Limits(p)!Free
<1>1. asking' = [asking EXCEPT ![c] = new]
  BY DEF Limits!Continues
<1>2. IsAsking(p, new)
  BY DEF Limits!Free, IsAsking
<1> HIDE DEF new
<1> QED
  BY <1>1, <1>2, AskingMoves

\* Nothing is cached that was not.
LEMMA CacheStays ==
  ASSUME NEW p \in MCPlatforms, CacheTyped(p), limitNow' = limitNow,
         limitCache'[p] # None => limitCache'[p] = limitCache[p]
  PROVE  CacheTyped(p)'
BY DEF CacheTyped, IsLimitStatus

\* Every step.
LEMMA LimitsTypedStep ==
  ASSUME LimitsSane, NEW p \in MCPlatforms, LimitsInv(p), LimitsTyped(p), [Limits(p)!Next]_(Limits(p)!vars)
  PROVE  LimitsTyped(p)'
<1>1. LimitShapes(p) /\ limitNow \in Nat /\ AskingTyped(p) /\ CacheTyped(p) /\ limitNow <= LimitTime
  BY DEF LimitsInv, LimitShapes, LimitsTyped
<1>2. IsAsking(p, Limits(p)!Free)
  BY DEF Limits!Free, IsAsking
<1>3. ASSUME NEW c \in LimitCalls, NEW save \in BOOLEAN, Limits(p)!Asks(c, p, save) PROVE LimitsTyped(p)'
  <2>1. limitCache' = Limits(p)!Swept(p) /\ UNCHANGED <<limitNow, limitRows>>
    BY <1>3 DEF Limits!Asks
  <2>2. CacheTyped(p)'
    BY <1>1, <2>1, SweptIs, CacheStays
  <2>3. AskingTyped(p)'
    <3>1. CASE Limits(p)!Live(p)
      <4>1. Limits(p)!Continues(c, p, save, limitCache[p].status)
        BY <1>3, <3>1 DEF Limits!Asks
      <4>2. IsLimitStatus(p, limitCache[p].status)
        BY <1>1, <3>1 DEF Limits!Live, CacheTyped
      <4> QED
        BY <1>1, <4>1, <4>2, ContinuesTyped
    <3>2. CASE ~Limits(p)!Live(p)
      <4> DEFINE new == [at |-> "fetch", platform |-> p, save |-> save, status |-> None]
      <4>1. asking' = [asking EXCEPT ![c] = new] /\ IsAsking(p, new)
        BY <1>3, <3>2 DEF Limits!Asks, IsAsking
      <4> HIDE DEF new
      <4> QED
        BY <1>1, <4>1, AskingMoves
    <3> QED
      BY <3>1, <3>2
  <2> QED
    BY <1>1, <2>1, <2>2, <2>3 DEF LimitsTyped
<1>4. ASSUME NEW c \in LimitCalls, Limits(p)!Answered(c) PROVE LimitsTyped(p)'
  <2>1. asking[c] # Limits(p)!Free /\ asking[c].platform = p
    BY <1>4 DEF Limits!Answered, Limits!Free, LimitsInv, CallsHoldStatuses
  <2>2. PICK status :
          /\ IsLimitStatus(p, status)
          /\ limitCache' = [limitCache EXCEPT ![p] = Limits(p)!Entry(status)]
          /\ Limits(p)!Continues(c, p, asking[c].save, status)
    BY <1>4, <2>1, StatusesTyped DEF Limits!Answered
  <2>3. UNCHANGED <<limitNow, limitRows>>
    BY <1>4 DEF Limits!Answered
  <2>4. AskingTyped(p)'
    <3> DEFINE new == IF asking[c].save THEN [at |-> "save", platform |-> p, save |-> TRUE, status |-> status]
                      ELSE Limits(p)!Free
    <3>1. asking' = [asking EXCEPT ![c] = new]
      BY <2>2 DEF Limits!Continues
    <3>2. IsAsking(p, new)
      BY <1>2, <2>2 DEF IsAsking
    <3> HIDE DEF new
    <3> QED
      BY <1>1, <2>2, <3>1, <3>2, AskingMoves
  <2>5. CacheTyped(p)'
    <3>1. limitCache'[p] = Limits(p)!Entry(status)
      BY <1>1, <2>2 DEF LimitShapes
    <3>2. /\ IsLimitStatus(p, Limits(p)!Entry(status).status)
          /\ Limits(p)!Entry(status).expires \in LimitTTL .. limitNow + LimitTTL
      BY <1>1, <2>2, EntryTyped
    <3> QED
      BY <2>3, <3>1, <3>2 DEF CacheTyped, IsLimitStatus
  <2> QED
    BY <1>1, <2>3, <2>4, <2>5 DEF LimitsTyped
<1>5. ASSUME NEW c \in LimitCalls, Limits(p)!Fails(c) \/ Limits(p)!Upsert(c) PROVE LimitsTyped(p)'
  <2>1. asking' = [asking EXCEPT ![c] = Limits(p)!Free] /\ UNCHANGED <<limitNow, limitCache, limitRows>>
    BY <1>5 DEF Limits!Fails, Limits!Upsert
  <2>2. AskingTyped(p)'
    BY <1>1, <1>2, <2>1, AskingMoves
  <2> QED
    BY <1>1, <2>1, <2>2, CacheStays DEF LimitsTyped
<1>7. CASE Limits(p)!LoadApplies
  <2>1. UNCHANGED <<limitNow, limitRows, asking>>
    BY <1>7 DEF Limits!LoadApplies
  <2>2. limitCache'[p] \in {Limits(p)!Entry(Limits(p)!FromNormalizedRecord(p, loaded[p])),
                            Limits(p)!Swept(p)[p], limitCache[p]}
    BY <1>7 DEF Limits!LoadApplies
  <2>3. CASE limitCache'[p] = Limits(p)!Entry(Limits(p)!FromNormalizedRecord(p, loaded[p]))
    <3> DEFINE status == Limits(p)!FromNormalizedRecord(p, loaded[p])
    <3>1. IsLimitStatus(p, status)
      BY StatusesTyped
    <3> HIDE DEF status
    <3>2. /\ IsLimitStatus(p, Limits(p)!Entry(status).status)
          /\ Limits(p)!Entry(status).expires \in LimitTTL .. limitNow + LimitTTL
      BY <1>1, <3>1, EntryTyped
    <3>3. limitCache'[p] = Limits(p)!Entry(status)
      BY <2>3 DEF status
    <3> QED
      BY <1>1, <2>1, <3>2, <3>3 DEF LimitsTyped, CacheTyped, IsLimitStatus, AskingTyped, IsAsking
  <2>4. CASE limitCache'[p] \in {Limits(p)!Swept(p)[p], limitCache[p]}
    <3>1. limitCache'[p] # None => limitCache'[p] = limitCache[p]
      BY <1>1, <2>4, SweptIs
    <3> QED
      BY <1>1, <2>1, <3>1, CacheStays DEF LimitsTyped, AskingTyped, IsAsking, IsLimitStatus
  <2> QED
    BY <2>2, <2>3, <2>4
<1>8. CASE Limits(p)!ClearCache \/ Limits(p)!Restart
  <2>1. limitCache'[p] = None /\ UNCHANGED <<limitNow, limitRows>>
        /\ (asking' = asking \/ asking' = [c \in LimitCalls |-> Limits(p)!Free])
    BY <1>8 DEF Limits!ClearCache, Limits!Restart
  <2>2. AskingTyped(p)'
    BY <1>1, <1>2, <2>1 DEF AskingTyped, IsAsking, IsLimitStatus
  <2> QED
    BY <1>1, <2>1, <2>2, CacheStays DEF LimitsTyped
<1>9. CASE Limits(p)!LoadReads \/ Limits(p)!LoadFails \/ UNCHANGED Limits(p)!vars
  <2>1. UNCHANGED <<limitNow, limitCache, limitRows, asking>>
    BY <1>9 DEF Limits!LoadReads, Limits!LoadFails, Limits!vars
  <2> QED
    BY <1>1, <2>1 DEF LimitsTyped, CacheTyped, IsLimitStatus, AskingTyped, IsAsking
<1>10. CASE Limits(p)!Tick
  <2>1. /\ limitNow < LimitTime /\ limitNow' = limitNow + 1
        /\ UNCHANGED <<limitCache, limitRows, asking>>
    BY <1>10 DEF Limits!Tick
  <2>2. limitNow' \in Nat /\ limitNow' <= LimitTime /\ LimitTTL \in Nat
    BY <1>1, <2>1 DEF LimitsSane, LimitsGiven
  <2>3. CacheTyped(p)'
    BY <1>1, <2>1, <2>2 DEF CacheTyped, IsLimitStatus
  <2> QED
    BY <1>1, <2>1, <2>2, <2>3 DEF LimitsTyped, AskingTyped, IsAsking, IsLimitStatus
<1> QED
  BY <1>3, <1>4, <1>5, <1>7, <1>8, <1>9, <1>10 DEF Limits!Next

\* Nothing is known at the start.
LEMMA LimitsTypedStart ==
  ASSUME LimitsSane, NEW p \in MCPlatforms, Limits(p)!Init
  PROVE  LimitsTyped(p)
BY DEF Limits!Init, Limits!Free, LimitsTyped, CacheTyped, AskingTyped, IsAsking, LimitsSane

\* The types follow.
LEMMA LimitsTypes ==
  ASSUME LimitsSane, NEW p \in MCPlatforms, LimitsInv(p), LimitsTyped(p)
  PROVE  Limits(p)!TypeOK
<1>1. /\ limitNow \in 0..LimitTime /\ LimitTTL \in Nat /\ LimitTime \in Nat
      /\ AskingTyped(p)
  BY DEF LimitsInv, LimitShapes, LimitsTyped, LimitsSane, LimitsGiven
<1>2. limitCache[p] # None => /\ limitCache[p].status.level \in Limits(p)!Levels
                              /\ limitCache[p].status.updated \in 0..limitNow
                              /\ limitCache[p].expires \in limitNow - LimitTime .. limitNow + LimitTTL
  <2> SUFFICES ASSUME limitCache[p] # None
               PROVE  /\ limitCache[p].status.level \in Limits(p)!Levels
                      /\ limitCache[p].status.updated \in 0..limitNow
                      /\ limitCache[p].expires \in limitNow - LimitTime .. limitNow + LimitTTL
    OBVIOUS
  <2>1. StatusIsGood(p, limitCache[p].status)
    BY DEF LimitsInv, EntriesAreRecent, EntryIsGood
  <2>2. limitCache[p].expires \in LimitTTL .. limitNow + LimitTTL /\ IsLimitStatus(p, limitCache[p].status)
    BY DEF LimitsTyped, CacheTyped
  <2>3. limitCache[p].status.updated \in 0..limitNow
    BY <1>1, <2>1 DEF StatusIsGood
  <2> QED
    BY <1>1, <2>2, <2>3 DEF IsLimitStatus
<1>3. limitRows[p] # None => limitRows[p].updated \in 0..limitNow
  BY <1>1 DEF LimitsInv, RowsAreOld, RowIsGood
<1> QED
  BY <1>1, <1>2, <1>3 DEF Limits!TypeOK, AskingTyped, IsAsking

-----------------------------------------------------------------------------
(* The unified OAuth service (lib/oauth/index.ts).                             *)

oauthNow == v1
env == v2
starts == v3
cookie == v4
cookies == v5
tokens == v6
tokenCalls == v7
gone == v8

USE DEF oauthNow, env, starts, cookie, cookies, tokens, tokenCalls, gone

\* A state cookie lives for some time; null is neither a number, a set of calls, a
\* cookie nor tokens.
UnifiedGiven ==
  /\ StateAge \in Nat \ {0} /\ None \notin Nat /\ None \notin SUBSET Requests
  /\ \A a, b : None # [provider |-> a, at |-> b] /\ None # [state |-> a, at |-> b]
  /\ \A a, b : None # [expires |-> a, refresh |-> b]
  /\ \A t \in Unified!Names : OAuthTools[t].oauth \in BOOLEAN /\ OAuthTools[t].relative \in BOOLEAN
  /\ \A e \in Environments, t \in Unified!Names :
       e[t].webUrl \in BOOLEAN /\ e[t].secrets \in {"set", "placeholder", "missing"}

UnifiedShapes ==
  /\ env \in Environments
  /\ oauthNow \in Nat /\ starts \in Nat
  /\ cookies = [t \in Unified!Names |-> cookies[t]]
  /\ tokens = [t \in Unified!Names |-> tokens[t]]
  /\ tokenCalls = [c \in Requests |-> tokenCalls[c]]
  /\ \A c \in Requests : tokenCalls[c] # Unified!Free =>
       /\ tokenCalls[c].tool \in Unified!Names
       /\ tokenCalls[c].at \in {"exchanging", "login", "refreshing", "refreshed"}

\* The one cookie is that of the last login, which has its own cookie too, and each
\* login has another state.
LastLogin(t) == [state |-> starts, at |-> cookie.at]
CookiesMatch ==
  /\ cookie # None => /\ cookie.provider \in Unified!Names /\ cookie.at \in Nat
                      /\ cookies[cookie.provider] = LastLogin(cookie.provider)
                      /\ starts >= 1
  /\ \A t \in Unified!Names : cookies[t] # None =>
       /\ cookies[t].state \in Nat /\ cookies[t].state <= starts /\ cookies[t].at \in Nat
       /\ \A s \in Unified!Names : cookies[s] # None /\ cookies[s].state = cookies[t].state => s = t

\* What was revoked has no tokens, and those on their way are of refreshes that were
\* running when it was.
IsRenewing(c, t) == tokenCalls[c].at \in {"refreshing", "refreshed"} /\ tokenCalls[c].tool = t
GoneStaysGone ==
  /\ gone = [t \in Unified!Names |-> gone[t]]
  /\ \A t \in Unified!Names : gone[t] # None =>
       /\ gone[t] \subseteq Requests /\ tokens[t] = None
       /\ \A c \in Requests : IsRenewing(c, t) => c \in gone[t]

UnifiedInv == UnifiedShapes /\ CookiesMatch /\ GoneStaysGone

\* The calls go on, the cookies stay.
LEMMA CookiesStay ==
  ASSUME UnifiedInv, UNCHANGED <<starts, cookie, cookies>>
  PROVE  CookiesMatch'
  BY DEF UnifiedInv, CookiesMatch, LastLogin

\* A call that ends, or takes up a tool that it may bring back.
LEMMA CallMoves ==
  ASSUME UnifiedInv, NEW c \in Requests, NEW new,
         tokenCalls' = [tokenCalls EXCEPT ![c] = new],
         UNCHANGED <<oauthNow, env, starts, cookies, tokens, gone>>,
         \/ new = Unified!Free
         \/ /\ new.tool \in Unified!Names
            /\ new.at \in {"exchanging", "login", "refreshing", "refreshed"}
            /\ new.at \in {"refreshing", "refreshed"} /\ gone[new.tool] # None => c \in gone[new.tool]
  PROVE  UnifiedShapes' /\ GoneStaysGone'
<1>1. /\ tokenCalls' = [d \in Requests |-> tokenCalls'[d]] /\ tokenCalls'[c] = new
      /\ \A d \in Requests : d # c => tokenCalls'[d] = tokenCalls[d]
  BY DEF UnifiedInv, UnifiedShapes
<1>2. UnifiedShapes'
  BY <1>1 DEF UnifiedInv, UnifiedShapes
<1>3. Unified!Free.at = "free"
  BY DEF Unified!Free
<1>4. ASSUME NEW t \in Unified!Names, gone[t] # None, NEW d \in Requests, IsRenewing(d, t)'
      PROVE  d \in gone[t]
  BY <1>1, <1>3, <1>4 DEF UnifiedInv, GoneStaysGone, IsRenewing
<1>5. GoneStaysGone'
  BY <1>4 DEF UnifiedInv, GoneStaysGone
<1> QED BY <1>2, <1>5

\* Every step.
LEMMA UnifiedStep ==
  ASSUME UnifiedGiven
  PROVE  UnifiedInv /\ [Unified!Next]_(Unified!vars) => UnifiedInv'
<1> SUFFICES ASSUME UnifiedInv, [Unified!Next]_(Unified!vars) PROVE UnifiedInv'
  OBVIOUS
<1>0. \A c \in Requests : tokenCalls[c].at = "free" => tokenCalls[c] = Unified!Free
  BY DEF UnifiedInv, UnifiedShapes
<1>1. ASSUME NEW t \in Unified!Names, Unified!Start(t)
      PROVE  UnifiedInv'
  <2>1. /\ starts' = starts + 1 /\ cookie' = [provider |-> t, at |-> oauthNow]
        /\ cookies' = [cookies EXCEPT ![t] = [state |-> starts + 1, at |-> oauthNow]]
        /\ UNCHANGED <<oauthNow, env, tokens, tokenCalls, gone>>
    BY <1>1 DEF Unified!Start
  <2>10. cookies' = [s \in Unified!Names |-> cookies'[s]]
    BY <2>1 DEF UnifiedInv, UnifiedShapes
  <2>11. starts' \in Nat
    BY <2>1 DEF UnifiedInv, UnifiedShapes
  <2>12. UnifiedShapes'
    BY <2>1, <2>10, <2>11 DEF UnifiedInv, UnifiedShapes
  <2>13. GoneStaysGone'
    BY <2>1 DEF UnifiedInv, GoneStaysGone, IsRenewing
  <2>2. UnifiedShapes' /\ GoneStaysGone'
    BY <2>12, <2>13
  <2>3. /\ cookies'[t] = [state |-> starts + 1, at |-> oauthNow]
        /\ \A s \in Unified!Names : s # t => cookies'[s] = cookies[s]
    BY <2>1 DEF UnifiedInv, UnifiedShapes
  <2>4. starts \in Nat /\ oauthNow \in Nat
    BY DEF UnifiedInv, UnifiedShapes
  <2>5. \A s \in Unified!Names : cookies'[s] # None =>
          /\ cookies'[s].state \in Nat /\ cookies'[s].state <= starts' /\ cookies'[s].at \in Nat
          /\ s # t => cookies'[s].state <= starts
    BY <2>1, <2>3, <2>4 DEF UnifiedInv, CookiesMatch
  <2>6. \A s, u \in Unified!Names : cookies'[s] # None /\ cookies'[u] # None /\ cookies'[s].state = cookies'[u].state => s = u
    BY <2>3, <2>4, <2>5 DEF UnifiedInv, CookiesMatch
  <2>7. CookiesMatch'
    BY <2>1, <2>3, <2>4, <2>5, <2>6 DEF CookiesMatch, LastLogin
  <2> QED BY <2>2, <2>7 DEF UnifiedInv
<1>2. ASSUME NEW t \in Unified!Names, Unified!ClearState(t)
      PROVE  UnifiedInv'
  <2>1. /\ cookie' = None /\ cookies' = [cookies EXCEPT ![t] = None]
        /\ UNCHANGED <<oauthNow, env, starts, tokens, tokenCalls, gone>>
    BY <1>2 DEF Unified!ClearState
  <2>2. UnifiedShapes' /\ GoneStaysGone'
    BY <2>1 DEF UnifiedInv, UnifiedShapes, GoneStaysGone, IsRenewing
  <2>3. \A s \in Unified!Names : cookies'[s] # None => cookies'[s] = cookies[s]
    BY <2>1 DEF UnifiedInv, UnifiedShapes
  <2>4. CookiesMatch'
    BY <2>1, <2>3 DEF UnifiedInv, CookiesMatch
  <2> QED BY <2>2, <2>4 DEF UnifiedInv
<1>3. ASSUME NEW t \in Unified!Names, Unified!RevokeTokens(t)
      PROVE  UnifiedInv'
  <2>1. /\ tokens' = [tokens EXCEPT ![t] = None]
        /\ gone' = [gone EXCEPT ![t] = Unified!Renewing(t)]
        /\ UNCHANGED <<oauthNow, env, starts, cookie, cookies, tokenCalls>>
    BY <1>3 DEF Unified!RevokeTokens
  <2>2. UnifiedShapes'
    BY <2>1 DEF UnifiedInv, UnifiedShapes
  <2>3. Unified!Renewing(t) = {c \in Requests : IsRenewing(c, t)}
    BY DEF Unified!Renewing, IsRenewing
  <2>5. \A c \in Requests, s \in Unified!Names : IsRenewing(c, s)' <=> IsRenewing(c, s)
    BY <2>1 DEF IsRenewing
  <2>4. GoneStaysGone'
    BY <2>1, <2>3, <2>5 DEF UnifiedInv, UnifiedShapes, GoneStaysGone
  <2> QED BY <2>1, <2>2, <2>4, CookiesStay DEF UnifiedInv
<1>4. ASSUME NEW c \in Requests, NEW t \in Unified!Names, Unified!Callback(c, t)
      PROVE  UnifiedInv'
  BY <1>4, CallMoves, CookiesStay DEF Unified!Callback, UnifiedInv
<1>5. ASSUME NEW c \in Requests, NEW t \in Unified!Names, Unified!EnsureValidTokens(c, t)
      PROVE  UnifiedInv'
  <2>1. gone[t] = None
    BY <1>5 DEF Unified!EnsureValidTokens, UnifiedInv, GoneStaysGone
  <2> QED BY <1>5, <2>1, CallMoves, CookiesStay DEF Unified!EnsureValidTokens, UnifiedInv
<1>6. ASSUME NEW c \in Requests, Unified!ExchangeCodeForTokens(c)
      PROVE  UnifiedInv'
  <2>1. tokenCalls[c].at = "exchanging" /\ tokenCalls[c].tool \in Unified!Names
    BY <1>6 DEF Unified!ExchangeCodeForTokens, Unified!Free, UnifiedInv, UnifiedShapes
  <2>2. /\ UNCHANGED <<oauthNow, env, starts, cookie, cookies, tokens, gone>>
        /\ \/ tokenCalls' = [tokenCalls EXCEPT ![c] = Unified!Free]
           \/ \E life \in OAuthLives, refresh \in BOOLEAN : tokenCalls' = [tokenCalls EXCEPT ![c] =
                [at |-> "login", tool |-> tokenCalls[c].tool, tokens |-> Unified!Converted(life, refresh)]]
    BY <1>6, <2>1 DEF Unified!ExchangeCodeForTokens, UnifiedInv, UnifiedShapes
  <2>3. CASE tokenCalls' = [tokenCalls EXCEPT ![c] = Unified!Free]
    BY <2>2, <2>3, CallMoves, CookiesStay DEF UnifiedInv
  <2>4. ASSUME NEW life, NEW refresh, tokenCalls' = [tokenCalls EXCEPT ![c] =
                [at |-> "login", tool |-> tokenCalls[c].tool, tokens |-> Unified!Converted(life, refresh)]]
        PROVE  UnifiedInv'
    <3> DEFINE new == [at |-> "login", tool |-> tokenCalls[c].tool, tokens |-> Unified!Converted(life, refresh)]
    <3>1. new.at = "login" /\ new.tool \in Unified!Names /\ tokenCalls' = [tokenCalls EXCEPT ![c] = new]
      BY <2>1, <2>4
    <3> HIDE DEF new
    <3> QED BY <2>2, <3>1, CallMoves, CookiesStay DEF UnifiedInv
  <2> QED BY <2>2, <2>3, <2>4
<1>7. ASSUME NEW c \in Requests, Unified!Refreshed(c)
      PROVE  UnifiedInv'
  <2>1. /\ tokenCalls[c].at = "refreshing" /\ tokenCalls[c].tool \in Unified!Names
        /\ gone[tokenCalls[c].tool] # None => c \in gone[tokenCalls[c].tool]
    BY <1>7 DEF Unified!Refreshed, Unified!Free, UnifiedInv, UnifiedShapes, GoneStaysGone, IsRenewing
  <2>2. /\ UNCHANGED <<oauthNow, env, starts, cookie, cookies, tokens, gone>>
        /\ \/ tokenCalls' = [tokenCalls EXCEPT ![c] = Unified!Free]
           \/ \E life \in OAuthLives : tokenCalls' = [tokenCalls EXCEPT ![c] =
                [at |-> "refreshed", tool |-> tokenCalls[c].tool, tokens |-> Unified!Converted(life, TRUE)]]
    BY <1>7, <2>1 DEF Unified!Refreshed, UnifiedInv, UnifiedShapes
  <2>3. CASE tokenCalls' = [tokenCalls EXCEPT ![c] = Unified!Free]
    BY <2>2, <2>3, CallMoves, CookiesStay DEF UnifiedInv
  <2>4. ASSUME NEW life, tokenCalls' = [tokenCalls EXCEPT ![c] =
                [at |-> "refreshed", tool |-> tokenCalls[c].tool, tokens |-> Unified!Converted(life, TRUE)]]
        PROVE  UnifiedInv'
    <3> DEFINE new == [at |-> "refreshed", tool |-> tokenCalls[c].tool, tokens |-> Unified!Converted(life, TRUE)]
    <3>1. new.at = "refreshed" /\ new.tool = tokenCalls[c].tool /\ tokenCalls' = [tokenCalls EXCEPT ![c] = new]
      BY <2>1, <2>4
    <3> HIDE DEF new
    <3> QED BY <2>1, <2>2, <3>1, CallMoves, CookiesStay DEF UnifiedInv
  <2> QED BY <2>2, <2>3, <2>4
<1>8. ASSUME NEW c \in Requests, Unified!StoreTokens(c)
      PROVE  UnifiedInv'
  <2> DEFINE q == tokenCalls[c]
  <2>1. q # Unified!Free /\ q.tool \in Unified!Names /\ q.at \in {"login", "refreshed"}
    BY <1>8 DEF Unified!StoreTokens, Unified!Free, UnifiedInv, UnifiedShapes
  <2>2. /\ tokens' = [tokens EXCEPT ![q.tool] = q.tokens]
        /\ tokenCalls' = [tokenCalls EXCEPT ![c] = Unified!Free]
        /\ gone' = IF q.at = "login" \/ (gone[q.tool] # None /\ c \in gone[q.tool])
                   THEN [gone EXCEPT ![q.tool] = None] ELSE gone
        /\ UNCHANGED <<oauthNow, env, starts, cookie, cookies>>
    BY <1>8 DEF Unified!StoreTokens
  <2>3. q.at = "refreshed" /\ gone[q.tool] # None => c \in gone[q.tool]
    BY <2>1 DEF UnifiedInv, GoneStaysGone, IsRenewing
  <2>4. /\ tokenCalls' = [d \in Requests |-> tokenCalls'[d]]
        /\ \A d \in Requests : tokenCalls'[d] = tokenCalls[d] \/ tokenCalls'[d] = Unified!Free
    BY <2>2 DEF UnifiedInv, UnifiedShapes
  <2>5. UnifiedShapes'
    BY <2>2, <2>4 DEF UnifiedInv, UnifiedShapes
  <2>6. \A d \in Requests, t \in Unified!Names : IsRenewing(d, t)' => IsRenewing(d, t)
    BY <2>4 DEF IsRenewing, Unified!Free
  <2>7. /\ gone' = [t \in Unified!Names |-> gone'[t]]
        /\ \A t \in Unified!Names : gone'[t] # None => gone'[t] = gone[t] /\ t # q.tool
    BY <2>1, <2>2, <2>3 DEF UnifiedInv, GoneStaysGone
  <2>9. \A t \in Unified!Names : t # q.tool => tokens'[t] = tokens[t]
    BY <2>2 DEF UnifiedInv, UnifiedShapes
  <2> HIDE DEF q
  <2>8. GoneStaysGone'
    BY <2>6, <2>7, <2>9 DEF UnifiedInv, GoneStaysGone
  <2> QED BY <2>2, <2>5, <2>8, CookiesStay DEF UnifiedInv
<1>9. CASE Unified!Tick \/ UNCHANGED Unified!vars
  <2>1. oauthNow' \in Nat /\ UNCHANGED <<env, starts, cookie, cookies, tokens, tokenCalls, gone>>
    BY <1>9 DEF Unified!Tick, Unified!vars, UnifiedInv, UnifiedShapes
  <2>2. UnifiedShapes' /\ GoneStaysGone'
    BY <2>1 DEF UnifiedInv, UnifiedShapes, GoneStaysGone, IsRenewing
  <2> QED BY <2>1, <2>2, CookiesStay DEF UnifiedInv
<1> QED BY <1>1, <1>2, <1>3, <1>4, <1>5, <1>6, <1>7, <1>8, <1>9 DEF Unified!Next

\* At the start nothing is kept.
LEMMA UnifiedStart ==
  Unified!Init => UnifiedInv
  BY DEF Unified!Init, UnifiedInv, UnifiedShapes, CookiesMatch, GoneStaysGone

\* A callback is let on for the newest login, while its own cookie is valid.
LEMMA CallbacksPromise ==
  ASSUME UnifiedGiven, UnifiedInv
  PROVE  Unified!NewestLoginIsAnswered
<1> SUFFICES ASSUME NEW t \in Unified!Names
             PROVE  /\ Unified!ValidateState(t) =>
                         Unified!ValidateOAuthState(t, starts) /\ oauthNow < cookies[t].at + StateAge
                    /\ Unified!ValidateOAuthState(t, starts) /\ oauthNow < cookies[t].at + StateAge /\ cookie # None =>
                         Unified!ValidateState(t)
  BY DEF Unified!NewestLoginIsAnswered
<1>0. starts \in Nat /\ oauthNow \in Nat /\ StateAge \in Nat
  BY DEF UnifiedGiven, UnifiedInv, UnifiedShapes
<1>1. ASSUME Unified!ValidateState(t)
      PROVE  Unified!ValidateOAuthState(t, starts) /\ oauthNow < cookies[t].at + StateAge
  <2>1. cookie # None /\ cookie.provider = t /\ cookie.at > oauthNow - StateAge
    BY <1>1 DEF Unified!ValidateState
  <2>2. cookies[t] = [state |-> starts, at |-> cookie.at] /\ cookie.at \in Nat /\ starts >= 1
    BY <2>1 DEF UnifiedInv, CookiesMatch, LastLogin
  <2>3. cookies[t] # None /\ cookies[t].state = starts /\ cookies[t].at = cookie.at
    BY <2>2 DEF UnifiedGiven
  <2>4. oauthNow - cookie.at <= StateAge /\ oauthNow < cookie.at + StateAge
    BY <1>0, <2>1, <2>2
  <2> QED BY <1>0, <2>2, <2>3, <2>4 DEF Unified!ValidateOAuthState
<1>2. ASSUME Unified!ValidateOAuthState(t, starts), oauthNow < cookies[t].at + StateAge, cookie # None
      PROVE  Unified!ValidateState(t)
  <2>1. cookies[t] # None /\ cookies[t].state = starts
    BY <1>2 DEF Unified!ValidateOAuthState
  <2>2. /\ cookie.provider \in Unified!Names /\ cookie.at \in Nat
        /\ cookies[cookie.provider] = [state |-> starts, at |-> cookie.at]
    BY <1>2 DEF UnifiedInv, CookiesMatch, LastLogin
  <2>3. cookies[cookie.provider] # None /\ cookies[cookie.provider].state = starts /\ cookies[cookie.provider].at = cookie.at
    BY <2>2 DEF UnifiedGiven
  <2>4. cookie.provider = t
    BY <2>1, <2>2, <2>3 DEF UnifiedInv, CookiesMatch
  <2>5. cookie.at > oauthNow - StateAge
    BY <1>0, <1>2, <2>2, <2>3, <2>4
  <2> QED BY <1>2, <2>4, <2>5 DEF Unified!ValidateState
<1> QED BY <1>1, <1>2

\* What a tool's configuration is, without CASE.
LEMMA ConfigurationIs ==
  ASSUME UnifiedGiven, UnifiedInv, NEW t \in Unified!Names, NEW baseUrl \in BOOLEAN
  PROVE  LET lacks == OAuthTools[t].relative /\ ~(baseUrl \/ env[t].webUrl)
             offered == OAuthTools[t].oauth /\ env[t].secrets # "missing"
             old == OAuthTools[t].oauth /\ env[t].secrets = "set"
         IN  /\ Unified!GetOAuthConfig(t, baseUrl) = IF ~offered THEN "none" ELSE IF lacks THEN "throws" ELSE "found"
             /\ Unified!OldGetOAuthConfig(t, baseUrl) = IF ~old THEN "none" ELSE IF lacks THEN "throws" ELSE "found"
             /\ lacks \in BOOLEAN /\ offered \in BOOLEAN /\ old \in BOOLEAN
             /\ old => offered
             /\ offered /\ ~old => env[t].secrets = "placeholder"
<1> DEFINE oauth == OAuthTools[t].oauth
           relative == OAuthTools[t].relative
           secrets == env[t].secrets
           webUrl == env[t].webUrl
<1>1. oauth \in BOOLEAN /\ relative \in BOOLEAN /\ webUrl \in BOOLEAN /\ secrets \in {"set", "placeholder", "missing"}
  BY DEF UnifiedGiven, UnifiedInv, UnifiedShapes
<1>2. Unified!GetOAuthConfig(t, baseUrl) =
        CASE ~oauth \/ secrets = "missing" -> "none"
          [] oauth /\ secrets # "missing" /\ relative /\ ~(baseUrl \/ webUrl) -> "throws"
          [] OTHER -> "found"
  BY DEF Unified!GetOAuthConfig
<1>3. Unified!OldGetOAuthConfig(t, baseUrl) =
        CASE ~oauth \/ secrets \in {"missing", "placeholder"} -> "none"
          [] oauth /\ secrets = "set" /\ relative /\ ~(baseUrl \/ webUrl) -> "throws"
          [] OTHER -> "found"
  BY DEF Unified!OldGetOAuthConfig
<1> HIDE DEF oauth, relative, secrets, webUrl
<1>4. Unified!GetOAuthConfig(t, baseUrl) =
        IF ~(oauth /\ secrets # "missing") THEN "none" ELSE IF relative /\ ~(baseUrl \/ webUrl) THEN "throws" ELSE "found"
  BY <1>1, <1>2
<1>5. Unified!OldGetOAuthConfig(t, baseUrl) =
        IF ~(oauth /\ secrets = "set") THEN "none" ELSE IF relative /\ ~(baseUrl \/ webUrl) THEN "throws" ELSE "found"
  BY <1>1, <1>3
<1>6. /\ oauth /\ secrets = "set" => oauth /\ secrets # "missing"
      /\ oauth /\ secrets # "missing" /\ ~(oauth /\ secrets = "set") => secrets = "placeholder"
  BY <1>1
<1> QED BY <1>1, <1>4, <1>5, <1>6 DEF oauth, relative, secrets, webUrl

\* The configurations agree in every environment.
LEMMA ConfigurationsPromise ==
  ASSUME UnifiedGiven, UnifiedInv
  PROVE  Unified!ConfigurationsAgree
<1>1. ASSUME NEW t \in Unified!Names, NEW baseUrl \in BOOLEAN
      PROVE  /\ Unified!GetOAuthConfig(t, baseUrl) # Unified!OldGetOAuthConfig(t, baseUrl) =>
                   env[t].secrets = "placeholder" /\ Unified!OldGetOAuthConfig(t, baseUrl) = "none"
             /\ Unified!OldGetOAuthConfig(t, baseUrl) = "throws" => Unified!GetOAuthConfig(t, baseUrl) = "throws"
             /\ Unified!OldGetOAuthConfig(t, baseUrl) = "found" => Unified!GetOAuthConfig(t, baseUrl) = "found"
  <2> DEFINE new == Unified!GetOAuthConfig(t, baseUrl)
             was == Unified!OldGetOAuthConfig(t, baseUrl)
             lacks == OAuthTools[t].relative /\ ~(baseUrl \/ env[t].webUrl)
             offered == OAuthTools[t].oauth /\ env[t].secrets # "missing"
             old == OAuthTools[t].oauth /\ env[t].secrets = "set"
             placeholder == env[t].secrets = "placeholder"
  <2>1. /\ new = IF ~offered THEN "none" ELSE IF lacks THEN "throws" ELSE "found"
        /\ was = IF ~old THEN "none" ELSE IF lacks THEN "throws" ELSE "found"
        /\ lacks \in BOOLEAN /\ offered \in BOOLEAN /\ old \in BOOLEAN
        /\ old => offered
        /\ offered /\ ~old => placeholder
    BY ConfigurationIs
  <2> HIDE DEF new, was, lacks, offered, old, placeholder
  <2>2. /\ new # was => placeholder /\ was = "none"
        /\ was = "throws" => new = "throws"
        /\ was = "found" => new = "found"
    BY <2>1
  <2> QED BY <2>2 DEF new, was, placeholder
<1>2. \A t \in Unified!Names : /\ Unified!OldGetOAuthConfig(t, FALSE) = "throws" => Unified!GetOAuthConfig(t, FALSE) = "throws"
                               /\ Unified!OldGetOAuthConfig(t, FALSE) = "found" => Unified!GetOAuthConfig(t, FALSE) = "found"
  BY <1>1
<1>3. ASSUME None \notin Unified!ConfiguredProviders
      PROVE  Unified!OldConfiguredProviders \subseteq Unified!ConfiguredProviders
  <2> DEFINE listed == {t \in Unified!Names : OAuthTools[t].enabled /\ OAuthTools[t].oauth}
  <2>1. ~\E t \in listed : Unified!GetOAuthConfig(t, FALSE) = "throws"
    BY <1>3 DEF Unified!ConfiguredProviders
  <2>2. ~\E t \in listed : Unified!OldGetOAuthConfig(t, FALSE) = "throws"
    BY <1>2, <2>1
  <2>3. Unified!OldConfiguredProviders = {t \in listed : Unified!OldGetOAuthConfig(t, FALSE) = "found"}
    BY <2>2 DEF Unified!OldConfiguredProviders
  <2>4. Unified!ConfiguredProviders = {t \in listed : Unified!GetOAuthConfig(t, FALSE) = "found"}
    BY <2>1 DEF Unified!ConfiguredProviders
  <2> QED BY <1>2, <2>3, <2>4
<1>4. ASSUME None \notin Unified!ConfigAnswer
      PROVE  Unified!OldConfiguredProviders \subseteq Unified!ConfigAnswer
  <2>1. ~\E t \in Unified!Names : Unified!OldGetOAuthConfig(t, FALSE) = "throws"
    BY <1>4 DEF Unified!ConfigAnswer
  <2>2. Unified!ConfigAnswer = {t \in Unified!Names : Unified!OldGetOAuthConfig(t, FALSE) = "found"}
    BY <2>1 DEF Unified!ConfigAnswer
  <2>3. \A t \in Unified!OldConfiguredProviders : t \in Unified!Names /\ Unified!OldGetOAuthConfig(t, FALSE) = "found"
    BY <2>1 DEF Unified!OldConfiguredProviders
  <2> QED BY <2>2, <2>3
<1> QED BY <1>1, <1>3, <1>4 DEF Unified!ConfigurationsAgree

\* Both classify a status code alike.
LEMMA SameType ==
  ASSUME NEW s
  PROVE  /\ Errors!DetermineErrorType(s) = Errors!OldDetermineErrorType(s)
         /\ Errors!DetermineErrorType(s) \in Errors!ErrorTypes
<1>1. 500..504 = {500, 501, 502, 503, 504}
  OBVIOUS
<1>2. Errors!DetermineErrorType(s) = Errors!OldDetermineErrorType(s)
  BY <1>1 DEF Errors!DetermineErrorType, Errors!OldDetermineErrorType
<1>3. Errors!DetermineErrorType(s) \in Errors!ErrorTypes
  BY DEF Errors!DetermineErrorType, Errors!ErrorTypes
<1> QED BY <1>2, <1>3

\* Words come before the status code.
LEMMA WordedIs ==
  ASSUME NEW e, NEW invalid, NEW otherwise, "access_denied" \notin invalid
  PROVE  /\ Errors!Worded(e, invalid, otherwise) \in {"AUTHENTICATION_FAILED", "INVALID_REQUEST", otherwise}
         /\ e = "access_denied" => Errors!Worded(e, invalid, otherwise) = "AUTHENTICATION_FAILED"
  BY DEF Errors!Worded

\* The classification of errors.
LEMMA ErrorsPromise == ErrorsKeepTheirMeaning
<1>1. ASSUME NEW p \in {"github", "gitlab", "jira", "other"}, NEW e \in Errors!Words, NEW s \in Errors!StatusCodes
      PROVE  LET type == Errors!ParseOAuthProviderError(p, e, s) IN
             /\ type \in Errors!ErrorTypes
             /\ type = Errors!OldParseOAuthProviderError(p, e, s)
             /\ e = "access_denied" /\ p # "other" => ~Errors!IsRetryableError(type)
  <2> DEFINE status == Errors!DetermineErrorType(s)
             gitHub == {"redirect_uri_mismatch", "invalid_request"}
             gitLab == {"invalid_request", "unauthorized_client", "unsupported_grant_type"}
             jiras == {"invalid_request", "unauthorized_client", "invalid_client"}
  <2>1. /\ status \in Errors!ErrorTypes /\ status = Errors!OldDetermineErrorType(s)
        /\ "AUTHENTICATION_FAILED" \in Errors!ErrorTypes /\ "INVALID_REQUEST" \in Errors!ErrorTypes
        /\ ~Errors!IsRetryableError("AUTHENTICATION_FAILED")
    BY SameType DEF Errors!ErrorTypes, Errors!IsRetryableError
  <2>2. /\ p = "github" => Errors!ParseOAuthProviderError(p, e, s) = Errors!Worded(e, gitHub, status)
        /\ p = "gitlab" => Errors!ParseOAuthProviderError(p, e, s) = Errors!Worded(e, gitLab, status)
        /\ p = "jira" => Errors!ParseOAuthProviderError(p, e, s) = Errors!Worded(e, jiras, status)
        /\ p = "other" => Errors!ParseOAuthProviderError(p, e, s) = status
    BY DEF Errors!ParseOAuthProviderError, Errors!ParseGitHubError, Errors!ParseGitLabError, Errors!ParseJiraError
  <2>3. /\ p = "github" => Errors!OldParseOAuthProviderError(p, e, s) = Errors!Worded(e, gitHub, status)
        /\ p = "gitlab" => Errors!OldParseOAuthProviderError(p, e, s) = Errors!Worded(e, gitLab, status)
        /\ p = "jira" => Errors!OldParseOAuthProviderError(p, e, s) = Errors!Worded(e, jiras, status)
        /\ p = "other" => Errors!OldParseOAuthProviderError(p, e, s) = status
    BY <2>1 DEF Errors!OldParseOAuthProviderError, Errors!OldInvalidWords
  <2>4. /\ "access_denied" \notin gitHub
        /\ "access_denied" \notin gitLab
        /\ "access_denied" \notin jiras
    OBVIOUS
  <2> HIDE DEF status, gitHub, gitLab, jiras
  <2>5. CASE p = "github"
    BY <2>1, <2>2, <2>3, <2>4, <2>5, WordedIs
  <2>6. CASE p = "gitlab"
    BY <2>1, <2>2, <2>3, <2>4, <2>6, WordedIs
  <2>7. CASE p = "jira"
    BY <2>1, <2>2, <2>3, <2>4, <2>7, WordedIs
  <2>8. CASE p = "other"
    BY <2>1, <2>2, <2>3, <2>8
  <2> QED BY <2>5, <2>6, <2>7, <2>8
<1>2. ASSUME NEW type \in Errors!ErrorTypes
      PROVE  /\ Errors!IsRetryableError(type) <=> Errors!OldIsRetryableError(type)
             /\ Errors!Severity(type) = Errors!OldSeverity(type)
             /\ Errors!ShownSeverity(type) = "info" => Errors!IsRetryableError(type)
             /\ Errors!ShownSeverity(type) = Errors!Severity(type) \/ type = "AUTHENTICATION_FAILED"
  <2>1. Errors!IsRetryableError(type) <=> Errors!OldIsRetryableError(type)
    BY DEF Errors!IsRetryableError, Errors!OldIsRetryableError
  <2>2. Errors!Severity(type) = Errors!OldSeverity(type)
    BY DEF Errors!Severity, Errors!OldSeverity
  <2>3. Errors!ShownSeverity(type) = "info" => Errors!IsRetryableError(type)
    BY DEF Errors!IsRetryableError, Errors!ShownSeverity
  <2>4. Errors!ShownSeverity(type) = Errors!Severity(type) \/ type = "AUTHENTICATION_FAILED"
    BY DEF Errors!Severity, Errors!ShownSeverity
  <2> QED BY <2>1, <2>2, <2>3, <2>4
<1> QED BY <1>1, <1>2 DEF ErrorsKeepTheirMeaning, Errors!ErrorsKeepTheirMeaning

-----------------------------------------------------------------------------
(* The types of the unified OAuth service.                                     *)

\* Lives of tokens are numbers of seconds; without one they live an hour.
TokensGiven ==
  UnifiedGiven /\ OAuthLives \subseteq Nat /\ OAuthHour \in Nat \ {0} /\ OAuthTime \in Nat

\* Tokens end within a life of the last moment of the clock.
EndsInALife(held) ==
  \E life \in OAuthLives \cup {OAuthHour} : held.expires \in 1..(OAuthTime + life)
StoredEnd == \A t \in Unified!Names : tokens[t] # None => EndsInALife(tokens[t])
CarriedEnd ==
  \A c \in Requests : tokenCalls[c].at \in {"login", "refreshed"} => EndsInALife(tokenCalls[c].tokens)
CookieIsPast == cookie # None => cookie.at <= oauthNow

UnifiedTyped == oauthNow <= OAuthTime /\ StoredEnd /\ CarriedEnd /\ CookieIsPast

\* What the provider's answer becomes.
LEMMA ConvertedEnds ==
  ASSUME TokensGiven, oauthNow \in Nat, oauthNow <= OAuthTime, NEW life \in OAuthLives, NEW refresh
  PROVE  EndsInALife(Unified!Converted(life, refresh))
<1> DEFINE lasts == IF life = 0 THEN OAuthHour ELSE life
<1>1. Unified!Converted(life, refresh).expires = oauthNow + lasts
  BY DEF Unified!Converted
<1>2. lasts \in OAuthLives \cup {OAuthHour} /\ lasts \in Nat /\ lasts > 0
  BY DEF TokensGiven
<1> HIDE DEF lasts
<1>3. oauthNow + lasts \in 1..(OAuthTime + lasts)
  BY <1>2 DEF TokensGiven
<1> QED
  BY <1>1, <1>2, <1>3 DEF EndsInALife

\* A call moves, with tokens or without.
LEMMA CarrierMoves ==
  ASSUME UnifiedShapes, CarriedEnd, NEW c \in Requests, NEW new,
         tokenCalls' = [tokenCalls EXCEPT ![c] = new],
         new.at \notin {"login", "refreshed"} \/ EndsInALife(new.tokens)
  PROVE  CarriedEnd'
<1>1. \A d \in Requests : tokenCalls'[d] = tokenCalls[d] \/ tokenCalls'[d] = new
  BY DEF UnifiedShapes
<1> QED
  BY <1>1 DEF CarriedEnd, EndsInALife

\* Every step.
LEMMA UnifiedTypedStep ==
  ASSUME TokensGiven, UnifiedInv, UnifiedTyped, [Unified!Next]_(Unified!vars)
  PROVE  UnifiedTyped'
<1>1. /\ UnifiedShapes /\ oauthNow \in Nat /\ oauthNow <= OAuthTime /\ StoredEnd /\ CarriedEnd /\ CookieIsPast
  BY DEF UnifiedInv, UnifiedShapes, UnifiedTyped
<1>2. Unified!Free.at = "free"
  BY DEF Unified!Free
<1>3. ASSUME NEW t \in Unified!Names,
             Unified!Start(t) \/ Unified!ClearState(t) \/ Unified!RevokeTokens(t)
      PROVE  UnifiedTyped'
  <2>1. /\ UNCHANGED <<oauthNow, tokenCalls>>
        /\ cookie' \in {cookie, None} \/ cookie' = [provider |-> t, at |-> oauthNow]
        /\ tokens' \in {tokens, [tokens EXCEPT ![t] = None]}
    BY <1>3 DEF Unified!Start, Unified!ClearState, Unified!RevokeTokens
  <2>2. StoredEnd'
    BY <1>1, <2>1 DEF StoredEnd, EndsInALife, UnifiedShapes
  <2>3. CookieIsPast'
    BY <1>1, <2>1 DEF CookieIsPast
  <2> QED
    BY <1>1, <2>1, <2>2, <2>3 DEF UnifiedTyped, CarriedEnd, EndsInALife
<1>4. ASSUME NEW c \in Requests, NEW t \in Unified!Names, NEW at \in {"exchanging", "refreshing"},
             tokenCalls' = [tokenCalls EXCEPT ![c] = [at |-> at, tool |-> t]],
             UNCHANGED <<oauthNow, cookie, tokens>>
      PROVE  UnifiedTyped'
  <2> DEFINE new == [at |-> at, tool |-> t]
  <2>1. new.at \notin {"login", "refreshed"} /\ tokenCalls' = [tokenCalls EXCEPT ![c] = new]
    BY <1>4
  <2> HIDE DEF new
  <2>2. CarriedEnd'
    BY <1>1, <2>1, CarrierMoves
  <2> QED
    BY <1>1, <1>4, <2>2 DEF UnifiedTyped, StoredEnd, EndsInALife, CookieIsPast
<1>40. ASSUME NEW c \in Requests, NEW t \in Unified!Names, Unified!Callback(c, t) \/ Unified!EnsureValidTokens(c, t)
      PROVE  UnifiedTyped'
  <2>1. UNCHANGED <<oauthNow, cookie, tokens>>
    BY <1>40 DEF Unified!Callback, Unified!EnsureValidTokens
  <2>2. \/ tokenCalls' = [tokenCalls EXCEPT ![c] = [at |-> "exchanging", tool |-> t]]
        \/ tokenCalls' = [tokenCalls EXCEPT ![c] = [at |-> "refreshing", tool |-> t]]
    BY <1>40 DEF Unified!Callback, Unified!EnsureValidTokens
  <2> QED
    BY <1>4, <2>1, <2>2
<1>5. ASSUME NEW c \in Requests, Unified!ExchangeCodeForTokens(c) \/ Unified!Refreshed(c)
      PROVE  UnifiedTyped'
  <2>1. UNCHANGED <<oauthNow, cookie, tokens>>
    BY <1>5 DEF Unified!ExchangeCodeForTokens, Unified!Refreshed
  <2>2. \/ tokenCalls' = [tokenCalls EXCEPT ![c] = Unified!Free]
        \/ \E life \in OAuthLives, refresh \in BOOLEAN, at \in {"login", "refreshed"} :
             tokenCalls' = [tokenCalls EXCEPT ![c] =
               [at |-> at, tool |-> tokenCalls[c].tool, tokens |-> Unified!Converted(life, refresh)]]
    BY <1>1, <1>5 DEF Unified!ExchangeCodeForTokens, Unified!Refreshed, UnifiedShapes
  <2>3. CASE tokenCalls' = [tokenCalls EXCEPT ![c] = Unified!Free]
    <3>1. CarriedEnd'
      BY <1>1, <1>2, <2>3, CarrierMoves
    <3> QED
      BY <1>1, <2>1, <3>1 DEF UnifiedTyped, StoredEnd, EndsInALife, CookieIsPast
  <2>4. ASSUME NEW life \in OAuthLives, NEW refresh \in BOOLEAN, NEW at \in {"login", "refreshed"},
               tokenCalls' = [tokenCalls EXCEPT ![c] =
                 [at |-> at, tool |-> tokenCalls[c].tool, tokens |-> Unified!Converted(life, refresh)]]
        PROVE  UnifiedTyped'
    <3> DEFINE new == [at |-> at, tool |-> tokenCalls[c].tool, tokens |-> Unified!Converted(life, refresh)]
    <3>1. tokenCalls' = [tokenCalls EXCEPT ![c] = new] /\ new.tokens = Unified!Converted(life, refresh)
      BY <2>4
    <3> HIDE DEF new
    <3>2. EndsInALife(new.tokens)
      BY <1>1, <3>1, ConvertedEnds
    <3>3. CarriedEnd'
      BY <1>1, <3>1, <3>2, CarrierMoves
    <3> QED
      BY <1>1, <2>1, <3>3 DEF UnifiedTyped, StoredEnd, EndsInALife, CookieIsPast
  <2> QED
    BY <2>2, <2>3, <2>4
<1>6. ASSUME NEW c \in Requests, Unified!StoreTokens(c) PROVE UnifiedTyped'
  <2>1. /\ tokenCalls[c].at \in {"login", "refreshed"}
        /\ tokens' = [tokens EXCEPT ![tokenCalls[c].tool] = tokenCalls[c].tokens]
        /\ tokenCalls' = [tokenCalls EXCEPT ![c] = Unified!Free]
        /\ UNCHANGED <<oauthNow, cookie>>
    BY <1>6 DEF Unified!StoreTokens
  <2>2. EndsInALife(tokenCalls[c].tokens)
    BY <1>1, <2>1 DEF CarriedEnd
  <2>3. \A t \in Unified!Names : tokens'[t] = tokens[t] \/ tokens'[t] = tokenCalls[c].tokens
    BY <1>1, <2>1 DEF UnifiedShapes
  <2>4. StoredEnd'
    BY <1>1, <2>2, <2>3 DEF StoredEnd, EndsInALife
  <2>5. CarriedEnd'
    BY <1>1, <1>2, <2>1, CarrierMoves
  <2> QED
    BY <1>1, <2>1, <2>4, <2>5 DEF UnifiedTyped, CookieIsPast
<1>7. CASE Unified!Tick
  <2>1. oauthNow < OAuthTime /\ oauthNow' = oauthNow + 1 /\ UNCHANGED <<cookie, tokens, tokenCalls>>
    BY <1>7 DEF Unified!Tick
  <2>2. oauthNow' <= OAuthTime
    BY <1>1, <2>1 DEF TokensGiven
  <2>3. CookieIsPast'
    BY <1>1, <2>1 DEF CookieIsPast, UnifiedInv, CookiesMatch
  <2> QED
    BY <1>1, <2>1, <2>2, <2>3 DEF UnifiedTyped, StoredEnd, CarriedEnd, EndsInALife
<1>8. CASE UNCHANGED Unified!vars
  BY <1>1, <1>8 DEF Unified!vars, UnifiedTyped, StoredEnd, CarriedEnd, EndsInALife, CookieIsPast
<1> QED
  BY <1>3, <1>40, <1>5, <1>6, <1>7, <1>8 DEF Unified!Next

\* There are no tokens at the start.
LEMMA UnifiedTypedStart ==
  ASSUME TokensGiven, Unified!Init
  PROVE  UnifiedTyped
BY DEF Unified!Init, Unified!Free, UnifiedTyped, StoredEnd, CarriedEnd, CookieIsPast, TokensGiven

\* The types follow.
LEMMA UnifiedTypes ==
  ASSUME TokensGiven, UnifiedInv, UnifiedTyped
  PROVE  Unified!TypeOK
<1>1. \A c \in Requests :
        tokenCalls[c].at \in {"free", "exchanging", "login", "refreshing", "refreshed"}
  BY DEF UnifiedInv, UnifiedShapes, Unified!Free
<1>2. cookie # None => cookie.provider \in Unified!Names /\ cookie.at \in 0..oauthNow
  BY DEF UnifiedInv, UnifiedShapes, CookiesMatch, UnifiedTyped, CookieIsPast
<1>3. gone \in [Unified!Names -> {None} \cup SUBSET Requests]
  BY DEF UnifiedInv, GoneStaysGone
<1> QED
  BY <1>1, <1>2, <1>3 DEF UnifiedTyped, StoredEnd, EndsInALife, Unified!TypeOK

-----------------------------------------------------------------------------
(* The retries and the pool's counters (lib/api-client.ts, lib/connection-pool.ts). *)

httpCalls == v1
total == v2
succeeded == v3
failures == v4
opened == v5
adrift == v6
cleanups == v7
aged == v8

USE DEF httpCalls, total, succeeded, failures, opened, adrift, cleanups, aged

\* What the tools' providers may answer.
HttpGiven ==
  /\ Tries \in Nat \ {0} /\ Tenth \in Nat \ {0}
  /\ Retries!HttpTools \subseteq {"github", "gitlab", "jira"}
  /\ \A t \in Retries!HttpTools : \A answer \in HttpAnswers[t] :
       /\ answer.status \in Nat
       /\ answer.retryAfter \in Nat \cup {Retries!Absent, Retries!Date}
       /\ answer.remaining \in Int /\ answer.untilReset \in Int

\* The provers do not know powers of two; they need this of them.
PowersDouble == \A n \in 0..Tries : Retries!Power(n) \in Nat \ {0} /\ Retries!Power(n + 1) = 2 * Retries!Power(n)

\* A call has been tried once more than it has failed while it is asking, and as often
\* as it has failed while it waits or has thrown.
HttpFields == {"at", "tool", "pooled", "attempt", "last", "tried"}
IsHttpCall(q) ==
  /\ q = [f \in HttpFields |-> q[f]]
  /\ q.at \in {"asking", "waiting", "returned", "thrown"}
  /\ q.tool \in Retries!HttpTools /\ q.pooled \in BOOLEAN
  /\ q.attempt \in 0..Tries /\ q.tried \in 1..Tries
  /\ q.at = "asking" => q.tried = q.attempt + 1
  /\ q.at = "waiting" => q.tried = q.attempt
  /\ q.at = "thrown" => q.tried = Tries
  /\ q.at = "returned" =>
       Retries!Ok(q.last) \/ q.tried = Tries \/ Retries!ShouldRetry(q.tool, q.last, q.attempt) = {}
HttpCallsOK ==
  /\ httpCalls = [c \in Requests |-> httpCalls[c]]
  /\ \A c \in Requests : httpCalls[c] # Retries!Free => IsHttpCall(httpCalls[c])

UnderWay == {c \in Requests : httpCalls[c].at = "asking" /\ httpCalls[c].pooled}
HttpCounts ==
  /\ total \in Nat /\ succeeded \in Nat /\ failures \in Nat /\ cleanups \in Nat /\ adrift \in Nat
  /\ IsFiniteSet(UnderWay)
  /\ succeeded + failures + Cardinality(UnderWay) <= total + adrift
  /\ cleanups = 0 => succeeded + failures + Cardinality(UnderWay) = total

RetriesInv == HttpCallsOK /\ HttpCounts

\* Where the requests under way are counted.
LEMMA HttpCardinality == \A S : Retries!Cardinality(S) = Cardinality(S)
  BY DEF Retries!Cardinality, Cardinality, Retries!IsFiniteSet, IsFiniteSet

\* A call goes on: it joins the requests under way, leaves them, or does neither.
LEMMA UnderWayMoves ==
  ASSUME RetriesInv, NEW c \in Requests, NEW new,
         httpCalls' = [httpCalls EXCEPT ![c] = new]
  PROVE  /\ new.at = "asking" /\ new.pooled => UnderWay' = UnderWay \cup {c}
         /\ ~(new.at = "asking" /\ new.pooled) => UnderWay' = UnderWay \ {c}
         /\ (httpCalls[c].at = "asking" /\ httpCalls[c].pooled) <=> c \in UnderWay
<1>1. /\ httpCalls'[c] = new /\ \A d \in Requests : d # c => httpCalls'[d] = httpCalls[d]
  BY DEF RetriesInv, HttpCallsOK
<1> QED BY <1>1 DEF UnderWay

\* It joins them: there is one more.
LEMMA CallEnters ==
  ASSUME RetriesInv, NEW c \in Requests, NEW new, httpCalls' = [httpCalls EXCEPT ![c] = new],
         httpCalls[c].at # "asking", new.at = "asking", new.pooled
  PROVE  IsFiniteSet(UnderWay') /\ Cardinality(UnderWay') = Cardinality(UnderWay) + 1
<1>1. UnderWay' = UnderWay \cup {c} /\ c \notin UnderWay /\ IsFiniteSet(UnderWay)
  BY UnderWayMoves DEF RetriesInv, HttpCounts
<1> HIDE DEF UnderWay
<1> QED BY <1>1, FS_AddElement

\* It leaves them: there is one less.
LEMMA CallLeaves ==
  ASSUME RetriesInv, NEW c \in Requests, NEW new, httpCalls' = [httpCalls EXCEPT ![c] = new],
         httpCalls[c].at = "asking", httpCalls[c].pooled, new.at # "asking"
  PROVE  IsFiniteSet(UnderWay') /\ Cardinality(UnderWay') = Cardinality(UnderWay) - 1
<1>1. UnderWay' = UnderWay \ {c} /\ c \in UnderWay /\ IsFiniteSet(UnderWay)
  BY UnderWayMoves DEF RetriesInv, HttpCounts
<1> HIDE DEF UnderWay
<1> QED BY <1>1, FS_RemoveElement

\* It is not among them, before or after.
LEMMA CallStaysOut ==
  ASSUME RetriesInv, NEW c \in Requests, NEW new, httpCalls' = [httpCalls EXCEPT ![c] = new],
         ~(httpCalls[c].at = "asking" /\ httpCalls[c].pooled), ~(new.at = "asking" /\ new.pooled)
  PROVE  IsFiniteSet(UnderWay') /\ Cardinality(UnderWay') = Cardinality(UnderWay)
<1>1. UnderWay' = UnderWay \ {c} /\ c \notin UnderWay /\ IsFiniteSet(UnderWay)
  BY UnderWayMoves DEF RetriesInv, HttpCounts
<1> HIDE DEF UnderWay
<1>2. UnderWay' = UnderWay
  BY <1>1
<1> QED BY <1>1, <1>2

\* A record of a call with another value in one field.
LEMMA FieldChanged ==
  ASSUME NEW q, q = [f \in HttpFields |-> q[f]], NEW g \in HttpFields, NEW b
  PROVE  LET r == [q EXCEPT ![g] = b] IN
         r = [f \in HttpFields |-> r[f]] /\ r[g] = b /\ \A f \in HttpFields : f # g => r[f] = q[f]
  OBVIOUS

\* The counters go with what is under way.
LEMMA Balanced ==
  ASSUME NEW t \in Nat, NEW s \in Nat, NEW f \in Nat, NEW n \in Nat,
         NEW t2 \in Nat, NEW s2 \in Nat, NEW f2 \in Nat, NEW m \in Nat, NEW a \in Nat,
         t2 + s + f + n = t + s2 + f2 + m
  PROVE  /\ s + f + n <= t + a => s2 + f2 + m <= t2 + a
         /\ s + f + n = t => s2 + f2 + m = t2
  OBVIOUS

\* A call moves to a good one, and the counters follow it.
LEMMA HttpMoves ==
  ASSUME RetriesInv, NEW c \in Requests, NEW new, new = Retries!Free \/ IsHttpCall(new),
         httpCalls' = [httpCalls EXCEPT ![c] = new],
         adrift' = adrift, cleanups' = cleanups,
         total' \in Nat, succeeded' \in Nat, failures' \in Nat, IsFiniteSet(UnderWay'),
         total' + succeeded + failures + Cardinality(UnderWay) = total + succeeded' + failures' + Cardinality(UnderWay')
  PROVE  RetriesInv'
<1>1. HttpCallsOK'
  BY DEF RetriesInv, HttpCallsOK
<1>2. /\ total \in Nat /\ succeeded \in Nat /\ failures \in Nat /\ cleanups \in Nat /\ adrift \in Nat
      /\ succeeded + failures + Cardinality(UnderWay) <= total + adrift
      /\ cleanups = 0 => succeeded + failures + Cardinality(UnderWay) = total
      /\ IsFiniteSet(UnderWay)
  BY DEF RetriesInv, HttpCounts
<1> HIDE DEF UnderWay
<1>3. Cardinality(UnderWay) \in Nat /\ Cardinality(UnderWay') \in Nat
  BY <1>2, FS_CardinalityType
<1>4. /\ succeeded + failures + Cardinality(UnderWay) <= total + adrift
           => succeeded' + failures' + Cardinality(UnderWay') <= total' + adrift
      /\ succeeded + failures + Cardinality(UnderWay) = total
           => succeeded' + failures' + Cardinality(UnderWay') = total'
  BY <1>2, <1>3, Balanced
<1>5. HttpCounts'
  BY <1>2, <1>4 DEF HttpCounts
<1> QED BY <1>1, <1>5 DEF RetriesInv

\* One less under way, and one more that succeeded or failed.
LEMMA OneMoreDone ==
  ASSUME NEW t \in Nat, NEW s \in Nat, NEW f \in Nat, NEW n \in Nat, NEW s2 \in Nat, NEW f2 \in Nat, NEW m,
         s2 + f2 = s + f + 1, m = n - 1
  PROVE  t + s + f + n = t + s2 + f2 + m
  OBVIOUS

\* Scaled down, the counters miss each other by no more than they did.
LEMMA ScaledDown ==
  ASSUME NEW t \in Nat, NEW s \in Nat, NEW f \in Nat, NEW a \in Nat, NEW d \in Nat \ {0}
  PROVE  /\ t \div d \in Nat /\ s \div d \in Nat /\ f \div d \in Nat
         /\ s + f <= t + a => (s \div d) + (f \div d) <= (t \div d) + a
<1> DEFINE x == s \div d
           y == f \div d
           q == t \div d
<1>1. /\ x \in Nat /\ y \in Nat /\ q \in Nat
      /\ d * x <= s /\ d * y <= f /\ t < d * q + d
  OBVIOUS
<1> HIDE DEF x, y, q
<1>2. ASSUME s + f <= t + a
      PROVE  x + y <= q + a
  <2>1. d * (x + y) = d * x + d * y /\ d * (q + a + 1) = d * q + d * a + d
    BY <1>1
  <2>2. d * x \in Int /\ d * y \in Int /\ d * q \in Int /\ d * a \in Int /\ a <= d * a
    BY <1>1
  <2>3. d * (x + y) < d * (q + a + 1)
    BY <1>1, <1>2, <2>1, <2>2
  <2>4. ASSUME x + y >= q + a + 1 PROVE FALSE
    <3>1. d * (x + y) >= d * (q + a + 1)
      BY <1>1, <2>4
    <3> QED BY <1>1, <2>2, <2>3, <3>1, <2>1
  <2> QED BY <1>1, <2>4
<1> QED BY <1>1, <1>2 DEF x, y, q

\* So they do with what is under way and was set adrift.
LEMMA AdriftCovers ==
  ASSUME NEW t \in Nat, NEW s \in Nat, NEW f \in Nat, NEW n \in Nat, NEW a \in Nat
  PROVE  /\ s + f + n <= t + a => s + f <= t + a
         /\ s + f <= t + a => s + f + n <= t + (a + n)
  OBVIOUS

\* At the start no request is under way and nothing is counted.
LEMMA RetriesStart == ASSUME HttpGiven PROVE Retries!Init => RetriesInv
<1> SUFFICES ASSUME Retries!Init PROVE RetriesInv
  OBVIOUS
<1>1. /\ httpCalls = [c \in Requests |-> Retries!Free] /\ total = 0 /\ succeeded = 0 /\ failures = 0
      /\ cleanups = 0 /\ adrift = 0
  BY DEF Retries!Init
<1>2. UnderWay = {}
  BY <1>1 DEF UnderWay, Retries!Free
<1> QED BY <1>1, <1>2, FS_EmptySet DEF RetriesInv, HttpCallsOK, HttpCounts

\* Every step.
LEMMA RetriesStep ==
  ASSUME HttpGiven
  PROVE  RetriesInv /\ [Retries!Next]_(Retries!vars) => RetriesInv'
<1> SUFFICES ASSUME RetriesInv, [Retries!Next]_(Retries!vars) PROVE RetriesInv'
  OBVIOUS
<1>0. /\ total \in Nat /\ succeeded \in Nat /\ failures \in Nat /\ cleanups \in Nat /\ adrift \in Nat
      /\ Tries \in Nat \ {0} /\ Tenth \in Nat \ {0}
      /\ Retries!Free.at = "free"
  BY DEF RetriesInv, HttpCounts, HttpGiven, Retries!Free
<1>1. ASSUME NEW c \in Requests, NEW t \in Retries!HttpTools, NEW pooled \in BOOLEAN, Retries!Begin(c, t, pooled)
      PROVE  RetriesInv'
  <2> DEFINE new == [at |-> "asking", tool |-> t, pooled |-> pooled, attempt |-> 0, last |-> None, tried |-> 1]
             n == Cardinality(UnderWay)
  <2>1. /\ httpCalls[c].at = "free" /\ httpCalls' = [httpCalls EXCEPT ![c] = new]
        /\ UNCHANGED <<succeeded, failures, adrift, cleanups>>
        /\ total' = IF pooled THEN total + 1 ELSE total
    BY <1>0, <1>1 DEF Retries!Begin, Retries!Counted
  <2>2. IsHttpCall(new) /\ new.at = "asking" /\ new.pooled = pooled
    <3>1. new = [f \in HttpFields |-> new[f]]
      BY DEF HttpFields
    <3>2. /\ new.at = "asking" /\ new.tool = t /\ new.pooled = pooled /\ new.attempt = 0 /\ new.tried = 1
      OBVIOUS
    <3> HIDE DEF new
    <3> QED BY <1>0, <3>1, <3>2 DEF IsHttpCall
  <2> HIDE DEF new
  <2>5. n \in Nat
    BY FS_CardinalityType DEF RetriesInv, HttpCounts
  <2>3. CASE pooled
    <3>1. IsFiniteSet(UnderWay') /\ Cardinality(UnderWay') = n + 1
      BY <2>1, <2>2, <2>3, CallEnters
    <3>2. /\ total' \in Nat /\ succeeded' \in Nat /\ failures' \in Nat
          /\ total' + succeeded + failures + Cardinality(UnderWay) = total + succeeded' + failures' + Cardinality(UnderWay')
      BY <1>0, <2>1, <2>3, <2>5, <3>1
    <3> QED BY <1>0, <2>1, <2>2, <2>3, <2>5, <3>1, <3>2, HttpMoves
  <2>4. CASE ~pooled
    <3>1. IsFiniteSet(UnderWay') /\ Cardinality(UnderWay') = n
      BY <2>1, <2>2, <2>4, CallStaysOut
    <3> QED BY <1>0, <2>1, <2>2, <2>4, <2>5, <3>1, HttpMoves
  <2> QED BY <2>3, <2>4
<1>2. ASSUME NEW c \in Requests, Retries!Answered(c)
      PROVE  RetriesInv'
  <2> DEFINE q == httpCalls[c]
  <2>1. q.at = "asking" /\ IsHttpCall(q) /\ q.pooled \in BOOLEAN
    BY <1>0, <1>2 DEF Retries!Answered, RetriesInv, HttpCallsOK, IsHttpCall
  <2>2. PICK answer \in HttpAnswers[q.tool] :
          /\ httpCalls' = [httpCalls EXCEPT ![c] = Retries!Settled(@, answer)]
          /\ IF q.pooled THEN Retries!PoolAnswers(answer) ELSE UNCHANGED Retries!counters
    BY <1>2 DEF Retries!Answered
  <2> DEFINE over == Retries!Ok(answer) \/ Retries!ShouldRetry(q.tool, answer, q.attempt) = {}
             first == [q EXCEPT !.at = "returned"]
             gives == [first EXCEPT !.last = answer]
             second == [q EXCEPT !.at = "waiting"]
             third == [second EXCEPT !.last = answer]
             waits == [third EXCEPT !.attempt = q.attempt + 1]
             new == IF over THEN gives ELSE waits
  <2> DEFINE returned == [q EXCEPT !.at = "returned", !.last = answer]
             waiting == [q EXCEPT !.at = "waiting", !.last = answer, !.attempt = q.attempt + 1]
  <2>3. httpCalls' = [httpCalls EXCEPT ![c] = new]
    <3>1. Retries!Settled(q, answer) = IF over THEN returned ELSE waiting
      BY Zenon DEF Retries!Settled
    <3>2. gives = returned /\ waits = waiting
      BY Zenon
    <3>3. httpCalls' = [httpCalls EXCEPT ![c] = Retries!Settled(q, answer)]
      <4>1. httpCalls'[c] = Retries!Settled(q, answer)
        BY <2>2 DEF RetriesInv, HttpCallsOK
      <4>2. httpCalls' = [d \in Requests |-> httpCalls'[d]] /\ \A d \in Requests : d # c => httpCalls'[d] = httpCalls[d]
        BY <2>2 DEF RetriesInv, HttpCallsOK
      <4> HIDE DEF over, gives, waits, returned, waiting
      <4> QED BY <4>1, <4>2 DEF RetriesInv, HttpCallsOK
    <3> HIDE DEF over, gives, waits, returned, waiting
    <3> QED BY <3>1, <3>2, <3>3
  <2> HIDE DEF returned, waiting
  <2>4. /\ gives = [f \in HttpFields |-> gives[f]] /\ gives.at = "returned" /\ gives.last = answer
        /\ gives.tool = q.tool /\ gives.pooled = q.pooled /\ gives.attempt = q.attempt /\ gives.tried = q.tried
    <3>1. /\ first = [f \in HttpFields |-> first[f]] /\ first.at = "returned"
          /\ \A f \in HttpFields : f # "at" => first[f] = q[f]
      BY <2>1, FieldChanged DEF IsHttpCall, HttpFields
    <3> HIDE DEF first
    <3>2. /\ gives = [f \in HttpFields |-> gives[f]] /\ gives.last = answer
          /\ \A f \in HttpFields : f # "last" => gives[f] = first[f]
      BY <3>1, FieldChanged DEF HttpFields
    <3> QED BY <3>1, <3>2 DEF HttpFields
  <2>5. /\ waits = [f \in HttpFields |-> waits[f]] /\ waits.at = "waiting" /\ waits.last = answer
        /\ waits.tool = q.tool /\ waits.pooled = q.pooled /\ waits.attempt = q.attempt + 1 /\ waits.tried = q.tried
    <3>1. /\ second = [f \in HttpFields |-> second[f]] /\ second.at = "waiting"
          /\ \A f \in HttpFields : f # "at" => second[f] = q[f]
      BY <2>1, FieldChanged DEF IsHttpCall, HttpFields
    <3> HIDE DEF second
    <3>2. /\ third = [f \in HttpFields |-> third[f]] /\ third.last = answer
          /\ \A f \in HttpFields : f # "last" => third[f] = second[f]
      BY <3>1, FieldChanged DEF HttpFields
    <3> HIDE DEF third
    <3>3. /\ waits = [f \in HttpFields |-> waits[f]] /\ waits.attempt = q.attempt + 1
          /\ \A f \in HttpFields : f # "attempt" => waits[f] = third[f]
      BY <3>2, FieldChanged DEF HttpFields
    <3> QED BY <3>1, <3>2, <3>3 DEF HttpFields
  <2> HIDE DEF gives, waits
  <2>9. IsHttpCall(new) /\ new.at # "asking"
    <3>1. over => IsHttpCall(gives)
      BY <2>1, <2>4 DEF IsHttpCall
    <3>2. IsHttpCall(waits)
      BY <1>0, <2>1, <2>5 DEF IsHttpCall
    <3> HIDE DEF over
    <3> QED BY <2>4, <2>5, <3>1, <3>2
  <2>6. /\ UNCHANGED <<total, failures, adrift, cleanups>>
        /\ q.pooled => succeeded' = succeeded + 1
        /\ ~q.pooled => succeeded' = succeeded
    BY <1>2, <2>1, <2>2 DEF Retries!Answered, Retries!PoolAnswers, Retries!counters
  <2> HIDE DEF new
  <2>10. Cardinality(UnderWay) \in Nat
    BY FS_CardinalityType DEF RetriesInv, HttpCounts
  <2>7. CASE q.pooled
    <3>1. IsFiniteSet(UnderWay') /\ Cardinality(UnderWay') = Cardinality(UnderWay) - 1
      BY <2>1, <2>3, <2>9, <2>7, CallLeaves
    <3>2. /\ total' \in Nat /\ succeeded' \in Nat /\ failures' \in Nat
          /\ total' + succeeded + failures + Cardinality(UnderWay) = total + succeeded' + failures' + Cardinality(UnderWay')
      BY <1>0, <2>6, <2>7, <2>10, <3>1
    <3> QED BY <1>0, <2>3, <2>6, <2>7, <2>9, <2>10, <3>1, <3>2, HttpMoves
  <2>8. CASE ~q.pooled
    <3>1. IsFiniteSet(UnderWay') /\ Cardinality(UnderWay') = Cardinality(UnderWay)
      BY <2>3, <2>9, <2>8, CallStaysOut
    <3> QED BY <1>0, <2>3, <2>6, <2>8, <2>9, <2>10, <3>1, HttpMoves
  <2> QED BY <2>7, <2>8
<1>3. ASSUME NEW c \in Requests, Retries!Throws(c)
      PROVE  RetriesInv'
  <2> DEFINE q == httpCalls[c]
             new == Retries!Failed(q, Tries)
  <2>1. q.at = "asking" /\ IsHttpCall(q) /\ q.pooled \in BOOLEAN
    BY <1>0, <1>3 DEF Retries!Throws, Retries!AttemptFails, RetriesInv, HttpCallsOK, IsHttpCall
  <2>2. /\ httpCalls' = [httpCalls EXCEPT ![c] = new] /\ UNCHANGED <<adrift, cleanups>>
        /\ \/ IF q.pooled THEN Retries!PoolFails ELSE UNCHANGED Retries!counters
           \/ q.pooled /\ \E answer \in HttpAnswers[q.tool] : Retries!PoolAnswers(answer)
    BY <1>3 DEF Retries!Throws, Retries!AttemptFails, RetriesInv, HttpCallsOK
  <2>3. /\ total' = total /\ succeeded' \in Nat /\ failures' \in Nat
        /\ q.pooled => succeeded' + failures' = succeeded + failures + 1
        /\ ~q.pooled => succeeded' = succeeded /\ failures' = failures
    BY <1>0, <2>1, <2>2 DEF Retries!PoolAnswers, Retries!PoolFails, Retries!counters
  <2>4. IsHttpCall(new) /\ new.at # "asking"
    <3> DEFINE at == IF q.attempt + 1 >= Tries THEN "thrown" ELSE "waiting"
               first == [q EXCEPT !.at = at]
               second == [first EXCEPT !.attempt = q.attempt + 1]
    <3>1. new = second
      BY DEF Retries!Failed
    <3>2. /\ first = [f \in HttpFields |-> first[f]] /\ first.at = at
          /\ \A f \in HttpFields : f # "at" => first[f] = q[f]
      BY <2>1, FieldChanged DEF IsHttpCall, HttpFields
    <3> HIDE DEF first
    <3>3. /\ second = [f \in HttpFields |-> second[f]] /\ second.attempt = q.attempt + 1
          /\ \A f \in HttpFields : f # "attempt" => second[f] = first[f]
      BY <3>2, FieldChanged DEF HttpFields
    <3> HIDE DEF second
    <3>4. /\ second.at = at /\ second.tool = q.tool /\ second.pooled = q.pooled
          /\ second.last = q.last /\ second.tried = q.tried
      BY <3>2, <3>3 DEF HttpFields
    <3>5. IsHttpCall(second) /\ second.at # "asking"
      BY <1>0, <2>1, <3>3, <3>4 DEF IsHttpCall
    <3> QED BY <3>1, <3>5
  <2> HIDE DEF new
  <2>7. Cardinality(UnderWay) \in Nat
    BY FS_CardinalityType DEF RetriesInv, HttpCounts
  <2>5. CASE q.pooled
    <3>1. IsFiniteSet(UnderWay') /\ Cardinality(UnderWay') = Cardinality(UnderWay) - 1
      BY <2>1, <2>2, <2>4, <2>5, CallLeaves
    <3>2. /\ total' \in Nat /\ succeeded' \in Nat /\ failures' \in Nat
          /\ total' + succeeded + failures + Cardinality(UnderWay) = total + succeeded' + failures' + Cardinality(UnderWay')
      <4>1. succeeded' + failures' = succeeded + failures + 1
        BY <2>3, <2>5
      <4>2. total' = total /\ total' \in Nat /\ succeeded' \in Nat /\ failures' \in Nat
        BY <1>0, <2>3
      <4>3. succeeded \in Nat /\ failures \in Nat /\ total \in Nat
        BY <1>0
      <4> DEFINE t == total
                 s2 == succeeded'
                 f2 == failures'
                 n == Cardinality(UnderWay)
                 m == Cardinality(UnderWay')
                 s == succeeded
                 f == failures
      <4>4. /\ t \in Nat /\ s \in Nat /\ f \in Nat /\ n \in Nat /\ s2 \in Nat /\ f2 \in Nat
            /\ s2 + f2 = s + f + 1 /\ m = n - 1
        BY <2>7, <3>1, <4>1, <4>2, <4>3
      <4> HIDE DEF t, s, f, n, s2, f2, m
      <4>5. t + s + f + n = t + s2 + f2 + m
        BY <4>4
      <4> QED BY <4>2, <4>5 DEF t, s, f, n, s2, f2, m
    <3> QED BY <1>0, <2>2, <2>3, <2>4, <2>5, <2>7, <3>1, <3>2, HttpMoves
  <2>6. CASE ~q.pooled
    <3>1. IsFiniteSet(UnderWay') /\ Cardinality(UnderWay') = Cardinality(UnderWay)
      BY <2>2, <2>4, <2>6, CallStaysOut
    <3> QED BY <1>0, <2>2, <2>3, <2>4, <2>6, <2>7, <3>1, HttpMoves
  <2> QED BY <2>5, <2>6
<1>4. ASSUME NEW c \in Requests, Retries!Wakes(c)
      PROVE  RetriesInv'
  <2> DEFINE q == httpCalls[c]
             last == q.attempt >= Tries
             gives == [q EXCEPT !.at = "returned"]
             first == [q EXCEPT !.at = "asking"]
             asks == [first EXCEPT !.tried = q.tried + 1]
             new == IF last THEN gives ELSE asks
  <2>1. q.at = "waiting" /\ IsHttpCall(q) /\ q.pooled \in BOOLEAN
    BY <1>0, <1>4 DEF Retries!Wakes, RetriesInv, HttpCallsOK, IsHttpCall
  <2>2. /\ httpCalls' = [httpCalls EXCEPT ![c] = Retries!Woken(@)]
        /\ total' = IF last THEN total ELSE IF q.pooled THEN total + 1 ELSE total
        /\ UNCHANGED <<succeeded, failures, adrift, cleanups>>
    BY <1>4 DEF Retries!Wakes, Retries!Counted
  <2>3. /\ gives = [f \in HttpFields |-> gives[f]] /\ gives.at = "returned" /\ gives.last = q.last
        /\ gives.tool = q.tool /\ gives.pooled = q.pooled /\ gives.attempt = q.attempt /\ gives.tried = q.tried
    <3>1. /\ gives = [f \in HttpFields |-> gives[f]] /\ gives.at = "returned"
          /\ \A f \in HttpFields : f # "at" => gives[f] = q[f]
      BY <2>1, FieldChanged DEF IsHttpCall, HttpFields
    <3> HIDE DEF gives
    <3> QED BY <3>1 DEF HttpFields
  <2>9. /\ asks = [f \in HttpFields |-> asks[f]] /\ asks.at = "asking" /\ asks.last = q.last
        /\ asks.tool = q.tool /\ asks.pooled = q.pooled /\ asks.attempt = q.attempt /\ asks.tried = q.tried + 1
    <3>1. /\ first = [f \in HttpFields |-> first[f]] /\ first.at = "asking"
          /\ \A f \in HttpFields : f # "at" => first[f] = q[f]
      BY <2>1, FieldChanged DEF IsHttpCall, HttpFields
    <3> HIDE DEF first
    <3>2. /\ asks = [f \in HttpFields |-> asks[f]] /\ asks.tried = q.tried + 1
          /\ \A f \in HttpFields : f # "tried" => asks[f] = first[f]
      BY <3>1, FieldChanged DEF HttpFields
    <3> HIDE DEF asks
    <3> QED BY <3>1, <3>2 DEF HttpFields
  <2> DEFINE anew == [q EXCEPT !.at = "asking", !.tried = q.tried + 1]
  <2>4. httpCalls' = [httpCalls EXCEPT ![c] = new]
    <3>1. Retries!Woken(q) = IF last THEN gives ELSE anew
      BY Zenon DEF Retries!Woken
    <3>3. httpCalls' = [httpCalls EXCEPT ![c] = Retries!Woken(q)]
      <4>1. httpCalls'[c] = Retries!Woken(q)
        BY <2>2 DEF RetriesInv, HttpCallsOK
      <4>2. httpCalls' = [d \in Requests |-> httpCalls'[d]] /\ \A d \in Requests : d # c => httpCalls'[d] = httpCalls[d]
        BY <2>2 DEF RetriesInv, HttpCallsOK
      <4> HIDE DEF last, gives, asks, anew
      <4> QED BY <4>1, <4>2 DEF RetriesInv, HttpCallsOK
    <3>2. asks = anew
      BY Zenon
    <3> HIDE DEF last, gives, asks, anew
    <3> QED BY <3>1, <3>2, <3>3
  <2> HIDE DEF anew
  <2> HIDE DEF gives, asks
  <2>5. /\ IsHttpCall(new) /\ new.pooled = q.pooled
        /\ last => new.at # "asking"
        /\ ~last => new.at = "asking"
    <3>1. last => IsHttpCall(gives)
      BY <1>0, <2>1, <2>3 DEF IsHttpCall
    <3>2. ~last => IsHttpCall(asks)
      BY <1>0, <2>1, <2>9 DEF IsHttpCall
    <3>3. gives.pooled = q.pooled /\ asks.pooled = q.pooled /\ gives.at = "returned" /\ asks.at = "asking"
      BY <2>3, <2>9
    <3> HIDE DEF last
    <3> QED BY <3>1, <3>2, <3>3
  <2> HIDE DEF new, last
  <2>10. Cardinality(UnderWay) \in Nat
    BY FS_CardinalityType DEF RetriesInv, HttpCounts
  <2>6. CASE last
    <3>1. IsFiniteSet(UnderWay') /\ Cardinality(UnderWay') = Cardinality(UnderWay)
      BY <2>1, <2>4, <2>5, <2>6, CallStaysOut
    <3>2. /\ total' \in Nat /\ succeeded' \in Nat /\ failures' \in Nat
          /\ total' + succeeded + failures + Cardinality(UnderWay) = total + succeeded' + failures' + Cardinality(UnderWay')
      BY <1>0, <2>2, <2>6, <2>10, <3>1
    <3> QED BY <1>0, <2>2, <2>4, <2>5, <2>6, <2>10, <3>1, <3>2, HttpMoves
  <2>7. CASE ~last /\ q.pooled
    <3>1. IsFiniteSet(UnderWay') /\ Cardinality(UnderWay') = Cardinality(UnderWay) + 1
      BY <2>1, <2>4, <2>5, <2>7, CallEnters
    <3>2. /\ total' \in Nat /\ succeeded' \in Nat /\ failures' \in Nat
          /\ total' + succeeded + failures + Cardinality(UnderWay) = total + succeeded' + failures' + Cardinality(UnderWay')
      BY <1>0, <2>2, <2>7, <2>10, <3>1
    <3> QED BY <1>0, <2>2, <2>4, <2>5, <2>7, <2>10, <3>1, <3>2, HttpMoves
  <2>8. CASE ~last /\ ~q.pooled
    <3>1. IsFiniteSet(UnderWay') /\ Cardinality(UnderWay') = Cardinality(UnderWay)
      BY <2>1, <2>4, <2>5, <2>8, CallStaysOut
    <3>2. /\ total' \in Nat /\ succeeded' \in Nat /\ failures' \in Nat
          /\ total' + succeeded + failures + Cardinality(UnderWay) = total + succeeded' + failures' + Cardinality(UnderWay')
      BY <1>0, <2>2, <2>8, <2>10, <3>1
    <3> QED BY <1>0, <2>2, <2>4, <2>5, <2>8, <2>10, <3>1, <3>2, HttpMoves
  <2> QED BY <2>6, <2>7, <2>8
<1>5. ASSUME NEW c \in Requests, Retries!Over(c)
      PROVE  RetriesInv'
  <2> DEFINE new == Retries!Free
  <2>1. /\ httpCalls[c].at # "asking" /\ httpCalls' = [httpCalls EXCEPT ![c] = new] /\ new.at # "asking"
        /\ UNCHANGED <<total, succeeded, failures, adrift, cleanups>>
    BY <1>0, <1>5 DEF Retries!Over, Retries!counters
  <2>2. IsFiniteSet(UnderWay') /\ Cardinality(UnderWay') = Cardinality(UnderWay)
    BY <2>1, CallStaysOut
  <2>3. Cardinality(UnderWay) \in Nat
    BY FS_CardinalityType DEF RetriesInv, HttpCounts
  <2>4. new = Retries!Free
    OBVIOUS
  <2> HIDE DEF new
  <2> QED BY <1>0, <2>1, <2>2, <2>3, <2>4, HttpMoves
<1>6. CASE Retries!CleanupMetrics
  <2> DEFINE n == Cardinality(UnderWay)
  <2>1. /\ total' = total \div Tenth /\ succeeded' = succeeded \div Tenth /\ failures' = failures \div Tenth
        /\ adrift' = adrift + n /\ cleanups' = cleanups + 1 /\ httpCalls' = httpCalls
    BY <1>6, HttpCardinality DEF Retries!CleanupMetrics, Retries!UnderWay, UnderWay
  <2>2. UnderWay' = UnderWay /\ HttpCallsOK' /\ Cardinality(UnderWay') = n
    BY <2>1 DEF UnderWay, RetriesInv, HttpCallsOK
  <2>3. n \in Nat /\ IsFiniteSet(UnderWay) /\ succeeded + failures + n <= total + adrift
    BY FS_CardinalityType DEF RetriesInv, HttpCounts
  <2> HIDE DEF n
  <2>4. succeeded + failures <= total + adrift
    BY <1>0, <2>3, AdriftCovers
  <2>5. total' \in Nat /\ succeeded' \in Nat /\ failures' \in Nat /\ succeeded' + failures' <= total' + adrift
    BY <1>0, <2>1, <2>4, ScaledDown
  <2>6. succeeded' + failures' + n <= total' + (adrift + n)
    BY <1>0, <2>3, <2>5, AdriftCovers
  <2>7. cleanups' \in Nat /\ cleanups' # 0 /\ adrift' \in Nat
    BY <1>0, <2>1, <2>3
  <2>8. HttpCounts'
    BY <2>1, <2>2, <2>3, <2>5, <2>6, <2>7 DEF HttpCounts
  <2> QED BY <2>2, <2>8 DEF RetriesInv
<1>7. CASE UNCHANGED Retries!vars
  BY <1>7 DEF Retries!vars, Retries!counters, RetriesInv, HttpCallsOK, HttpCounts, UnderWay
<1>8. CASE Retries!Ages
  BY <1>8 DEF Retries!Ages, Retries!counters, RetriesInv, HttpCallsOK, HttpCounts, UnderWay
<1> QED BY <1>1, <1>2, <1>3, <1>4, <1>5, <1>6, <1>7, <1>8
    DEF Retries!Next, Retries!MakeRetryRequest, Retries!MakeRetryRequestLegacy

\* What the invariant promises.
LEMMA RetriesPromise ==
  ASSUME HttpGiven, RetriesInv
  PROVE  Retries!GivesUpInTime /\ Retries!CountersAddUp /\ Retries!HealthFollowsTheRate
<1>1. Retries!UnderWay = UnderWay /\ Retries!Cardinality(UnderWay) = Cardinality(UnderWay)
  BY HttpCardinality DEF Retries!UnderWay, UnderWay
<1>2. Retries!GivesUpInTime
  BY DEF RetriesInv, HttpCallsOK, IsHttpCall, Retries!GivesUpInTime, Retries!Free
<1>3. Retries!CountersAddUp
  BY <1>1 DEF RetriesInv, HttpCounts, Retries!CountersAddUp
<1>4. Retries!HealthFollowsTheRate
  <2> DEFINE n == Cardinality(UnderWay)
             lost == failures + n
             fine == (total = 0 \/ 100 * succeeded >= 95 * total) /\ opened
             fair == total = 0 \/ 100 * succeeded >= 80 * total
  <2> SUFFICES ASSUME cleanups = 0
               PROVE  /\ Retries!GetHealth = "unhealthy" <=> 5 * lost > total
                      /\ Retries!GetHealth = "healthy" => 20 * lost <= total
    BY <1>1 DEF Retries!HealthFollowsTheRate
  <2>1. /\ total \in Nat /\ succeeded \in Nat /\ failures \in Nat /\ n \in Nat
        /\ succeeded + failures + n = total
    BY FS_CardinalityType DEF RetriesInv, HttpCounts
  <2>2. Retries!GetHealth = CASE fine -> "healthy" [] ~fine /\ fair -> "degraded" [] OTHER -> "unhealthy"
    BY DEF Retries!GetHealth
  <2> HIDE DEF n
  <2>3. fair <=> ~(5 * lost > total)
    BY <2>1
  <2>4. fine => fair /\ 20 * lost <= total
    BY <2>1
  <2> HIDE DEF fine, fair, lost
  <2> QED BY <2>2, <2>3, <2>4
<1> QED BY <1>2, <1>3, <1>4

\* The highest and the lowest of one or two delays.
LEMMA LongestOfOne == ASSUME NEW a \in Int PROVE Retries!Max({a}) = a
<1>1. \E x \in {a} : \A y \in {a} : x >= y
  OBVIOUS
<1>2. Retries!Max({a}) \in {a}
  BY <1>1 DEF Retries!Max
<1> QED BY <1>2

\* Of two.
LEMMA LongestOfTwo == ASSUME NEW a \in Int, NEW b \in Int PROVE Retries!Max({a, b}) = IF a >= b THEN a ELSE b
<1>1. \E x \in {a, b} : \A y \in {a, b} : x >= y
  <2>1. CASE a >= b
    BY <2>1
  <2>2. CASE b >= a
    BY <2>2
  <2> QED BY <2>1, <2>2
<1>2. Retries!Max({a, b}) \in {a, b} /\ \A y \in {a, b} : Retries!Max({a, b}) >= y
  BY <1>1 DEF Retries!Max
<1> QED BY <1>2

\* The shorter of two.
LEMMA ShortestOfTwo == ASSUME NEW a \in Int, NEW b \in Int PROVE Retries!Min({a, b}) = IF a <= b THEN a ELSE b
<1>1. \E x \in {a, b} : \A y \in {a, b} : x <= y
  <2>1. CASE a <= b
    BY <2>1
  <2>2. CASE b <= a
    BY <2>2
  <2> QED BY <2>1, <2>2
<1>2. Retries!Min({a, b}) \in {a, b} /\ \A y \in {a, b} : Retries!Min({a, b}) <= y
  BY <1>1 DEF Retries!Min
<1> QED BY <1>2

\* The second of two sets of delays is no shorter; none is as short as itself.
NoShorter(first, second) == first # {} => second # {} /\ Retries!Max(first) <= Retries!Max(second)

\* No delay.
LEMMA NoneNoShorter == NoShorter({}, {})
  BY DEF NoShorter

\* One delay and another that is as long.
LEMMA OneNoShorter == ASSUME NEW a \in Int, NEW b \in Int, a <= b PROVE NoShorter({a}, {b})
<1>1. Retries!Max({a}) = a /\ Retries!Max({b}) = b
  BY LongestOfOne
<1> QED BY <1>1 DEF NoShorter

\* No wait at all.
LEMMA NowNoShorter == NoShorter({0}, {0})
<1> DEFINE z == 0
<1>1. z \in Int /\ z <= z
  OBVIOUS
<1> HIDE DEF z
<1>2. NoShorter({z}, {z})
  BY <1>1, OneNoShorter
<1> QED BY <1>2 DEF z

\* The same two delays.
LEMMA TwoNoShorter == ASSUME NEW a \in Int, NEW b \in Int PROVE NoShorter({a, b}, {a, b})
<1>1. Retries!Max({a, b}) \in Int
  BY LongestOfTwo
<1> QED BY <1>1 DEF NoShorter

\* A product with a doubled factor is no less.
LEMMA TwiceAsMuch ==
  ASSUME NEW k \in Nat, NEW p \in Nat
  PROVE  k * p \in Nat /\ k * (2 * p) \in Nat /\ k * p <= k * (2 * p)
<1>1. k * p \in Nat /\ k * (2 * p) = 2 * (k * p)
  OBVIOUS
<1> DEFINE n == k * p
<1> HIDE DEF n
<1>2. n \in Nat => n <= 2 * n /\ 2 * n \in Nat
  OBVIOUS
<1> QED BY <1>1, <1>2 DEF n

\* A tool never waits shorter after a later refusal than after the same one earlier.
LEMMA BackoffGrowsAlways ==
  ASSUME HttpGiven, PowersDouble
  PROVE  Retries!BackoffGrows
<1> SUFFICES ASSUME NEW t \in Retries!HttpTools, NEW answer \in HttpAnswers[t], NEW n \in 0..(Tries - 2)
             PROVE  /\ NoShorter(Retries!ShouldRetry(t, answer, n), Retries!ShouldRetry(t, answer, n + 1))
                    /\ Retries!ShouldRetry(t, answer, n) # {} =>
                         Retries!CalculateBackoffDelay(n) <= Retries!CalculateBackoffDelay(n + 1)
  BY DEF Retries!BackoffGrows, NoShorter
<1> DEFINE p == Retries!Power(n)
<1>1. p \in Nat \ {0} /\ Retries!Power(n + 1) = 2 * p /\ n \in Nat /\ n + 1 \in Nat /\ n \in 0..Tries
  BY DEF PowersDouble, HttpGiven
<1>2. /\ answer.status \in Nat /\ answer.retryAfter \in Nat \cup {Retries!Absent, Retries!Date}
      /\ answer.remaining \in Int /\ answer.untilReset \in Int
  BY DEF HttpGiven
<1> HIDE DEF p
<1>3. Retries!CalculateBackoffDelay(n) <= Retries!CalculateBackoffDelay(n + 1)
  <2>1. Retries!CalculateBackoffDelay(n) = Retries!Min({p, 60}) /\ Retries!CalculateBackoffDelay(n + 1) = Retries!Min({2 * p, 60})
    BY <1>1 DEF Retries!CalculateBackoffDelay, p
  <2>2. Retries!Min({p, 60}) = IF p <= 60 THEN p ELSE 60
    BY <1>1, ShortestOfTwo
  <2>3. Retries!Min({2 * p, 60}) = IF 2 * p <= 60 THEN 2 * p ELSE 60
    <3>1. 2 * p \in Int
      BY <1>1
    <3> QED BY <3>1, ShortestOfTwo
  <2> QED BY <1>1, <2>1, <2>2, <2>3
<1>4. CASE t = "github"
  <2> DEFINE k == IF answer.retryAfter = Retries!Absent THEN 1 ELSE answer.retryAfter
  <2>1. /\ Retries!ShouldRetry(t, answer, n) = Retries!GitHubShouldRetry(answer, n)
        /\ Retries!ShouldRetry(t, answer, n + 1) = Retries!GitHubShouldRetry(answer, n + 1)
    BY <1>4 DEF Retries!ShouldRetry
  <2>2. CASE answer.status = 429 /\ answer.retryAfter = Retries!Date
    <3>1. Retries!GitHubShouldRetry(answer, n) = {0} /\ Retries!GitHubShouldRetry(answer, n + 1) = {0}
      BY <2>2 DEF Retries!GitHubShouldRetry
    <3>2. NoShorter({0}, {0})
      BY NowNoShorter
    <3> QED BY <1>3, <2>1, <3>1, <3>2
  <2>3. CASE answer.status = 429 /\ answer.retryAfter # Retries!Date
    <3>1. Retries!GitHubShouldRetry(answer, n) = {k * p} /\ Retries!GitHubShouldRetry(answer, n + 1) = {k * (2 * p)}
      BY <1>1, <2>3 DEF Retries!GitHubShouldRetry, p
    <3>2. k \in Nat
      BY <1>2, <2>3
    <3> HIDE DEF k
    <3>3. k * p \in Int /\ k * (2 * p) \in Int /\ k * p <= k * (2 * p)
      BY <1>1, <3>2, TwiceAsMuch
    <3>4. NoShorter({k * p}, {k * (2 * p)})
      BY <3>3, OneNoShorter
    <3> QED BY <1>3, <2>1, <3>1, <3>4
  <2>4. CASE answer.status # 429
    <3> DEFINE S == IF answer.remaining # Retries!Absent /\ answer.untilReset # Retries!Absent /\ answer.remaining <= 1
                    THEN {Retries!Max({answer.untilReset, 1})} ELSE {}
    <3>1. Retries!GitHubShouldRetry(answer, n) = S /\ Retries!GitHubShouldRetry(answer, n + 1) = S
      BY <2>4 DEF Retries!GitHubShouldRetry
    <3>2. Retries!Max({answer.untilReset, 1}) \in Int
      BY <1>2, LongestOfTwo
    <3> DEFINE wait == Retries!Max({answer.untilReset, 1})
    <3>3. NoShorter({wait}, {wait})
      <4> HIDE DEF wait
      <4> QED BY <3>2, OneNoShorter DEF wait
    <3>4. S = {wait} \/ S = {}
      OBVIOUS
    <3> HIDE DEF S, wait
    <3>5. NoShorter(S, S)
      BY <3>3, <3>4, NoneNoShorter
    <3> QED BY <1>3, <2>1, <3>1, <3>5
  <2> QED BY <2>2, <2>3, <2>4
<1>5. CASE t = "gitlab"
  <2>1. /\ Retries!ShouldRetry(t, answer, n) = Retries!GitLabShouldRetry(answer, n)
        /\ Retries!ShouldRetry(t, answer, n + 1) = Retries!GitLabShouldRetry(answer, n + 1)
    BY <1>5 DEF Retries!ShouldRetry
  <2>2. CASE answer.status # 429
    <3>1. Retries!GitLabShouldRetry(answer, n) = {} /\ Retries!GitLabShouldRetry(answer, n + 1) = {}
      BY <2>2 DEF Retries!GitLabShouldRetry
    <3> QED BY <1>3, <2>1, <3>1, NoneNoShorter
  <2>3. CASE answer.status = 429 /\ answer.retryAfter = Retries!Date
    <3>1. Retries!GitLabShouldRetry(answer, n) = {0} /\ Retries!GitLabShouldRetry(answer, n + 1) = {0}
      BY <2>3 DEF Retries!GitLabShouldRetry, Retries!Date, Retries!Absent
    <3>2. NoShorter({0}, {0})
      BY NowNoShorter
    <3> QED BY <1>3, <2>1, <3>1, <3>2
  <2>4. CASE answer.status = 429 /\ answer.retryAfter = Retries!Absent
    <3> DEFINE schedule == <<1, 4, 16, 64, 128>>
               i == Retries!Min({n, 4}) + 1
               j == Retries!Min({n + 1, 4}) + 1
    <3>1. /\ Retries!GitLabShouldRetry(answer, n) = {54 * schedule[i], 66 * schedule[i]}
          /\ Retries!GitLabShouldRetry(answer, n + 1) = {54 * schedule[j], 66 * schedule[j]}
      BY <2>4 DEF Retries!GitLabShouldRetry, Retries!Date, Retries!Absent
    <3>2. i \in 1..5 /\ j = IF i < 5 THEN i + 1 ELSE 5
      <4>1. Retries!Min({n, 4}) = IF n <= 4 THEN n ELSE 4
        BY <1>1, ShortestOfTwo
      <4>2. Retries!Min({n + 1, 4}) = IF n + 1 <= 4 THEN n + 1 ELSE 4
        BY <1>1, ShortestOfTwo
      <4> QED BY <1>1, <4>1, <4>2
    <3> HIDE DEF i, j
    <3>3. schedule[i] \in Nat /\ schedule[j] \in Nat /\ schedule[i] <= schedule[j]
      <4>1. /\ schedule[1] = 1 /\ schedule[2] = 4 /\ schedule[3] = 16 /\ schedule[4] = 64 /\ schedule[5] = 128
        OBVIOUS
      <4> HIDE DEF schedule
      <4> QED BY <3>2, <4>1
    <3> DEFINE a == schedule[i]
               b == schedule[j]
    <3> HIDE DEF schedule
    <3>4. a \in Nat /\ b \in Nat /\ a <= b
      BY <3>3
    <3>5. /\ Retries!GitLabShouldRetry(answer, n) = {54 * a, 66 * a}
          /\ Retries!GitLabShouldRetry(answer, n + 1) = {54 * b, 66 * b}
      BY <3>1
    <3> HIDE DEF a, b
    <3>6. Retries!Max({54 * a, 66 * a}) = 66 * a
      <4>1. 54 * a \in Int /\ 66 * a \in Int /\ 54 * a <= 66 * a
        BY <3>4
      <4> QED BY <4>1, LongestOfTwo
    <3>7. Retries!Max({54 * b, 66 * b}) = 66 * b
      <4>1. 54 * b \in Int /\ 66 * b \in Int /\ 54 * b <= 66 * b
        BY <3>4
      <4> QED BY <4>1, LongestOfTwo
    <3>8. 66 * a <= 66 * b
      BY <3>4
    <3>9. NoShorter({54 * a, 66 * a}, {54 * b, 66 * b})
      BY <3>6, <3>7, <3>8 DEF NoShorter
    <3> QED BY <1>3, <2>1, <3>5, <3>9
  <2>5. CASE answer.status = 429 /\ answer.retryAfter # Retries!Date /\ answer.retryAfter # Retries!Absent
    <3> DEFINE x == Retries!Max({1, (85 * answer.retryAfter) \div 100})
               y == Retries!Max({1, (115 * answer.retryAfter) \div 100})
    <3>1. Retries!GitLabShouldRetry(answer, n) = {x, y} /\ Retries!GitLabShouldRetry(answer, n + 1) = {x, y}
      BY <2>5 DEF Retries!GitLabShouldRetry
    <3>2. (85 * answer.retryAfter) \div 100 \in Int /\ (115 * answer.retryAfter) \div 100 \in Int
      BY <1>2, <2>5
    <3>3. x \in Int /\ y \in Int
      <4> DEFINE less == (85 * answer.retryAfter) \div 100
                 more == (115 * answer.retryAfter) \div 100
      <4>1. less \in Int /\ more \in Int
        BY <3>2
      <4> HIDE DEF less, more
      <4>2. Retries!Max({1, less}) \in Int
        BY <4>1, LongestOfTwo
      <4>3. Retries!Max({1, more}) \in Int
        BY <4>1, LongestOfTwo
      <4> QED BY <4>2, <4>3 DEF less, more
    <3> HIDE DEF x, y
    <3>4. NoShorter({x, y}, {x, y})
      BY <3>3, TwoNoShorter
    <3> QED BY <1>3, <2>1, <3>1, <3>4
  <2> QED BY <2>2, <2>3, <2>4, <2>5
<1>6. CASE t = "jira"
  <2>1. /\ Retries!ShouldRetry(t, answer, n) = Retries!JiraShouldRetry(answer, n)
        /\ Retries!ShouldRetry(t, answer, n + 1) = Retries!JiraShouldRetry(answer, n + 1)
    BY <1>6 DEF Retries!ShouldRetry
  <2> DEFINE b == Retries!JiraBase(answer.size)
  <2>2. b \in {2, 3, 4, 6}
    BY DEF Retries!JiraBase
  <2>3. CASE answer.status = 429
    <3>1. /\ Retries!JiraShouldRetry(answer, n) = {(b * p) \div 2}
          /\ Retries!JiraShouldRetry(answer, n + 1) = {(b * (2 * p)) \div 2}
      BY <1>1, <2>3 DEF Retries!JiraShouldRetry, p
    <3> HIDE DEF b
    <3>2. (b * p) \div 2 \in Int /\ (b * (2 * p)) \div 2 \in Int /\ (b * p) \div 2 <= (b * (2 * p)) \div 2
      BY <1>1, <2>2
    <3>3. NoShorter({(b * p) \div 2}, {(b * (2 * p)) \div 2})
      BY <3>2, OneNoShorter
    <3> QED BY <1>3, <2>1, <3>1, <3>3
  <2>4. CASE answer.status # 429
    <3>1. Retries!JiraShouldRetry(answer, n) = {} /\ Retries!JiraShouldRetry(answer, n + 1) = {}
      BY <2>4 DEF Retries!JiraShouldRetry
    <3> QED BY <1>3, <2>1, <3>1, NoneNoShorter
  <2> QED BY <2>3, <2>4
<1> QED BY <1>3, <1>4, <1>5, <1>6 DEF HttpGiven

\* The calls and the counters of the pool have their types.
LEMMA RetriesTypes ==
  ASSUME RetriesInv
  PROVE  Retries!TypeOK
  BY DEF RetriesInv, HttpCallsOK, HttpCounts, IsHttpCall, Retries!TypeOK,
    httpCalls, total, succeeded, failures, cleanups

-----------------------------------------------------------------------------
(* In MCRequests' composition.                                                  *)

\* Each of them moves by its own steps.
LEMMA ServicesMove ==
  ASSUME [MCNext]_all
  PROVE  /\ part = "settings" => [Settings!Next]_(Settings!vars)
         /\ part = "unified oauth" => [Unified!Next]_(Unified!vars)
         /\ part = "retries" => [Retries!Next]_(Retries!vars)
  BY DEF MCNext, MCPlatforms, all, rest1, Settings!vars, Unified!vars, Retries!vars, Retries!counters

\* A platform's limits move by their own steps.
LEMMA LimitsMove ==
  ASSUME [MCNext]_all, NEW p \in MCPlatforms, part = p
  PROVE  [Limits(p)!Next]_(Limits(p)!vars)
<1>1. \/ \E q \in MCPlatforms : part = q /\ Limits(q)!Next
      \/ UNCHANGED rest1
  BY DEF MCNext, MCPlatforms, all
<1>2. CASE UNCHANGED rest1
  BY <1>2 DEF rest1, Limits!vars
<1> QED BY <1>1, <1>2

\* MCRequests checks both properties of the settings; they hold in its composition
\* as they hold alone.
THEOREM CachedIsPersistedComposed ==
  ASSUME NoneIsNothing
  PROVE  MCSpec => []CachedIsPersisted
<1> DEFINE Inv == part = "settings" => ConfigInv
<1>1. MCInit => Inv
  BY ConfigStart DEF MCInit, MCPlatforms
<1>2. Inv /\ [MCNext]_all => Inv'
  BY PartStays, ServicesMove, ConfigStep
<1>3. Inv => CachedIsPersisted
  BY CacheAnswers, EnabledAsSaved DEF CachedIsPersisted
<1> QED BY <1>1, <1>2, <1>3, PTL DEF MCSpec

\* In lib/rate-limit/index.ts a cached status is no older than its time to live allows,
\* a row of the table is restored with the level of its numbers, and the service
\* answers as the functions it replaces do: for any answers, rows, calls and times.
THEOREM LimitsAreCurrentComposed ==
  ASSUME LimitsGiven
  PROVE  MCSpec => []LimitsAreCurrent
<1> DEFINE Inv == \A p \in MCPlatforms : part = p => LimitsInv(p)
<1>1. MCInit => Inv
  BY LimitsStart DEF MCInit, MCPlatforms
<1>2. Inv /\ [MCNext]_all => Inv'
  BY PartStays, LimitsMove, LimitsStep
<1>3. Inv => LimitsAreCurrent
  BY LevelsPromise, RecentPromise, ReplacesPromise DEF LimitsAreCurrent
<1> QED BY <1>1, <1>2, <1>3, PTL DEF MCSpec

\* No overlap of fetches, loads and restarts puts an older status of a platform over
\* a newer one (lib/rate-limit/index.ts), nor does a component show an older login
\* after a newer one in a page where no request was shared or abandoned
\* (app/components/hooks/useAuthStatus.ts).
THEOREM NothingGoesBackComposed ==
  ASSUME LimitsGiven, LoginsGiven, StatusNone
  PROVE  MCSpec => NothingGoesBack
<1> DEFINE Inv == /\ \A p \in MCPlatforms : part = p => LimitsInv(p)
                  /\ part = "auth status" => ForwardInv
<1>1. MCInit => Inv
  BY LimitsStart, ForwardStart DEF MCInit, MCPlatforms
<1>2. Inv /\ [MCNext]_all => Inv' /\ NoOlderStatus /\ NoOlderLogin
  BY PartStays, LimitsMove, LimitsStep, LoginsMove, ForwardStep DEF NoOlderStatus, NoOlderLogin
<1> HIDE DEF Inv
<1> QED BY <1>1, <1>2, PTL DEF MCSpec, NothingGoesBack

\* The unified OAuth service (lib/oauth/index.ts) lets a callback on for the newest login
\* alone and within its ten minutes, whatever state the callback brings, finds the
\* configurations and errors that the modules it unifies find, and lets only a new
\* login, or a refresh that was running when they were revoked, bring revoked tokens
\* back: for any tools, environments, calls and times.
THEOREM UnifiedKeepsTheRulesComposed ==
  ASSUME UnifiedGiven
  PROVE  MCSpec => []UnifiedKeepsTheRules
<1> DEFINE Inv == part = "unified oauth" => UnifiedInv
<1>1. MCInit => Inv
  BY UnifiedStart DEF MCInit, MCPlatforms
<1>2. Inv /\ [MCNext]_all => Inv'
  BY PartStays, ServicesMove, UnifiedStep
<1>3. UnifiedInv => Unified!OnlyRunningRefreshesRevive
  BY DEF UnifiedInv, GoneStaysGone, Unified!OnlyRunningRefreshesRevive
<1>4. Inv => UnifiedKeepsTheRules
  BY <1>3, ErrorsPromise, CallbacksPromise, ConfigurationsPromise
    DEF UnifiedKeepsTheRules
<1> QED BY <1>1, <1>2, <1>4, PTL DEF MCSpec

\* Retries (lib/api-client.ts) are as many as allowed, and the longest delay after a
\* refusal is no shorter than the longest one attempt earlier; the counters of the pool
\* (lib/connection-pool.ts) add up with the requests under way until they are scaled
\* down, miss them later by no more than were under way then, and its health follows
\* those that failed or are under way: for any answers of the providers and any number
\* of calls.
THEOREM RetriesAddUpComposed ==
  ASSUME HttpGiven, PowersDouble
  PROVE  MCSpec => []RetriesAddUp
<1> DEFINE Inv == part = "retries" => RetriesInv
<1>1. MCInit => Inv
  BY RetriesStart DEF MCInit, MCPlatforms
<1>2. Inv /\ [MCNext]_all => Inv'
  BY PartStays, ServicesMove, RetriesStep
<1>3. Inv => RetriesAddUp
  BY RetriesPromise, BackoffGrowsAlways DEF RetriesAddUp
<1> QED BY <1>1, <1>2, <1>3, PTL DEF MCSpec

-----------------------------------------------------------------------------
(* The types of the services, in MCRequests' composition.                      *)

\* A platform's limits, and the other services, with what their types need.
LimitedTyped(p) == LimitsInv(p) /\ LimitsTyped(p)
ServicesTyped ==
  /\ \A p \in MCPlatforms : part = p => LimitedTyped(p)
  /\ part = "settings" => ConfigInv /\ SettingsTyped
  /\ part = "unified oauth" => UnifiedInv /\ UnifiedTyped
  /\ part = "retries" => RetriesInv

\* What their theorems assume.
ServicesGiven == SettingsGiven /\ LimitsSane /\ TokensGiven /\ HttpGiven

\* They start so,
LEMMA ServicesTypedStart ==
  ASSUME ServicesGiven, MCInit
  PROVE  ServicesTyped
<1>1. NoneIsNothing /\ LimitsSane /\ LimitsGiven /\ TokensGiven /\ HttpGiven
  BY DEF ServicesGiven, SettingsGiven, LimitsSane
<1>2. ASSUME NEW p \in MCPlatforms, part = p PROVE LimitedTyped(p)
  <2>1. Limits(p)!Init
    BY <1>2 DEF MCInit, MCPlatforms
  <2> QED
    BY <1>1, <2>1, LimitsStart, LimitsTypedStart DEF LimitedTyped
<1>3. /\ part = "settings" => Settings!Init
      /\ part = "unified oauth" => Unified!Init
      /\ part = "retries" => Retries!Init
  BY DEF MCInit, MCPlatforms
<1>4. part = "settings" => ConfigInv /\ SettingsTyped
  BY <1>1, <1>3, ConfigStart, SettingsTypedStart
<1>5. part = "unified oauth" => UnifiedInv /\ UnifiedTyped
  BY <1>1, <1>3, UnifiedStart, UnifiedTypedStart
<1>6. part = "retries" => RetriesInv
  BY <1>1, <1>3, RetriesStart
<1> QED
  BY <1>2, <1>4, <1>5, <1>6 DEF ServicesTyped

\* and stay so in every step of the composition.
LEMMA ServicesTypedStep ==
  ASSUME ServicesGiven, ServicesTyped, [MCNext]_all
  PROVE  ServicesTyped'
<1>1. NoneIsNothing /\ SettingsGiven /\ LimitsSane /\ LimitsGiven /\ TokensGiven /\ UnifiedGiven /\ HttpGiven
  BY DEF ServicesGiven, SettingsGiven, LimitsSane, TokensGiven
<1>2. part' = part
  BY PartStays
<1>3. ASSUME NEW p \in MCPlatforms, part = p PROVE LimitedTyped(p)'
  <2>1. LimitsInv(p) /\ LimitsTyped(p)
    BY <1>3 DEF ServicesTyped, LimitedTyped
  <2>2. [Limits(p)!Next]_(Limits(p)!vars)
    BY <1>3, LimitsMove
  <2>3. LimitsInv(p)'
    BY <1>1, <2>1, <2>2, LimitsStep
  <2>4. LimitsTyped(p)'
    BY <1>1, <2>1, <2>2, LimitsTypedStep
  <2> QED
    BY <2>3, <2>4 DEF LimitedTyped
<1>4. part = "settings" => ConfigInv' /\ SettingsTyped'
  BY <1>1, ServicesMove, ConfigStep, SettingsTypedStep DEF ServicesTyped
<1>5. part = "unified oauth" => UnifiedInv' /\ UnifiedTyped'
  BY <1>1, ServicesMove, UnifiedStep, UnifiedTypedStep DEF ServicesTyped
<1>6. part = "retries" => RetriesInv'
  BY <1>1, ServicesMove, RetriesStep DEF ServicesTyped
<1> QED
  BY <1>2, <1>3, <1>4, <1>5, <1>6 DEF ServicesTyped

\* Their types follow.
LEMMA ServicesTypes ==
  ASSUME ServicesGiven, ServicesTyped
  PROVE  /\ \A p \in MCPlatforms : part = p => Limits(p)!TypeOK
         /\ part = "settings" => Settings!TypeOK
         /\ part = "unified oauth" => Unified!TypeOK
         /\ part = "retries" => Retries!TypeOK
<1>1. LimitsSane /\ TokensGiven
  BY DEF ServicesGiven
<1>2. ASSUME NEW p \in MCPlatforms, part = p PROVE Limits(p)!TypeOK
  <2>1. LimitsInv(p) /\ LimitsTyped(p)
    BY <1>2 DEF ServicesTyped, LimitedTyped
  <2> QED
    BY <1>1, <2>1, LimitsTypes
<1>3. part = "settings" => Settings!TypeOK
  BY SettingsTypes DEF ServicesTyped
<1>4. part = "unified oauth" => Unified!TypeOK
  BY <1>1, UnifiedTypes DEF ServicesTyped
<1>5. part = "retries" => Retries!TypeOK
  BY RetriesTypes DEF ServicesTyped
<1> QED
  BY <1>2, <1>3, <1>4, <1>5
================================================================================
