----------------------------- MODULE ToolConfigs -----------------------------
(***************************************************************************)
(* ToolConfigManager (lib/tool-config-manager.ts) between its three copies *)
(* of a tool's settings: the row of tool_configs, its cache, and the tool  *)
(* in the registry, whose enabled flag the environment overrides; and the  *)
(* routes of app/api/tools/config, which drive it.                         *)
(*                                                                         *)
(* A call is a request.  A statement is sent, runs, and returns to its     *)
(* call, three steps between which other requests run.  loadToolConfigur-  *)
(* ations is a call as well: initializeDatabase makes it, and nothing in   *)
(* the runtime calls initializeDatabase.                                   *)
(***************************************************************************)
EXTENDS Naturals, FiniteSets

CONSTANTS
  Tools,
  Calls,
  Patches,  \* the partial configurations that requests save
  Flag,     \* tool -> what ENABLE_<TOOL> is, TRUE or FALSE, or None
  None,
  MaxFaults \* bound: failed statements and restarts

VARIABLES
  rows,     \* tool -> None or a configuration
  configCache,
  registry, \* tool -> [enabled, refreshInterval] as the registry holds it
  calls,
  alone,    \* history: no two calls were ever in flight together
  faults

vars == <<rows, configCache, registry, calls, alone, faults>>

Fields == {"enabled", "refreshInterval", "notifications"}
DefaultConfig == [enabled |-> FALSE, refreshInterval |-> None, notifications |-> TRUE]
Merged(config, patch) ==
  [f \in Fields |-> IF f \in DOMAIN patch THEN patch[f] ELSE config[f]]

Free == [at |-> "free"]
Starts == [t \in Tools |-> [enabled |-> Flag[t] = TRUE, refreshInterval |-> None]]

Init ==
  /\ rows = [t \in Tools |-> None]
  /\ configCache = [t \in Tools |-> None]
  /\ registry = Starts
  /\ calls = [c \in Calls |-> Free]
  /\ alone = TRUE /\ faults = 0

-----------------------------------------------------------------------------
(* The manager's synchronous parts.                                          *)

\* applyToolConfiguration: an interval that is set stays on the widgets when a
\* later configuration has none.
Apply(reg, t, config) ==
  [reg EXCEPT ![t] = [enabled |-> config.enabled,
     refreshInterval |-> IF config.refreshInterval = None THEN @.refreshInterval ELSE config.refreshInterval]]

\* What a save would write: over the cached configuration or the defaults.
ToSave(t, patch) ==
  Merged(IF configCache[t] = None THEN DefaultConfig ELSE configCache[t], patch)

Does(kind, t, patch, config) ==
  [at |-> "sent", kind |-> kind, tool |-> t, patch |-> patch, config |-> config]

NoPatch == <<>>
Toggled(config) == [enabled |-> config = None \/ ~config.enabled]

Begins(c) ==
  /\ calls[c] = Free
  /\ alone' = (alone /\ \A d \in Calls : calls[d] = Free)
  /\ UNCHANGED <<rows, registry, faults>>

-----------------------------------------------------------------------------
(* The requests, up to their first statement.                                *)

\* The mutant caches what it is about to write.
SaveBeginsByCaching(c, t) ==
  \E patch \in Patches :
    /\ calls' = [calls EXCEPT ![c] = Does("save", t, patch, ToSave(t, patch))]
    /\ configCache' = [configCache EXCEPT ![t] = ToSave(t, patch)]

\* POST, and PUT with enable or disable: toggleToolState is a save.
SaveBegins(c, t) ==
  /\ \E patch \in Patches : calls' = [calls EXCEPT ![c] = Does("save", t, patch, ToSave(t, patch))]
  /\ UNCHANGED configCache

Post(c, t) == Begins(c) /\ SaveBegins(c, t)

\* PUT with toggle reads the configuration first, from the cache if it is there.
Toggle(c, t) ==
  /\ Begins(c)
  /\ UNCHANGED configCache
  /\ calls' = [calls EXCEPT ![c] =
       IF configCache[t] = None THEN Does("toggle", t, NoPatch, None)
       ELSE LET patch == Toggled(configCache[t]) IN Does("save", t, patch, ToSave(t, patch))]

\* GET of one tool that the cache does not have.
Get(c, t) ==
  /\ Begins(c)
  /\ configCache[t] = None
  /\ calls' = [calls EXCEPT ![c] = Does("get", t, NoPatch, None)]
  /\ UNCHANGED configCache

Delete(c, t) ==
  /\ Begins(c)
  /\ calls' = [calls EXCEPT ![c] = Does("delete", t, NoPatch, None)]
  /\ UNCHANGED configCache

Load(c) ==
  /\ Begins(c)
  /\ calls' = [calls EXCEPT ![c] = Does("load", None, NoPatch, None)]
  /\ UNCHANGED configCache

-----------------------------------------------------------------------------
(* The statements, and what follows each.                                    *)

Runs(c) ==
  /\ calls[c].at = "sent"
  /\ LET call == calls[c] IN
     /\ rows' = CASE call.kind = "save" -> [rows EXCEPT ![call.tool] = call.config]
                  [] call.kind = "delete" -> [rows EXCEPT ![call.tool] = None]
                  [] OTHER -> rows
     /\ calls' = [calls EXCEPT ![c] = [call EXCEPT !.at = "run",
          !.config = CASE call.kind \in {"get", "toggle"} -> rows[call.tool]
                       [] call.kind = "load" -> rows
                       [] OTHER -> @]]
  /\ UNCHANGED <<configCache, registry, alone, faults>>

Returned(c, kind) == calls[c].at = "run" /\ calls[c].kind = kind /\ UNCHANGED <<rows, alone, faults>>
Ends(c) == calls' = [calls EXCEPT ![c] = Free]

SaveReturns(c) ==
  /\ Returned(c, "save")
  /\ configCache' = [configCache EXCEPT ![calls[c].tool] = calls[c].config]
  /\ registry' = Apply(registry, calls[c].tool, calls[c].config)
  /\ Ends(c)

DeleteReturns(c) ==
  /\ Returned(c, "delete")
  /\ configCache' = [configCache EXCEPT ![calls[c].tool] = None]
  /\ registry' = Apply(registry, calls[c].tool, DefaultConfig)
  /\ Ends(c)

GetReturns(c) ==
  /\ Returned(c, "get")
  /\ configCache' = [configCache EXCEPT ![calls[c].tool] = IF calls[c].config = None THEN @ ELSE calls[c].config]
  /\ UNCHANGED registry
  /\ Ends(c)

\* The toggle goes on to save over what its read left in the cache.
ToggleReturns(c) ==
  /\ Returned(c, "toggle")
  /\ LET t == calls[c].tool config == calls[c].config IN
     /\ configCache' = [configCache EXCEPT ![t] = IF config = None THEN @ ELSE config]
     /\ calls' = [calls EXCEPT ![c] = Does("save", t, Toggled(config),
          Merged(IF configCache'[t] = None THEN DefaultConfig ELSE configCache'[t], Toggled(config)))]
  /\ UNCHANGED registry

LoadReturns(c) ==
  /\ Returned(c, "load")
  /\ LET read == calls[c].config IN
     /\ configCache' = [t \in Tools |-> IF read[t] = None THEN configCache[t] ELSE read[t]]
     /\ registry' = [t \in Tools |->
          IF read[t] = None THEN registry[t] ELSE Apply(registry, t, read[t])[t]]
  /\ Ends(c)

\* The statement does not run; the call answers 500.
Fails(c) ==
  /\ calls[c].at = "sent"
  /\ faults < MaxFaults /\ faults' = faults + 1
  /\ Ends(c)
  /\ UNCHANGED <<rows, configCache, registry, alone>>

ClearCache ==
  /\ configCache' = [t \in Tools |-> None]
  /\ UNCHANGED <<rows, registry, calls, alone, faults>>

\* Every reader of the registry first sets the flags the environment defines.
Synced == [t \in Tools |-> [registry[t] EXCEPT !.enabled = IF Flag[t] = None THEN @ ELSE Flag[t]]]

SyncToolEnablementFromEnv ==
  /\ registry' = Synced
  /\ UNCHANGED <<rows, configCache, calls, alone, faults>>

Restart ==
  /\ faults < MaxFaults /\ faults' = faults + 1
  /\ configCache' = [t \in Tools |-> None]
  /\ registry' = Starts
  /\ calls' = [c \in Calls |-> Free]
  /\ UNCHANGED <<rows, alone>>

\* What GET /api/tools/enabled answers, here of one moment: the registry's enabled
\* tools but those that their row disables, each with the interval of its row or,
\* if that sets none, of its widgets.
Disables(row) == row # None /\ ~row.enabled
Interval(t) ==
  IF rows[t] = None \/ rows[t].refreshInterval = None THEN Synced[t].refreshInterval
  ELSE rows[t].refreshInterval
EnabledTools ==
  [t \in {u \in Tools : Synced[u].enabled /\ ~Disables(rows[u])} |-> Interval(t)]

Next ==
  \/ \E c \in Calls, t \in Tools : Post(c, t) \/ Toggle(c, t) \/ Get(c, t) \/ Delete(c, t)
  \/ \E c \in Calls : \/ Load(c) \/ Runs(c) \/ Fails(c)
                      \/ SaveReturns(c) \/ DeleteReturns(c) \/ GetReturns(c)
                      \/ ToggleReturns(c) \/ LoadReturns(c)
  \/ ClearCache \/ SyncToolEnablementFromEnv \/ Restart

Spec == Init /\ [][Next]_vars

-----------------------------------------------------------------------------

Configs == [enabled : BOOLEAN, refreshInterval : {None} \cup Nat, notifications : BOOLEAN]

TypeOK ==
  /\ \A t \in Tools : /\ rows[t] = None \/ rows[t] \in Configs
                      /\ configCache[t] = None \/ configCache[t] \in Configs
                      /\ registry[t].enabled \in BOOLEAN
  /\ \A c \in Calls : calls[c].at \in {"free", "sent", "run"}

\* While no two requests ever overlapped, and whichever of them failed or was
\* cut off by a restart, what the cache answers is what the table holds: no
\* request that answers 500 leaves settings behind that no restart would find.
CachedIsPersisted ==
  alone /\ (\A c \in Calls : calls[c].at # "run") =>
    \A t \in Tools : configCache[t] # None => configCache[t] = rows[t]

\* "Source of truth for enablement is the tool_configs table"
\* (app/api/tools/enabled/route.ts:40): as long as nothing failed or restarted and
\* no two requests overlapped, the tools that the environment does not decide on
\* are listed exactly if their row enables them, with the interval it sets.  (A
\* restart ends this: the registry starts again with nothing enabled, and nothing
\* loads the rows into it.)
ListedAsSaved ==
  alone /\ faults = 0 /\ (\A c \in Calls : calls[c].at # "run") =>
    \A t \in {u \in Tools : Flag[u] = None} :
      /\ t \in DOMAIN EnabledTools <=> rows[t] # None /\ rows[t].enabled
      /\ t \in DOMAIN EnabledTools /\ rows[t].refreshInterval # None =>
           EnabledTools[t] = rows[t].refreshInterval

\* A save leaves the settings its request does not name as they were.
NoSettingIsLost ==
  \A c \in Calls : alone /\ calls[c].at = "sent" /\ calls[c].kind = "save" =>
    LET t == calls[c].tool IN
    rows[t] # None /\ rows'[t] # rows[t] =>
      \A f \in Fields \ DOMAIN calls[c].patch : rows'[t][f] = rows[t][f]

\* "Manages user-configurable tool settings that persist across application
\* restarts" (lib/tool-config-manager.ts:4).
SettingsPersist == [][NoSettingIsLost]_vars
=============================================================================
