--------------------------- MODULE BrowserSessions ---------------------------
(***************************************************************************)
(* The session of a browser: useSession                                    *)
(* (app/components/hooks/useSession.ts) over GET, POST and DELETE of       *)
(* app/api/sessions/route.ts and the Redis store of                        *)
(* lib/sessions/session-manager.ts.  A session is its preferences and its   *)
(* uiState; each command of the store is a step, and so is the arrival of  *)
(* the answer.                                                             *)
(***************************************************************************)
EXTENDS Integers

CONSTANTS
  Calls,
  Values,      \* of a field; 0 is that of a new session
  Updates,     \* what a page may update: functions from some of the fields
  None,
  MaxSessions, \* bounds
  MaxFaults

VARIABLES
  store,     \* id -> None or a session
  stored,    \* the id in localStorage
  session,   \* what the hook shows, None before any
  sessionId,
  loading,
  initialized, \* has this page called initializeSession?
  calls,     \* call -> Free or [kind, at, id, updates, session, ok, heard]
  nextId,
  faults,
  disturbed  \* history: calls overlapped, or a session was lost half way

vars == <<store, stored, session, sessionId, loading, initialized, calls, nextId, faults, disturbed>>

Ids == 1..MaxSessions
Fields == {"preferences", "uiState"}
Sessions == [Fields -> Values]
NewSession == [f \in Fields |-> 0]
Free == [at |-> "free"]
Busy == {c \in Calls : calls[c] # Free}

\* The shallow merge of updateSession, in the store and in the hook.
Merged(s, updates) == [f \in Fields |-> IF f \in DOMAIN updates THEN updates[f] ELSE s[f]]

-----------------------------------------------------------------------------
(* The page.                                                                 *)

Send(c, kind, id, updates) ==
  /\ calls[c] = Free
  /\ calls' = [calls EXCEPT ![c] =
       [kind |-> kind, at |-> IF id = None THEN "save" ELSE "get", id |-> id,
        updates |-> updates, session |-> None, ok |-> FALSE, heard |-> TRUE]]
  /\ disturbed' = (disturbed \/ Busy # {})

\* initializeSession, when the page is loaded.
Load(c) ==
  /\ ~initialized /\ initialized' = TRUE
  /\ Send(c, IF stored # None THEN "init" ELSE "create", stored, <<>>)
  /\ loading' = TRUE
  /\ UNCHANGED <<store, stored, session, sessionId, nextId, faults>>

Shown == sessionId # None /\ session # None

\* updateSession, by the page or for a movement of the mouse (no field
\* of these).
UpdateSession(c, updates) ==
  /\ Shown /\ Send(c, "update", sessionId, updates)
  /\ UNCHANGED <<store, stored, session, sessionId, loading, initialized, nextId, faults>>

\* Every five minutes, as long as the session did not change meanwhile.
RefreshSession(c) ==
  /\ Shown /\ Send(c, "refresh", sessionId, <<>>)
  /\ loading' = TRUE
  /\ UNCHANGED <<store, stored, session, sessionId, initialized, nextId, faults>>

ClearSession(c) ==
  /\ sessionId # None /\ Send(c, "clear", sessionId, <<>>)
  /\ UNCHANGED <<store, stored, session, sessionId, loading, initialized, nextId, faults>>

\* The page is left: the hook's state is lost, calls go on without it.
Leave ==
  /\ initialized /\ initialized' = FALSE
  /\ session' = None /\ sessionId' = None /\ loading' = FALSE
  /\ calls' = [c \in Calls |->
       IF calls[c].at \in {"free", "answer"} THEN Free ELSE [calls[c] EXCEPT !.heard = FALSE]]
  /\ disturbed' = (Busy # {})
  /\ UNCHANGED <<store, stored, nextId, faults>>

-----------------------------------------------------------------------------
(* The server.                                                               *)

Step(c, at) == calls' = [calls EXCEPT ![c].at = at]

\* Nobody hears the answer to a page that was left.
Answer(c, id, ok, s) ==
  calls' = [calls EXCEPT ![c] =
    IF @.heard THEN [@ EXCEPT !.at = "answer", !.id = id, !.ok = ok, !.session = s] ELSE Free]

\* getSession, which answers null for an error of the store: GET answers the
\* session, POST goes on to updateSession and DELETE to deleteSession.
Get(c) ==
  /\ calls[c].at = "get"
  /\ \E fails \in BOOLEAN :
       LET s == IF fails THEN None ELSE store[calls[c].id] IN
       /\ fails => faults < MaxFaults
       /\ faults' = IF fails THEN faults + 1 ELSE faults
       /\ disturbed' = (disturbed \/ fails)
       /\ CASE s = None -> Answer(c, calls[c].id, FALSE, None)
            [] s # None /\ calls[c].kind = "update" -> Step(c, "read")
            [] s # None /\ calls[c].kind = "clear" -> Step(c, "delete")
            [] OTHER -> Answer(c, calls[c].id, TRUE, s)
  /\ UNCHANGED <<store, stored, session, sessionId, loading, initialized, nextId>>

\* updateSession gets the session once more, and merges into a new one when it
\* finds none.
Read(c) ==
  /\ calls[c].at = "read"
  /\ \E fails \in BOOLEAN :
       LET lost == fails \/ store[calls[c].id] = None
           s == IF lost THEN NewSession ELSE store[calls[c].id]
       IN
       /\ fails => faults < MaxFaults
       /\ faults' = IF fails THEN faults + 1 ELSE faults
       /\ disturbed' = (disturbed \/ lost)
       /\ calls' = [calls EXCEPT ![c] =
            [@ EXCEPT !.at = "write", !.session = Merged(s, calls[c].updates)]]
  /\ UNCHANGED <<store, stored, session, sessionId, loading, initialized, nextId>>

\* setSession throws when the store does.
Write(c) ==
  /\ calls[c].at = "write"
  /\ \/ store' = [store EXCEPT ![calls[c].id] = calls[c].session] /\ Answer(c, calls[c].id, TRUE, None)
        /\ faults' = faults
     \/ faults < MaxFaults /\ faults' = faults + 1 /\ store' = store /\ Answer(c, calls[c].id, FALSE, None)
  /\ UNCHANGED <<stored, session, sessionId, loading, initialized, nextId, disturbed>>

\* GET without an id: a new session is saved.
Save(c) ==
  /\ calls[c].at = "save"
  /\ \/ /\ nextId \in Ids /\ nextId' = nextId + 1
        /\ store' = [store EXCEPT ![nextId] = NewSession]
        /\ Answer(c, nextId, TRUE, NewSession)
        /\ faults' = faults
     \/ /\ faults < MaxFaults /\ faults' = faults + 1
        /\ Answer(c, calls[c].id, FALSE, None) /\ UNCHANGED <<store, nextId>>
  /\ UNCHANGED <<stored, session, sessionId, loading, initialized, disturbed>>

Delete(c) ==
  /\ calls[c].at = "delete"
  /\ \/ store' = [store EXCEPT ![calls[c].id] = None] /\ Answer(c, calls[c].id, TRUE, None) /\ faults' = faults
     \/ faults < MaxFaults /\ faults' = faults + 1 /\ store' = store /\ Answer(c, calls[c].id, FALSE, None)
  /\ UNCHANGED <<stored, session, sessionId, loading, initialized, nextId, disturbed>>

\* The session's 24 hours are over.
Expire(i) ==
  /\ i < nextId /\ store[i] # None
  /\ store' = [store EXCEPT ![i] = None]
  /\ UNCHANGED <<stored, session, sessionId, loading, initialized, calls, nextId, faults, disturbed>>

-----------------------------------------------------------------------------
(* Answers.                                                                  *)

Ends(c, kind) ==
  /\ calls[c].at = "answer" /\ calls[c].kind = kind
  /\ calls' = [calls EXCEPT ![c] = Free]

\* A session that is not found, or not read, is replaced by a new one.
Initialized(c) ==
  /\ \/ /\ Ends(c, "init") /\ calls[c].ok
        /\ session' = calls[c].session /\ sessionId' = calls[c].id /\ loading' = FALSE
     \/ /\ calls[c].at = "answer" /\ calls[c].kind = "init" /\ ~calls[c].ok
        /\ calls' = [calls EXCEPT ![c] = [@ EXCEPT !.kind = "create", !.at = "save"]]
        /\ UNCHANGED <<session, sessionId, loading>>
  /\ UNCHANGED <<store, stored, initialized, nextId, faults, disturbed>>

Created(c) ==
  /\ Ends(c, "create")
  /\ loading' = FALSE
  /\ IF calls[c].ok
     THEN session' = calls[c].session /\ sessionId' = calls[c].id /\ stored' = calls[c].id
     ELSE UNCHANGED <<session, sessionId, stored>>
  /\ UNCHANGED <<store, initialized, nextId, faults, disturbed>>

\* Mutant: the page shows its updates whatever the answer is.
UpdatedAnyway(c) ==
  /\ Ends(c, "update")
  /\ session' = IF session # None THEN Merged(session, calls[c].updates) ELSE session
  /\ UNCHANGED <<store, stored, sessionId, loading, initialized, nextId, faults, disturbed>>

Updated(c) ==
  /\ Ends(c, "update")
  /\ session' = IF calls[c].ok /\ session # None THEN Merged(session, calls[c].updates) ELSE session
  /\ UNCHANGED <<store, stored, sessionId, loading, initialized, nextId, faults, disturbed>>

\* The session is shown even if it was cleared meanwhile.
Refreshed(c) ==
  /\ Ends(c, "refresh")
  /\ session' = IF calls[c].ok THEN calls[c].session ELSE session
  /\ loading' = FALSE
  /\ UNCHANGED <<store, stored, sessionId, initialized, nextId, faults, disturbed>>

Cleared(c) ==
  /\ Ends(c, "clear")
  /\ IF calls[c].ok THEN session' = None /\ sessionId' = None /\ stored' = None
     ELSE UNCHANGED <<session, sessionId, stored>>
  /\ UNCHANGED <<store, loading, initialized, nextId, faults, disturbed>>

-----------------------------------------------------------------------------
Init ==
  /\ store = [i \in Ids |-> None] /\ stored = None /\ session = None /\ sessionId = None
  /\ loading = FALSE /\ initialized = FALSE /\ calls = [c \in Calls |-> Free]
  /\ nextId = 1 /\ faults = 0 /\ disturbed = FALSE

Next ==
  \/ \E c \in Calls :
       \/ Load(c) \/ RefreshSession(c) \/ ClearSession(c)
       \/ \E updates \in Updates : UpdateSession(c, updates)
       \/ Get(c) \/ Read(c) \/ Write(c) \/ Save(c) \/ Delete(c)
       \/ Initialized(c) \/ Created(c) \/ Updated(c) \/ Refreshed(c) \/ Cleared(c)
  \/ \E i \in Ids : Expire(i)
  \/ Leave

Spec == Init /\ [][Next]_vars

-----------------------------------------------------------------------------
TypeOK ==
  /\ store \in [Ids -> Sessions \cup {None}]
  /\ session \in Sessions \cup {None}
  /\ sessionId \in Ids \cup {None} /\ stored \in Ids \cup {None}
  /\ loading \in BOOLEAN

\* When nothing is on its way, no call has overlapped another in this page and none
\* has lost the session half way, the page shows what the store holds, as long as
\* it holds the session; and the browser will find that session again.
ShownIsSaved ==
  Busy = {} /\ sessionId # None =>
    /\ ~disturbed /\ store[sessionId] # None => session = store[sessionId]
    /\ stored = sessionId

\* The hook says that it is loading only while a call of it is on its way.
LoadingEnds == loading => \E c \in Calls : calls[c].at # "free" /\ calls[c].heard
=============================================================================
