------------------------------ MODULE OAuthLogin ------------------------------
(***************************************************************************)
(* The session store and the requests that change it: the callback of an   *)
(* OAuth login (app/api/auth/oauth/[provider]/route.ts), the disconnect    *)
(* route, and the sessions API (app/api/sessions/route.ts) over            *)
(* lib/sessions/session-manager.ts.  One person with one account at each   *)
(* provider: the session names it twice, as userId "provider:id" under     *)
(* which token rows are filed, and as user with its provider; both are the *)
(* provider here.  Preferences and UI state are left out.                  *)
(*                                                                         *)
(* The POST and PATCH of the sessions API put the fields of the client's   *)
(* body over a session, whichever they are: those of the login, which the  *)
(* application's own pages do not send, are among them.                    *)
(*                                                                         *)
(* SessionManager.updateSession reads the whole session, merges and writes *)
(* the whole session back, with an await in between; so does every request *)
(* here, and requests of one session overlap.                              *)
(***************************************************************************)
EXTENDS FiniteSets, Naturals

CONSTANTS
  Providers,   \* github, gitlab, jira
  SessionIds,  \* ids generateSessionId may return
  Calls,       \* requests, each made at most once
  Bodies,      \* what clients send to POST and PATCH /api/sessions
  Kept,        \* a field the body does not carry
  MaxFaults,   \* bound: external failures and lost sessions
  NoUser,      \* a session of nobody
  NoSession,   \* no session under this id
  NoCookie     \* the browser holds no session cookie

Body == [userId : Providers \cup {NoUser, Kept}, user : Providers \cup {NoUser, Kept},
         tools : {Kept} \cup SUBSET Providers]

VARIABLES
  sessions,  \* session id -> [userId, user, tools] or NoSession
  tokens,    \* providers under whose userId token rows are stored
  granted,   \* history: providers whose tokens were ever stored
  claimed,   \* history: session id -> tools that clients' bodies have put in it,
             \* and NoUser once one has touched a field of the login
  state,     \* providers for which the browser holds an OAuth state cookie
  cookie,    \* the session id in the browser's cookie
  step, kind, prov, \* each request: where it waits, what it is, its provider
  sid,       \* the session it works on
  snap,      \* the session it last read
  merge,     \* what updateSession has read, and will write back merged
  faults     \* failures so far

store == <<sessions, claimed, tokens, granted>>
browser == <<state, cookie>>
calls == <<step, kind, prov, sid, snap, merge>>
vars == <<store, browser, calls, faults>>

Session == [userId : Providers \cup {NoUser}, user : Providers \cup {NoUser},
            tools : SUBSET Providers]

\* createSession
NewSession == [userId |-> NoUser, user |-> NoUser, tools |-> {}]

Kinds == {"none", "login", "disconnect", "post", "patch", "delete"}
Steps == {"idle", "exchange", "store", "reread", "remove", "update", "write", "save", "delete",
          "respond", "done"}

Init ==
  /\ sessions = [s \in SessionIds |-> NoSession]
  /\ claimed = [s \in SessionIds |-> {}]
  /\ tokens = {} /\ granted = {} /\ state = {} /\ cookie = NoCookie /\ faults = 0
  /\ step = [c \in Calls |-> "idle"]
  /\ kind = [c \in Calls |-> "none"]
  /\ prov = [c \in Calls |-> NoUser]
  /\ sid = [c \in Calls |-> NoCookie]
  /\ snap = [c \in Calls |-> NoSession]
  /\ merge = [c \in Calls |-> NoSession]

Go(c, next) == step' = [step EXCEPT ![c] = next]
Exists(s) == s \in SessionIds /\ sessions[s] # NoSession
Fault == faults < MaxFaults /\ faults' = faults + 1

\* A request begins: what it is, its provider, its session as it reads it.
Begins(c, k, p, s, next) ==
  /\ step[c] = "idle"
  /\ kind' = [kind EXCEPT ![c] = k]
  /\ prov' = [prov EXCEPT ![c] = p]
  /\ sid' = [sid EXCEPT ![c] = s]
  /\ Go(c, next)

-----------------------------------------------------------------------------
(* The browser asks for a login.  Its state cookie comes back with every      *)
(* callback until a login of the provider succeeds: tabs share it.           *)

Initiate(p) ==
  /\ p \notin state
  /\ state' = state \cup {p}
  /\ UNCHANGED <<store, cookie, calls, faults>>

(* GET without a session id creates a session, whose id the page keeps; only  *)
(* the callback sets the cookie.                                              *)
CreateSession(s) ==
  /\ sessions[s] = NoSession
  /\ sessions' = [sessions EXCEPT ![s] = NewSession]
  /\ UNCHANGED <<claimed, tokens, granted, browser, calls, faults>>

-----------------------------------------------------------------------------
(* The callback.                                                             *)

\* The state matches the cookie.  The browser's session is read, or a new one
\* is saved when it has none or its session is gone.
\* Mutant: the cookie's session is taken without a look at whether it exists.
CallbackTrustsTheCookie(c, p) ==
  /\ p \in state
  /\ \E s \in SessionIds :
       /\ IF cookie # NoCookie THEN s = cookie ELSE sessions[s] = NoSession
       /\ sessions' = [sessions EXCEPT ![s] = IF cookie # NoCookie THEN @ ELSE NewSession]
       /\ snap' = [snap EXCEPT ![c] = IF cookie # NoCookie THEN sessions[s] ELSE NewSession]
       /\ Begins(c, "login", p, s, "exchange")
  /\ UNCHANGED <<claimed, tokens, granted, browser, merge, faults>>

CallbackBegins(c, p) ==
  /\ p \in state
  /\ \E s \in SessionIds :
       /\ IF Exists(cookie) THEN s = cookie ELSE sessions[s] = NoSession
       /\ sessions' = [sessions EXCEPT ![s] = IF Exists(cookie) THEN @ ELSE NewSession]
       /\ snap' = [snap EXCEPT ![c] = IF Exists(cookie) THEN sessions[s] ELSE NewSession]
       /\ Begins(c, "login", p, s, "exchange")
  /\ UNCHANGED <<claimed, tokens, granted, browser, merge, faults>>

\* The code is exchanged, the profile fetched, the user upserted: any of them
\* may fail, and the callback redirects with an error.
\* Mutant: the session is updated before the tokens are stored.
ExchangeThenSession(c) ==
  /\ step[c] = "exchange" /\ Go(c, "reread")
  /\ UNCHANGED <<store, browser, kind, prov, sid, snap, merge, faults>>

Exchange(c) ==
  /\ step[c] = "exchange" /\ Go(c, "store")
  /\ UNCHANGED <<store, browser, kind, prov, sid, snap, merge, faults>>

LoginFails(c) ==
  /\ step[c] \in {"exchange", "store"}
  /\ Fault /\ Go(c, "done")
  /\ UNCHANGED <<store, browser, kind, prov, sid, snap, merge>>

StoreTokens(c) ==
  /\ step[c] = "store"
  /\ tokens' = tokens \cup {prov[c]} /\ granted' = granted \cup {prov[c]}
  /\ Go(c, "reread")
  /\ UNCHANGED <<sessions, claimed, browser, kind, prov, sid, snap, merge, faults>>

\* The session is read again; one that has gone leaves the first reading.
Reread(c) ==
  /\ step[c] = "reread"
  /\ snap' = [snap EXCEPT ![c] = IF Exists(sid[c]) THEN sessions[sid[c]] ELSE @]
  /\ Go(c, "update")
  /\ UNCHANGED <<store, browser, kind, prov, sid, merge, faults>>

-----------------------------------------------------------------------------
(* updateSession.                                                            *)

\* The request forgets what it has written back.
Forget(c) == merge' = [merge EXCEPT ![c] = NoSession]

\* A client's body, put over a session field by field.
Put(x, body) ==
  [userId |-> IF body.userId = Kept THEN x.userId ELSE body.userId,
   user |-> IF body.user = Kept THEN x.user ELSE body.user,
   tools |-> IF body.tools = Kept THEN x.tools ELSE body.tools]

\* What a body claims of the login.
Claims(body) ==
  IF body.userId = Kept /\ body.user = Kept /\ body.tools = Kept
  THEN {} ELSE {NoUser} \cup (IF body.tools = Kept THEN {} ELSE body.tools)
Claim(c, body) == claimed' = [claimed EXCEPT ![sid[c]] = @ \cup Claims(body)]

UpdateReads(c) ==
  /\ step[c] = "update"
  /\ merge' = [merge EXCEPT ![c] = IF Exists(sid[c]) THEN sessions[sid[c]] ELSE NewSession]
  /\ Go(c, "write")
  /\ UNCHANGED <<store, browser, kind, prov, sid, snap, faults>>

\* What the login and the disconnect put over the session that updateSession read.
Merged(c) ==
  IF kind[c] = "login"
  THEN [userId |-> prov[c], user |-> prov[c], tools |-> snap[c].tools \cup {prov[c]}]
  ELSE [userId |-> NoUser, user |-> NoUser, tools |-> merge[c].tools]

UpdateWrites(c) ==
  /\ step[c] = "write" /\ kind[c] \in {"login", "disconnect"}
  /\ sessions' = [sessions EXCEPT ![sid[c]] = Merged(c)]
  /\ Forget(c) /\ Go(c, IF kind[c] = "login" THEN "respond" ELSE "done")
  /\ UNCHANGED <<claimed, tokens, granted, browser, kind, prov, sid, snap, faults>>

\* What a client puts over it.  (The body came with the request; it matters here.)
BodyWrites(c, body) ==
  /\ step[c] = "write" /\ kind[c] \in {"post", "patch"}
  /\ sessions' = [sessions EXCEPT ![sid[c]] = Put(merge[c], body)]
  /\ Claim(c, body) /\ Forget(c) /\ Go(c, "done")
  /\ UNCHANGED <<tokens, granted, browser, kind, prov, sid, snap, faults>>

\* The response sets the session cookie and clears the state cookie.
LoginResponds(c) ==
  /\ step[c] = "respond"
  /\ cookie' = sid[c] /\ state' = state \ {prov[c]}
  /\ Go(c, "done")
  /\ UNCHANGED <<store, kind, prov, sid, snap, merge, faults>>

-----------------------------------------------------------------------------
(* The disconnect route: only the provider of the session's last login.      *)

DisconnectBegins(c, p) ==
  /\ Exists(cookie) /\ sessions[cookie].userId # NoUser /\ sessions[cookie].user = p
  /\ Begins(c, "disconnect", p, cookie, "remove")
  /\ snap' = [snap EXCEPT ![c] = sessions[cookie]]
  /\ UNCHANGED <<store, browser, merge, faults>>

\* The provider's rows of the account the session named.
DisconnectRemoves(c) ==
  /\ step[c] = "remove"
  /\ tokens' = tokens \ ({prov[c]} \cap {snap[c].userId})
  /\ Go(c, "update")
  /\ UNCHANGED <<sessions, claimed, granted, browser, kind, prov, sid, snap, merge, faults>>

DisconnectFails(c) ==
  /\ step[c] = "remove"
  /\ Fault /\ Go(c, "done")
  /\ UNCHANGED <<store, browser, kind, prov, sid, snap, merge>>

(* POST, PATCH and DELETE of the sessions API, of the session whose id the   *)
(* client sends.                                                             *)

Manages(c, k, s, next) ==
  /\ Begins(c, k, NoUser, s, next)
  /\ UNCHANGED <<store, browser, snap, merge, faults>>

\* With updates, or with a whole session in their place; where the session does not
\* exist the body has to carry one.
PostBegins(c, s) == \E next \in {"update", "save"} : Manages(c, "post", s, next)

\* setSession: the session the client sent takes the other's place, whatever that was.
PostSaves(c, body) ==
  /\ step[c] = "save"
  /\ sessions' = [sessions EXCEPT ![sid[c]] = Put(NewSession, body)]
  /\ Claim(c, body) /\ Go(c, "done")
  /\ UNCHANGED <<tokens, granted, browser, kind, prov, sid, snap, merge, faults>>

PatchBegins(c, s) == Exists(s) /\ Manages(c, "patch", s, "update")

DeleteBegins(c, s) == Exists(s) /\ Manages(c, "delete", s, "delete")

DeleteRuns(c) ==
  /\ step[c] = "delete"
  /\ sessions' = [sessions EXCEPT ![sid[c]] = NoSession]
  /\ Go(c, "done")
  /\ UNCHANGED <<claimed, tokens, granted, browser, kind, prov, sid, snap, merge, faults>>

-----------------------------------------------------------------------------
(* What the status routes answer, each of one reading of the session.        *)

\* GET /api/auth/status.
AuthStatus ==
  IF Exists(cookie)
  THEN [authenticated |-> sessions[cookie].userId # NoUser, tools |-> sessions[cookie].tools]
  ELSE [authenticated |-> FALSE, tools |-> {}]

\* GET /api/auth/status/{provider} asks for the provider's tokens of the session's
\* user: other accounts of the person have userIds of their own.  Whether tokens
\* that are there have expired is OAuthTokens' subject (IsAuthenticated).
ProviderStatus(p) ==
  /\ Exists(cookie) /\ sessions[cookie].userId = p
  /\ p \in tokens

-----------------------------------------------------------------------------
\* A session is lost: its TTL ran out, or the memory store evicted it.
Vanish(s) ==
  /\ Exists(s) /\ Fault
  /\ sessions' = [sessions EXCEPT ![s] = NoSession]
  /\ UNCHANGED <<claimed, tokens, granted, browser, calls>>

Login(c) ==
  \/ \E p \in Providers : CallbackBegins(c, p)
  \/ Exchange(c) \/ LoginFails(c) \/ StoreTokens(c) \/ Reread(c) \/ LoginResponds(c)
Leave(c) ==
  \/ \E p \in Providers : DisconnectBegins(c, p)
  \/ DisconnectRemoves(c) \/ DisconnectFails(c)
Manage(c) ==
  \/ \E s \in SessionIds : PostBegins(c, s) \/ PatchBegins(c, s) \/ DeleteBegins(c, s)
  \/ DeleteRuns(c)
  \/ \E body \in Bodies : BodyWrites(c, body) \/ PostSaves(c, body)

Next ==
  \/ \E c \in Calls : Login(c) \/ Leave(c) \/ Manage(c) \/ UpdateReads(c) \/ UpdateWrites(c)
  \/ \E p \in Providers : Initiate(p)
  \/ \E s \in SessionIds : CreateSession(s) \/ Vanish(s)

Spec == Init /\ [][Next]_vars

-----------------------------------------------------------------------------
(* Properties.                                                               *)

Sessions == {s \in SessionIds : sessions[s] # NoSession}

\* Type invariant: a request past its start has a session id, a login and a
\* disconnect have read a session, one about to write has read what it merges
\* into, and where it waits fits what it is.
LoginTypeOK ==
  /\ sessions \in [SessionIds -> Session \cup {NoSession}]
  /\ claimed \in [SessionIds -> SUBSET (Providers \cup {NoUser})]
  /\ tokens \subseteq Providers /\ granted \subseteq Providers /\ state \subseteq Providers
  /\ cookie \in SessionIds \cup {NoCookie}
  /\ step \in [Calls -> Steps] /\ kind \in [Calls -> Kinds]
  /\ prov \in [Calls -> Providers \cup {NoUser}]
  /\ sid \in [Calls -> SessionIds \cup {NoCookie}]
  /\ snap \in [Calls -> Session \cup {NoSession}]
  /\ merge \in [Calls -> Session \cup {NoSession}]
  /\ faults \in Nat
  /\ \A c \in Calls :
       /\ step[c] # "idle" => sid[c] \in SessionIds
       /\ kind[c] \in {"login", "disconnect"} => prov[c] \in Providers /\ snap[c] \in Session
       /\ step[c] = "write" => merge[c] \in Session
       /\ step[c] \in {"exchange", "store", "reread", "respond"} => kind[c] = "login"
       /\ step[c] = "remove" => kind[c] = "disconnect"
       /\ step[c] \in {"update", "write"} => kind[c] \in {"login", "disconnect", "post", "patch"}

\* No client's body has touched the login's fields of a session.
Untouched(s) == claimed[s] = {}

\* The account a session names is one of the tools it lists as connected, as
\* the middleware takes for granted (app/api/middleware/auth.ts checks userId
\* and authenticatedTools independently): overlapping read-merge-write
\* requests may undo one another, but never mix one's user with another's
\* tools.  Only a client that writes the login's fields itself can part them.
UserIsListed ==
  \A s \in Sessions : Untouched(s) =>
    /\ sessions[s].userId = sessions[s].user
    /\ sessions[s].user # NoUser => sessions[s].user \in sessions[s].tools

\* A session lists a tool as connected only when token rows for it were stored
\* at some time before, or when a client's own body put it there: the callback
\* stores tokens first, no failure between its steps leaves a session that claims
\* more, and no overlap carries a claim to another session.
ListedToolsWereGranted ==
  \A s \in Sessions : sessions[s].tools \subseteq granted \cup claimed[s]

\* The two status routes agree on a session whose login no client's body has
\* touched: a provider that the one calls authenticated is among the tools of the
\* other, which calls the session authenticated, and it is the only such provider,
\* the one of the last login.  (The other way round they need not: a session goes
\* on to list the tools of earlier logins, and that of a disconnect.)
StatusesAgree ==
  \A p \in Providers : ProviderStatus(p) /\ Untouched(cookie) =>
    /\ AuthStatus.authenticated /\ p \in AuthStatus.tools
    /\ \A q \in Providers \ {p} : ~ProviderStatus(q)

\* app/api/sessions/route.ts:169 says that PATCH updates "session
\* preferences/UI state": one whose body holds nothing else leaves the session's
\* user and its tools as they are.
PreferencesOnly == [userId |-> Kept, user |-> Kept, tools |-> Kept]
PatchKeepsTheLogin ==
  [][\A c \in Calls : BodyWrites(c, PreferencesOnly) /\ kind[c] = "patch" /\ Exists(sid[c]) =>
       sessions'[sid[c]] = sessions[sid[c]]]_vars
=============================================================================
