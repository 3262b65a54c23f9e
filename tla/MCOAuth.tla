------------------------------- MODULE MCOAuth -------------------------------
(* The token rows of one user and provider, and, apart from them, the session *)
(* store with its requests: two components that share no variable.  "part"    *)
(* says which of them moves, so that the run explores the sum of their states *)
(* and not the product.                                                       *)
EXTENDS OAuthTokens, TLC

CONSTANTS c1, c2, c3, Providers, SessionIds, NoUser, NoSession, NoCookie, Kept, Bodies

VARIABLES part, sessions, claimed, tokens, granted, state, cookie, step, kind, prov, sid, snap,
          merge, faults

L == INSTANCE OAuthLogin
loginVars == <<sessions, claimed, tokens, granted, state, cookie, step, kind, prov, sid, snap,
               merge, faults>>

\* Clients send bodies, and what stands for nobody is no provider.
ASSUME BodiesAssumption == Bodies \subseteq L!Body /\ NoUser \notin Providers

MCCalls == {c1, c2, c3}

\* Clients that send preferences, name another account, list a tool, or drop the login.
MCBodies ==
  {[userId |-> Kept, user |-> Kept, tools |-> Kept],
   [userId |-> NoUser, user |-> NoUser, tools |-> {}]}
  \cup {[userId |-> p, user |-> Kept, tools |-> Kept] : p \in Providers}
  \cup {[userId |-> Kept, user |-> Kept, tools |-> {p}] : p \in Providers}

Symmetric == Permutations(MCCalls) \cup Permutations(Providers) \cup Permutations(SessionIds)

MCInit == part \in {"tokens", "sessions"} /\ Init /\ L!Init

MCNext ==
  \/ part = "tokens" /\ Next /\ UNCHANGED <<part, loginVars>>
  \/ part = "sessions" /\ L!Next /\ UNCHANGED <<part, vars>>

MCSpec == MCInit /\ [][MCNext]_<<part, vars, loginVars>>

\* The session store's properties.
LoginTypeOK == L!LoginTypeOK

\* A session lists no tool whose tokens were never stored and that no client's body
\* put there (app/api/auth/oauth/[provider]/route.ts); where no body has touched the
\* login, the account it names is among its tools, and the status routes agree
\* (app/api/auth/status).
ListedToolsWereGranted ==
  L!UserIsListed /\ L!ListedToolsWereGranted /\ L!StatusesAgree

\* An update of preferences keeps the login (session-manager.ts:223).
PatchKeepsTheLogin == L!PatchKeepsTheLogin
=============================================================================
