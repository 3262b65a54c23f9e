----------------------------- MODULE UnifiedOAuth -----------------------------
(***************************************************************************)
(* UnifiedOAuthService (lib/oauth/index.ts) for one user and browser, and  *)
(* beside it the configuration and the state cookies it consolidates       *)
(* (lib/oauth-config.ts, lib/oauth-state-cookies.ts), which the routes     *)
(* still call.                                                             *)
(*                                                                         *)
(* The token store is whatever was injected: its refreshTokens may answer  *)
(* tokens, null or throw; the default one always answers null.  A call     *)
(* that ends before its first await changes nothing and is left out.       *)
(***************************************************************************)
EXTENDS OAuthErrors

CONSTANTS
  Tools,     \* the registered tools: tool -> [oauth, enabled, relative]
  Environments, \* what the environment says of the tools: functions to
             \* [secrets : {"set", "placeholder", "missing"}, webUrl : BOOLEAN]
  Calls,
  StateAge,  \* 10 minutes
  Hour,      \* the life of tokens that say nothing of it
  Lives,     \* values of expires_in
  MaxStarts, \* bounds
  MaxTime

VARIABLES
  now,
  env,     \* tool -> [secrets, webUrl], one of Environments
  starts,  \* how many logins have been started
  cookie,  \* oauth_state: None or [provider, at]
  cookies, \* provider -> its _oauth_state_ cookie: None or [state, at]
  tokens,  \* tool -> None or the user's tokens in the store
  calls,   \* call -> Free or [at, tool, tokens]
  gone     \* history: tool -> None, or if it was revoked and its tokens have not come
           \* back, the calls that were refreshing them then

vars == <<now, env, starts, cookie, cookies, tokens, calls, gone>>

Names == DOMAIN Tools
Free == [at |-> "free"]

-----------------------------------------------------------------------------
(* Configuration: "none", "throws" or "found".                               *)

GetOAuthConfig(t, baseUrl) ==
  CASE ~Tools[t].oauth \/ env[t].secrets = "missing" -> "none"
    [] Tools[t].oauth /\ env[t].secrets # "missing" /\ Tools[t].relative
       /\ ~(baseUrl \/ env[t].webUrl) -> "throws"
    [] OTHER -> "found"

\* getConfiguredProviders stops at the first tool whose configuration throws.
ConfiguredProviders ==
  LET listed == {t \in Names : Tools[t].enabled /\ Tools[t].oauth} IN
  IF \E t \in listed : GetOAuthConfig(t, FALSE) = "throws" THEN {None}
  ELSE {t \in listed : GetOAuthConfig(t, FALSE) = "found"}

\* The old one also takes a placeholder for a missing secret.
OldGetOAuthConfig(t, baseUrl) ==
  CASE ~Tools[t].oauth \/ env[t].secrets \in {"missing", "placeholder"} -> "none"
    [] Tools[t].oauth /\ env[t].secrets = "set" /\ Tools[t].relative
       /\ ~(baseUrl \/ env[t].webUrl) -> "throws"
    [] OTHER -> "found"

OldConfiguredProviders ==
  LET listed == {t \in Names : Tools[t].enabled /\ Tools[t].oauth} IN
  IF \E t \in listed : OldGetOAuthConfig(t, FALSE) = "throws" THEN {None}
  ELSE {t \in listed : OldGetOAuthConfig(t, FALSE) = "found"}

\* GET /api/auth/config: which tools can log in, or None for its error answer.
ConfigAnswer ==
  IF \E t \in Names : OldGetOAuthConfig(t, FALSE) = "throws" THEN {None}
  ELSE {t \in Names : OldGetOAuthConfig(t, FALSE) = "found"}

-----------------------------------------------------------------------------
(* The state of a login.                                                     *)

\* Mutant: the provider of the cookie is not compared.
ValidAnyProvider(t) == cookie # None /\ cookie.at > now - StateAge

\* The state parameter of the callback is not looked at.
ValidateState(t) == cookie # None /\ cookie.provider = t /\ cookie.at > now - StateAge

ValidateOAuthState(t, state) ==
  cookies[t] # None /\ now - cookies[t].at <= StateAge /\ cookies[t].state = state

\* createStateCookie and createOAuthStateCookie, for the same login.
Start(t) ==
  /\ starts < MaxStarts
  /\ starts' = starts + 1
  /\ cookie' = [provider |-> t, at |-> now]
  /\ cookies' = [cookies EXCEPT ![t] = [state |-> starts + 1, at |-> now]]
  /\ UNCHANGED <<now, env, tokens, calls, gone>>

\* clearStateCookie and getOAuthStateClearCookieOptions.
ClearState(t) ==
  /\ cookies[t] # None
  /\ cookie' = None
  /\ cookies' = [cookies EXCEPT ![t] = None]
  /\ UNCHANGED <<now, env, starts, tokens, calls, gone>>

-----------------------------------------------------------------------------
(* Tokens.                                                                   *)

\* ConvertTokenResponse: an expires_in of 0 counts as none.
Converted(life, refresh) ==
  [expires |-> now + (IF life = 0 THEN Hour ELSE life), refresh |-> refresh]

IsTokenExpired(held) == now >= held.expires

\* handleOAuthCallback up to the request to the provider.
Callback(c, t) ==
  /\ calls[c] = Free
  /\ ValidateState(t) /\ GetOAuthConfig(t, FALSE) = "found"
  /\ calls' = [calls EXCEPT ![c] = [at |-> "exchanging", tool |-> t]]
  /\ UNCHANGED <<now, env, starts, cookie, cookies, tokens, gone>>

\* exchangeCodeForTokens: tokens, which the caller will store, or an error status,
\* an error in the answer or none at all: TOKEN_EXCHANGE_FAILED.
ExchangeCodeForTokens(c) ==
  /\ calls[c].at = "exchanging"
  /\ \/ calls' = [calls EXCEPT ![c] = Free]
     \/ \E life \in Lives, refresh \in BOOLEAN :
          calls' = [calls EXCEPT ![c] =
            [at |-> "login", tool |-> @.tool, tokens |-> Converted(life, refresh)]]
  /\ UNCHANGED <<now, env, starts, cookie, cookies, tokens, gone>>

\* ensureValidTokens, when it does not answer at once.
EnsureValidTokens(c, t) ==
  /\ calls[c] = Free
  /\ tokens[t] # None /\ IsTokenExpired(tokens[t]) /\ tokens[t].refresh
  /\ calls' = [calls EXCEPT ![c] = [at |-> "refreshing", tool |-> t]]
  /\ UNCHANGED <<now, env, starts, cookie, cookies, tokens, gone>>

\* The answer is null (the expired tokens are returned), an exception, or tokens
\* that are stored.
Refreshed(c) ==
  /\ calls[c].at = "refreshing"
  /\ \/ calls' = [calls EXCEPT ![c] = Free]
     \/ \E life \in Lives :
          calls' = [calls EXCEPT ![c] =
            [at |-> "refreshed", tool |-> @.tool, tokens |-> Converted(life, TRUE)]]
  /\ UNCHANGED <<now, env, starts, cookie, cookies, tokens, gone>>

StoreTokens(c) ==
  /\ calls[c].at \in {"login", "refreshed"}
  /\ tokens' = [tokens EXCEPT ![calls[c].tool] = calls[c].tokens]
  /\ calls' = [calls EXCEPT ![c] = Free]
  /\ LET t == calls[c].tool IN
     gone' = IF calls[c].at = "login" \/ (gone[t] # None /\ c \in gone[t])
             THEN [gone EXCEPT ![t] = None] ELSE gone
  /\ UNCHANGED <<now, env, starts, cookie, cookies>>

Renewing(t) == {c \in Calls : calls[c].at \in {"refreshing", "refreshed"} /\ calls[c].tool = t}

RevokeTokens(t) ==
  /\ tokens[t] # None
  /\ tokens' = [tokens EXCEPT ![t] = None]
  /\ gone' = [gone EXCEPT ![t] = Renewing(t)]
  /\ UNCHANGED <<now, env, starts, cookie, cookies, calls>>

Tick ==
  /\ now < MaxTime
  /\ now' = now + 1
  /\ UNCHANGED <<env, starts, cookie, cookies, tokens, calls, gone>>

-----------------------------------------------------------------------------
Init ==
  /\ now = 0 /\ starts = 0 /\ cookie = None
  /\ gone = [t \in Names |-> None]
  /\ env \in Environments
  /\ cookies = [t \in Names |-> None]
  /\ tokens = [t \in Names |-> None]
  /\ calls = [c \in Calls |-> Free]

Next ==
  \/ \E t \in Names : Start(t) \/ ClearState(t) \/ RevokeTokens(t)
  \/ \E c \in Calls :
       \/ \E t \in Names : Callback(c, t) \/ EnsureValidTokens(c, t)
       \/ ExchangeCodeForTokens(c) \/ Refreshed(c) \/ StoreTokens(c)
  \/ Tick

Spec == Init /\ [][Next]_vars

-----------------------------------------------------------------------------
TypeOK ==
  /\ \A t \in Names : tokens[t] # None =>
       \E life \in Lives \cup {Hour} : tokens[t].expires \in 1..(MaxTime + life)
  /\ cookie # None => cookie.provider \in Names /\ cookie.at \in 0..now
  /\ \A c \in Calls : calls[c].at \in {"free", "exchanging", "login", "refreshing", "refreshed"}
  /\ gone \in [Names -> {None} \cup SUBSET Calls]

\* A callback is let on to the exchange for the provider of the newest login alone,
\* less than ten minutes after it began, and for that login it is.  This is the half
\* of validateOAuthState that concerns the cookie.  The other half, that the state
\* the callback brings is the cookie's, the service leaves out: the property says
\* nothing of it.
NewestLoginIsAnswered ==
  \A t \in Names :
    /\ ValidateState(t) => ValidateOAuthState(t, starts) /\ now < cookies[t].at + StateAge
    /\ ValidateOAuthState(t, starts) /\ now < cookies[t].at + StateAge /\ cookie # None =>
         ValidateState(t)

\* It finds the configurations that the old one finds, and more only where a
\* secret is a placeholder; a tool whose web address is missing leaves the route
\* without an answer for any.
ConfigurationsAgree ==
  /\ \A t \in Names, baseUrl \in BOOLEAN :
       GetOAuthConfig(t, baseUrl) # OldGetOAuthConfig(t, baseUrl) =>
         env[t].secrets = "placeholder" /\ OldGetOAuthConfig(t, baseUrl) = "none"
  /\ None \notin ConfiguredProviders =>
       OldConfiguredProviders \subseteq ConfiguredProviders
  /\ None \notin ConfigAnswer => OldConfiguredProviders \subseteq ConfigAnswer

\* Revoked tokens come back by a new login, or by a refresh that was already running
\* when they were revoked: that one stores what it gets whatever happened meanwhile
\* (index.ts:813-819).  Nothing else brings them back, in any order of calls.
OnlyRunningRefreshesRevive == \A t \in Names : gone[t] # None => tokens[t] = None
=============================================================================
