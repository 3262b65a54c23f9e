----------------------------- MODULE OAuthTokens -----------------------------
(***************************************************************************)
(* The oauth_tokens rows of one user and one provider, and the calls that  *)
(* read and write them: the login callback's storeTokens, ensureValidTokens*)
(* with its refresh, the removal of a disconnect, and cleanupExpiredTokens *)
(* (lib/oauth-token-store.ts, lib/oauth-token-refresh.ts and               *)
(* lib/database/oauth-token-repository.ts).                                *)
(*                                                                         *)
(* Every await is a place where another call, of this pod or of another,   *)
(* may run: a store is a SELECT and then an UPDATE or an INSERT, a refresh *)
(* is a request to the provider between the reading of the row and the     *)
(* store of the answer.  The table has no unique index on (userId,         *)
(* provider) (lib/database/pg-schema.ts), so several rows may exist.  They *)
(* are kept as a set of values: every statement but the cleanup addresses  *)
(* all of the pair's rows, and the cleanup treats equal rows alike.        *)
(*                                                                         *)
(* A token is the number of the grant that issued it.  The provider is     *)
(* external: it honours the refresh tokens in "live", and may answer a     *)
(* refresh with a new refresh token, which ends the old one.  What the     *)
(* answer says of an expiry is a duration (expires_in); the code turns it  *)
(* into a time when it next looks at its clock: after the profile fetch    *)
(* and the upsert of a login, after the body of a refresh has been read.   *)
(***************************************************************************)
EXTENDS Naturals, FiniteSets

CONSTANTS
  Calls,             \* the asynchronous calls, each run at most once
  AccessLife,        \* expires_in, and the code's default of one hour
  RefreshLife,       \* the default life of a refresh token, 30 days
  Margin,            \* shouldRefresh's threshold, 5 minutes
  LoginRefreshLives, \* lives of the refreshExpiresAt a caller of storeTokens
                     \* passes; NoTime when it passes none
  Rotations,         \* whether the provider ends a refresh token when used
  MaxTime,           \* bound: the clock
  MaxGrants,         \* bound: grants the provider issues
  MaxLogins,         \* bound: logins
  MaxFaults,         \* bound: calls hit by a failed request or statement
  NoTime,            \* an absent expiry
  NoToken,           \* an absent refresh token
  NoRow              \* an empty result of a SELECT

ASSUME OAuthAssumption ==
  /\ AccessLife \in Nat /\ RefreshLife \in Nat /\ Margin \in Nat
  /\ MaxTime \in Nat /\ MaxGrants \in Nat /\ MaxLogins \in Nat /\ MaxFaults \in Nat
  /\ LoginRefreshLives \subseteq Nat \cup {NoTime}
  /\ Rotations \subseteq BOOLEAN
  /\ NoTime \notin Nat /\ NoToken \notin Nat
  /\ NoRow \notin [refresh : Nat \cup {NoToken}, exp : Nat \cup {NoTime},
                   rexp : Nat \cup {NoTime}]

VARIABLES
  now,     \* the clock
  rotates, \* external: the provider ends a refresh token when it is used
  issued,  \* external: how many grants the provider has issued
  live,    \* external: refresh tokens the provider honours
  rows,    \* the table's rows of this user and provider
  pc,      \* where each call waits
  mode,    \* what each call is: a login, or a refresh of one of two kinds
  held,    \* the row a call of ensureValidTokens read
  fresh,   \* the tokens a call was issued, and is about to store
  seen,    \* the row its store's SELECT found, or NoRow
  spent,   \* the refresh token a call exchanged at the provider
  stored,  \* the call's UPDATE or INSERT has run
  faulted  \* a request or a statement of the call has failed

external == <<rotates, issued, live>>
callVars == <<pc, mode, held, fresh, seen, spent, stored, faulted>>
vars == <<now, external, rows, callVars>>

Row == [refresh : Nat \cup {NoToken}, exp : Nat \cup {NoTime}, rexp : Nat \cup {NoTime}]
Steps == {"idle", "profile", "fetch", "answer", "storeSelect", "storeWrite", "expiry", "remove", "done"}

Init ==
  /\ now = 0 /\ rotates \in Rotations /\ issued = 0 /\ live = {} /\ rows = {}
  /\ pc = [c \in Calls |-> "idle"]
  /\ mode = [c \in Calls |-> "none"]
  /\ held = [c \in Calls |-> NoRow]
  /\ fresh = [c \in Calls |-> NoRow]
  /\ seen = [c \in Calls |-> NoRow]
  /\ spent = [c \in Calls |-> NoToken]
  /\ stored = [c \in Calls |-> FALSE]
  /\ faulted = [c \in Calls |-> FALSE]

-----------------------------------------------------------------------------
(* The facade's judgements on a row, which read nothing but the clock.       *)

AreExpired(r) == r.exp # NoTime /\ r.exp <= now
ShouldRefresh(r) == r.exp # NoTime /\ r.exp < now + Margin
IsRefreshExpired(r) == r.rexp = NoTime \/ r.rexp <= now

\* Mutant of CanRefresh: the token's presence is not checked.
CanRefreshAnything(r) == ~IsRefreshExpired(r)

CanRefresh(r) == r.refresh # NoToken /\ ~IsRefreshExpired(r)

\* What GET /api/auth/status/{provider} calls authenticated.
IsAuthenticated(r) == ~AreExpired(r) \/ CanRefresh(r)

Go(c, step) == pc' = [pc EXCEPT ![c] = step]

\* refreshTokens returns null: ensureValidTokens removes an expired pair's rows
\* and keeps the tokens it meant to refresh early.
GivesUp(c) == Go(c, IF mode[c] = "expired" THEN "remove" ELSE "done")

\* One more call is hit by a failure.
Fault(c) ==
  /\ Cardinality({d \in Calls \ {c} : faulted[d]}) < MaxFaults
  /\ faulted' = [faulted EXCEPT ![c] = TRUE]

\* The provider issues one more grant.
Issues == issued < MaxGrants /\ issued' = issued + 1

\* When a token given out now for AccessLife ends, on the clock of the reader.
Expiry == now + AccessLife

-----------------------------------------------------------------------------
(* The login callback.  A provider need not issue refresh tokens nor let     *)
(* tokens expire.                                                            *)

Logins == {c \in Calls : mode[c] = "login"}

\* The code is exchanged.
LoginIsGranted(c) ==
  /\ pc[c] = "idle"
  /\ Cardinality(Logins) < MaxLogins
  /\ Issues
  /\ \E expiry \in {NoTime, Expiry}, refresh \in {NoToken, issued + 1} :
       /\ live' = live \cup ({refresh} \ {NoToken})
       /\ fresh' = [fresh EXCEPT ![c] = [refresh |-> refresh, exp |-> expiry, rexp |-> NoTime]]
  /\ mode' = [mode EXCEPT ![c] = "login"]
  /\ Go(c, "profile")
  /\ UNCHANGED <<now, rotates, rows, held, seen, spent, stored, faulted>>

\* The profile has been fetched and the user upserted: the callback reads the
\* clock, and stores the tokens.
LoginStores(c) ==
  /\ pc[c] = "profile"
  /\ \E life \in LoginRefreshLives :
       fresh' = [fresh EXCEPT ![c] =
         [refresh |-> fresh[c].refresh,
          exp |-> IF fresh[c].exp = NoTime THEN NoTime ELSE Expiry,
          rexp |-> IF life = NoTime THEN NoTime ELSE now + life]]
  /\ Go(c, "storeSelect")
  /\ UNCHANGED <<now, external, rows, mode, held, seen, spent, stored, faulted>>

\* The profile cannot be had, or the user not be saved.
LoginFails(c) ==
  /\ pc[c] = "profile"
  /\ Fault(c) /\ Go(c, "done")
  /\ UNCHANGED <<now, external, rows, mode, held, fresh, seen, spent, stored>>

(* ensureValidTokens, from its SELECT to its first await after it.           *)

\* The tokens are good, or there are none: the call answers at once.  (A SELECT
\* that fails answers like an absent row and changes nothing; it is left out.)
EnsureAnswers(c) ==
  /\ pc[c] = "idle"
  /\ \/ rows = {}
     \/ \E r \in rows : ~AreExpired(r) /\ ~ShouldRefresh(r)
  /\ Go(c, "done")
  /\ UNCHANGED <<now, external, rows, mode, held, fresh, seen, spent, stored, faulted>>

\* Mutant: tokens that cannot be refreshed are removed before they expire.
DecidesEarly(r) == IF CanRefresh(r) THEN "fetch" ELSE "remove"

Decides(r) ==
  CASE CanRefresh(r) -> "fetch"
    [] ~CanRefresh(r) /\ AreExpired(r) -> "remove"
    [] OTHER -> "done"

\* The row read has expired or is about to: ask the provider, or give up when
\* the row has no refresh token or the token's recorded deadline has passed.
EnsureRefreshes(c) ==
  /\ pc[c] = "idle"
  /\ \E r \in rows :
       /\ AreExpired(r) \/ ShouldRefresh(r)
       /\ mode' = [mode EXCEPT ![c] = IF AreExpired(r) THEN "expired" ELSE "preemptive"]
       /\ held' = [held EXCEPT ![c] = r]
       /\ Go(c, Decides(r))
  /\ UNCHANGED <<now, external, rows, fresh, seen, spent, stored, faulted>>

-----------------------------------------------------------------------------
(* performTokenRefresh: the request to the provider.                         *)

\* The refresh token that is honoured from now on.
Successor(c) == IF rotates THEN issued + 1 ELSE held[c].refresh

\* The provider takes the refresh token of the row that was read: under
\* rotation it ends it and issues another.
Takes(c) ==
  /\ pc[c] = "fetch" /\ held[c].refresh \in live
  /\ Issues
  /\ live' = (live \ {held[c].refresh}) \cup {Successor(c)}
  /\ spent' = [spent EXCEPT ![c] = held[c].refresh]
  /\ Go(c, "answer")
  /\ UNCHANGED <<now, rotates, rows, mode, held, seen, stored, faulted>>

\* Mutant: the answer's refresh_token is not taken over.
GrantsTheOldToken(c) ==
  /\ Takes(c)
  /\ fresh' = [fresh EXCEPT ![c] = [refresh |-> held[c].refresh, exp |-> Expiry, rexp |-> NoTime]]

ProviderGrants(c) ==
  /\ Takes(c)
  /\ fresh' = [fresh EXCEPT ![c] = [refresh |-> Successor(c), exp |-> Expiry, rexp |-> NoTime]]

\* The answer has been read: the clock is, and the tokens go to the table.  The
\* row's refresh deadline stays if it has not passed meanwhile.
AnswerArrives(c) ==
  /\ pc[c] = "answer"
  /\ fresh' = [fresh EXCEPT ![c] =
       [refresh |-> fresh[c].refresh, exp |-> Expiry,
        rexp |-> IF held[c].rexp > now THEN held[c].rexp ELSE now + RefreshLife]]
  /\ Go(c, "storeSelect")
  /\ UNCHANGED <<now, external, rows, mode, held, seen, spent, stored, faulted>>

\* The answer is lost on its way, or cannot be read.
AnswerIsLost(c) ==
  /\ pc[c] = "answer"
  /\ Fault(c) /\ GivesUp(c)
  /\ UNCHANGED <<now, external, rows, mode, held, fresh, seen, spent, stored>>

\* The token is no longer honoured.
ProviderRefuses(c) ==
  /\ pc[c] = "fetch"
  /\ held[c].refresh \notin live
  /\ GivesUp(c)
  /\ UNCHANGED <<now, external, rows, mode, held, fresh, seen, spent, stored, faulted>>

\* The provider cannot be reached, or answers with an error.
ProviderFails(c) ==
  /\ pc[c] = "fetch"
  /\ Fault(c) /\ GivesUp(c)
  /\ UNCHANGED <<now, external, rows, mode, held, fresh, seen, spent, stored>>

-----------------------------------------------------------------------------
(* storeTokens and, after a refresh, updateTokenExpiry.                      *)

StoreSelects(c) ==
  /\ pc[c] = "storeSelect"
  /\ \E r \in IF rows = {} THEN {NoRow} ELSE rows : seen' = [seen EXCEPT ![c] = r]
  /\ Go(c, "storeWrite")
  /\ UNCHANGED <<now, external, rows, mode, held, fresh, spent, stored, faulted>>

StoreEnds(c) ==
  /\ stored' = [stored EXCEPT ![c] = TRUE]
  /\ Go(c, IF mode[c] = "login" THEN "done" ELSE "expiry")
  /\ UNCHANGED <<now, external, mode, held, fresh, seen, spent, faulted>>

\* The payload starts from the row the SELECT returned: its refresh deadline
\* stays when the caller passes none.  The UPDATE writes every row there is.
StoreUpdates(c) ==
  /\ pc[c] = "storeWrite" /\ seen[c] # NoRow
  /\ rows' = {[refresh |-> fresh[c].refresh, exp |-> fresh[c].exp,
                rexp |-> IF fresh[c].rexp = NoTime THEN seen[c].rexp ELSE fresh[c].rexp] :
                 r \in rows}
  /\ StoreEnds(c)

StoreInserts(c) ==
  /\ pc[c] = "storeWrite" /\ seen[c] = NoRow
  /\ rows' = rows \cup {fresh[c]}
  /\ StoreEnds(c)

\* Mutant: the expiry is counted from the time of the write.
ExpiryWritesFromNow(c) ==
  /\ pc[c] = "expiry"
  /\ rows' = {[r EXCEPT !.exp = Expiry, !.rexp = fresh[c].rexp] : r \in rows}
  /\ Go(c, "done")
  /\ UNCHANGED <<now, external, mode, held, fresh, seen, spent, stored, faulted>>

ExpiryWrites(c) ==
  /\ pc[c] = "expiry"
  /\ rows' = {[refresh |-> r.refresh, exp |-> fresh[c].exp, rexp |-> fresh[c].rexp] : r \in rows}
  /\ Go(c, "done")
  /\ UNCHANGED <<now, external, mode, held, fresh, seen, spent, stored, faulted>>

\* A statement of the store fails: the login answers with an error, a refresh
\* returns null.
StoreFails(c) ==
  /\ pc[c] \in {"storeSelect", "storeWrite", "expiry"}
  /\ Fault(c) /\ GivesUp(c)
  /\ UNCHANGED <<now, external, rows, mode, held, fresh, seen, spent, stored>>

-----------------------------------------------------------------------------
(* Removals.                                                                 *)

RemoveTokens(c) ==
  /\ pc[c] = "remove"
  /\ rows' = {}
  /\ Go(c, "done")
  /\ UNCHANGED <<now, external, mode, held, fresh, seen, spent, stored, faulted>>

RemoveFails(c) ==
  /\ pc[c] = "remove"
  /\ Fault(c) /\ Go(c, "done")
  /\ UNCHANGED <<now, external, rows, mode, held, fresh, seen, spent, stored>>

\* The disconnect route.
Disconnect ==
  /\ rows # {} /\ rows' = {}
  /\ UNCHANGED <<now, external, callVars>>

\* One DELETE: both expiries lie in the past; an absent one compares to NULL.
CleanupExpiredTokens ==
  /\ rows' = {r \in rows : r.exp = NoTime \/ r.exp >= now \/ r.rexp = NoTime \/ r.rexp >= now}
  /\ rows' # rows
  /\ UNCHANGED <<now, external, callVars>>

Tick ==
  /\ now < MaxTime /\ now' = now + 1
  /\ UNCHANGED <<external, rows, callVars>>

Login(c) == LoginIsGranted(c) \/ LoginStores(c) \/ LoginFails(c)
Refresh(c) ==
  \/ ProviderGrants(c) \/ ProviderRefuses(c) \/ ProviderFails(c)
  \/ AnswerArrives(c) \/ AnswerIsLost(c)
Store(c) == StoreSelects(c) \/ StoreUpdates(c) \/ StoreInserts(c) \/ ExpiryWrites(c) \/ StoreFails(c)

Next ==
  \/ \E c \in Calls :
       \/ Login(c) \/ EnsureAnswers(c) \/ EnsureRefreshes(c)
       \/ Refresh(c) \/ Store(c) \/ RemoveTokens(c) \/ RemoveFails(c)
  \/ Disconnect \/ CleanupExpiredTokens \/ Tick

Spec == Init /\ [][Next]_vars

-----------------------------------------------------------------------------
(* Properties.                                                               *)

\* Type invariant: every variable keeps its kind, a call that waits for the
\* provider or removes rows has read one, and one that stores has something
\* to store.
TypeOK ==
  /\ now \in Nat /\ rotates \in BOOLEAN
  /\ issued \in Nat /\ live \subseteq 1..issued
  /\ rows \subseteq Row
  /\ pc \in [Calls -> Steps]
  /\ mode \in [Calls -> {"none", "login", "expired", "preemptive"}]
  /\ held \in [Calls -> Row \cup {NoRow}]
  /\ fresh \in [Calls -> Row \cup {NoRow}]
  /\ seen \in [Calls -> Row \cup {NoRow}]
  /\ spent \in [Calls -> Nat \cup {NoToken}]
  /\ stored \in [Calls -> BOOLEAN] /\ faulted \in [Calls -> BOOLEAN]
  /\ \A c \in Calls :
       /\ mode[c] \in {"expired", "preemptive"} => held[c] \in Row
       /\ pc[c] \in {"fetch", "answer", "remove"} => held[c] \in Row
       /\ pc[c] \in {"fetch", "answer"} => held[c].refresh \in Nat /\ held[c].rexp \in Nat
       /\ pc[c] \in {"profile", "answer", "storeSelect", "storeWrite", "expiry"} => fresh[c] \in Row

\* A refresh token that was exchanged for another never comes back: each one in
\* the table is honoured by the provider, or belongs to a refresh that has
\* spent it and not yet stored what it got for it.  About the order of
\* performTokenRefresh and storeTokens, and about the UPDATE that addresses
\* every row of the pair.
SpentTokensLeaveTheTable ==
  \A r \in rows :
    \/ r.refresh = NoToken
    \/ r.refresh \in live
    \/ \E c \in Calls : spent[c] = r.refresh /\ ~stored[c]

\* When a call of ensureValidTokens removes the rows, none of them is one that
\* this very call had read and that the status route would still call
\* authenticated: it has expired, and its refresh token is absent, no longer
\* honoured or past its recorded deadline, unless the call met a failure.  (It may
\* remove the newer tokens of another call.)
RemovesRightly ==
  \A c \in Calls : RemoveTokens(c) =>
    \/ faulted[c]
    \/ ~IsAuthenticated(held[c])
    \/ \A r \in rows : r.refresh = held[c].refresh => r.refresh \notin live
RemovesOnlyWhatItCouldNotRefresh == [][RemovesRightly]_vars

\* What a row says of its access token's end was reckoned by a call that had
\* stored its tokens before: no statement lets a token live longer by writing an
\* expiry of its own.  updateTokenExpiry runs apart from storeTokens, and may write
\* its call's reckoning on what another call has stored meanwhile.  With a provider
\* that rotates, and no second login, that only shortens: refreshes follow one
\* another, and no row promises more than the call that got its tokens reckoned.
\* (The reckoning itself is late by the time from the provider's answer to the
\* reading of the clock, and a row outlives its grant by as much.)
ExpiriesAreReckoned ==
  /\ \A r \in rows : \E c \in Calls : stored[c] /\ r.exp = fresh[c].exp
  /\ rotates /\ Cardinality(Logins) <= 1 =>
       \A r \in rows : r.refresh # NoToken =>
         \E c \in Calls :
           /\ stored[c] /\ fresh[c].refresh = r.refresh
           /\ fresh[c].exp # NoTime => r.exp # NoTime /\ r.exp <= fresh[c].exp

\* lib/oauth-token-refresh.ts:51 says that the tokens removed are those "that
\* couldn't be refreshed": a call removes no row that the provider would still
\* refresh, unless one of its requests failed.
RemovesOnlyAfterARefusal ==
  [][\A c \in Calls : RemoveTokens(c) =>
       \/ faulted[c]
       \/ \A r \in rows : r.refresh = held[c].refresh => r.refresh \notin live]_vars
=============================================================================
