---------------------------- MODULE OAuth_proofs ----------------------------
(* The table of tokens, for any number of calls, grants, lives and failures:  *)
(* a refresh token that was exchanged never comes back to it, what could      *)
(* still be refreshed is not removed, and each expiry is one that was reckoned. *)
(*                                                                             *)
(* Then the session store, for any providers, sessions and requests: what it   *)
(* promises however its requests overlap.  It is MCOAuth's instance L of       *)
(* OAuthLogin, with the constants left open: a theorem about L!Spec is one     *)
(* about OAuthLogin, and the last two carry it to MCOAuth's composition.       *)
EXTENDS MCOAuth, FiniteSetTheorems, TLAPS

-----------------------------------------------------------------------------
(* The table of tokens (lib/oauth-token-store.ts and the refresh).            *)

\* What the provider has issued bounds every refresh token that is about.
Known(t) == t \in 1..issued \cup {NoToken}

AllKnown ==
  /\ \A r \in rows : Known(r.refresh)
  /\ \A c \in Calls :
       /\ held[c] \in Row => Known(held[c].refresh)
       /\ fresh[c] \in Row => Known(fresh[c].refresh)
       /\ Known(spent[c])

\* A call whose new tokens are not yet in the table.
Pending(c) == pc[c] \in {"profile", "answer", "storeSelect", "storeWrite"}

\* A pending refresh token is honoured and, under rotation, nobody else's: no
\* row has it, no call is about to exchange it, no other call will store it.
PendingIsFresh ==
  \A c \in Calls : Pending(c) /\ fresh[c].refresh # NoToken =>
    /\ fresh[c].refresh \in live
    /\ rotates =>
         /\ \A r \in rows : r.refresh # fresh[c].refresh
         /\ \A d \in Calls : pc[d] = "fetch" => held[d].refresh # fresh[c].refresh
         /\ \A d \in Calls \ {c} : Pending(d) => fresh[d].refresh # fresh[c].refresh

\* A refresh token that was exchanged is dead under rotation, and a call that
\* found no row to update will not insert beside a row it has spent.
SpentIsDead ==
  \A c \in Calls :
    /\ pc[c] \in {"idle", "fetch"} => spent[c] = NoToken
    /\ Pending(c) \/ pc[c] \in {"idle", "fetch"} => ~stored[c]
    /\ rotates /\ spent[c] # NoToken =>
         /\ spent[c] \notin live
         /\ pc[c] = "storeWrite" /\ seen[c] = NoRow => \A r \in rows : r.refresh # spent[c]

\* Without rotation nothing dies.
NothingDies == ~rotates => \A r \in rows : r.refresh # NoToken => r.refresh \in live

TokenInv ==
  TypeOK /\ AllKnown /\ PendingIsFresh /\ SpentIsDead /\ NothingDies /\ SpentTokensLeaveTheTable

\* The first state has no rows and no calls under way.
LEMMA TokenInit == Init => TokenInv
  BY OAuthAssumption
  DEF Init, TokenInv, TypeOK, AllKnown, Known, PendingIsFresh, Pending, SpentIsDead,
  NothingDies,
      SpentTokensLeaveTheTable, Row, Steps

\* What the provider does when it takes a refresh token.
LEMMA Taking ==
  ASSUME TypeOK, NEW c \in Calls, Takes(c)
  PROVE  /\ issued' \in Nat /\ Successor(c) \in 1..issued'
         /\ live' \subseteq 1..issued' /\ spent' \in [Calls -> Nat \cup {NoToken}]
<1>1. issued' = issued + 1 /\ issued \in Nat /\ held[c].refresh \in 1..issued
  BY DEF Takes, Issues, TypeOK
<1>2. Successor(c) \in 1..issued'
  BY <1>1 DEF Successor
<1>3. live' \subseteq live \cup {Successor(c)} /\ live \subseteq 1..issued'
  BY <1>1 DEF Takes, TypeOK
<1>4. spent' \in [Calls -> Nat \cup {NoToken}]
  BY <1>1 DEF Takes, TypeOK
<1> QED BY <1>1, <1>2, <1>3, <1>4

\* A call that has its tokens and turns their life into a time.
Reckons(c) ==
  \E exp \in Nat \cup {NoTime}, rexp \in Nat \cup {NoTime} :
    fresh' = [fresh EXCEPT ![c] = [refresh |-> fresh[c].refresh, exp |-> exp, rexp |-> rexp]]

\* Both kinds of call do it alike.
LEMMA Reckoning ==
  ASSUME TypeOK, NEW c \in Calls, LoginStores(c) \/ AnswerArrives(c)
  PROVE  Reckons(c) /\ fresh' \in [Calls -> Row \cup {NoRow}] /\ fresh'[c] \in Row
<1> USE OAuthAssumption DEF TypeOK, Row, Reckons, Expiry
<1>1. fresh[c] \in Row
  BY DEF LoginStores, AnswerArrives
<1>2. ASSUME LoginStores(c) PROVE Reckons(c)
  <2>1. PICK life \in LoginRefreshLives :
          fresh' = [fresh EXCEPT ![c] =
            [refresh |-> fresh[c].refresh,
             exp |-> IF fresh[c].exp = NoTime THEN NoTime ELSE now + AccessLife,
             rexp |-> IF life = NoTime THEN NoTime ELSE now + life]]
    BY <1>2 DEF LoginStores
  <2> DEFINE exp == IF fresh[c].exp = NoTime THEN NoTime ELSE now + AccessLife
             rexp == IF life = NoTime THEN NoTime ELSE now + life
  <2>2. exp \in Nat \cup {NoTime} /\ rexp \in Nat \cup {NoTime}
    OBVIOUS
  <2>3. fresh' = [fresh EXCEPT ![c] =
          [refresh |-> fresh[c].refresh, exp |-> exp, rexp |-> rexp]]
    BY <2>1
  <2> HIDE DEF exp, rexp
  <2> USE <2>2
  <2> WITNESS exp \in Nat \cup {NoTime}, rexp \in Nat \cup {NoTime}
  <2> QED BY <2>3
<1>3. ASSUME AnswerArrives(c) PROVE Reckons(c)
  <2> DEFINE exp == now + AccessLife
             rexp == IF held[c].rexp > now THEN held[c].rexp ELSE now + RefreshLife
  <2>1. held[c].rexp \in Nat
    BY <1>3 DEF AnswerArrives
  <2>2. exp \in Nat \cup {NoTime} /\ rexp \in Nat \cup {NoTime}
    BY <2>1
  <2>3. fresh' = [fresh EXCEPT ![c] =
          [refresh |-> fresh[c].refresh, exp |-> exp, rexp |-> rexp]]
    BY <1>3 DEF AnswerArrives
  <2> HIDE DEF exp, rexp
  <2> USE <2>2
  <2> WITNESS exp \in Nat \cup {NoTime}, rexp \in Nat \cup {NoTime}
  <2> QED BY <2>3
<1> QED BY <1>1, <1>2, <1>3

\* Every step keeps the invariant.
LEMMA TokenStep == TokenInv /\ [Next]_vars => TokenInv'
<1> SUFFICES ASSUME TokenInv, [Next]_vars PROVE TokenInv'
  OBVIOUS
<1> USE OAuthAssumption DEF TokenInv, external
<1>1. ASSUME NEW c \in Calls, Login(c) PROVE TokenInv'
  <2>1. ASSUME LoginIsGranted(c) PROVE TokenInv'
    <3>1. TypeOK'
      <4>1. issued' = issued + 1 /\ issued \in Nat
        BY <2>1 DEF LoginIsGranted, Issues, TypeOK
      <4>2. PICK expiry \in {NoTime, Expiry}, refresh \in {NoToken, issued + 1} :
              /\ live' = live \cup ({refresh} \ {NoToken})
              /\ fresh' = [fresh EXCEPT ![c] =
                   [refresh |-> refresh, exp |-> expiry, rexp |-> NoTime]]
        BY <2>1 DEF LoginIsGranted
      <4>3. expiry \in Nat \cup {NoTime} /\ refresh \in Nat \cup {NoToken}
        BY <4>1 DEF TypeOK, Expiry
      <4>4. live' \subseteq 1..issued'
        <5>1. live \subseteq 1..issued' /\ issued + 1 \in 1..issued'
          BY <4>1 DEF TypeOK
        <5>2. {refresh} \ {NoToken} \subseteq {issued + 1}
          OBVIOUS
        <5> QED BY <5>1, <5>2, <4>2
      <4>5. fresh' \in [Calls -> Row \cup {NoRow}] /\ fresh'[c] \in Row
        BY <4>2, <4>3 DEF TypeOK, Row
      <4> QED BY <2>1, <4>1, <4>4, <4>5 DEF LoginIsGranted, Go, TypeOK, Steps
    <3>2. AllKnown'
      BY <2>1 DEF LoginIsGranted, Issues, Go, AllKnown, Known, TypeOK, Row
    <3>3. PendingIsFresh'
      BY <2>1 DEF LoginIsGranted, Issues, Go, PendingIsFresh, Pending, AllKnown, Known,
         TypeOK, Row
    <3>4. SpentIsDead'
      BY <2>1 DEF LoginIsGranted, Issues, Go, SpentIsDead, PendingIsFresh, Pending,
         AllKnown, Known, TypeOK, Row
    <3>5. NothingDies'
      BY <2>1 DEF LoginIsGranted, Issues, Go, NothingDies, PendingIsFresh, Pending
    <3>6. SpentTokensLeaveTheTable'
      BY <2>1 DEF LoginIsGranted, Issues, Go, SpentTokensLeaveTheTable, SpentIsDead,
         PendingIsFresh, NothingDies, Pending, TypeOK
    <3> QED BY <3>1, <3>2, <3>3, <3>4, <3>5, <3>6
  <2>2. ASSUME LoginStores(c) PROVE TokenInv'
    <3>1. TypeOK'
      BY <2>2, Reckoning DEF LoginStores, Reckons, Go, TypeOK, Steps
    <3>2. AllKnown'
      BY <2>2 DEF LoginStores, Go, AllKnown, Known, TypeOK, Row
    <3>3. PendingIsFresh'
      BY <2>2 DEF LoginStores, Go, PendingIsFresh, Pending, AllKnown, Known,
         TypeOK, Row
    <3>4. SpentIsDead'
      BY <2>2 DEF LoginStores, Go, SpentIsDead, PendingIsFresh, Pending,
         AllKnown, Known, TypeOK, Row
    <3>5. NothingDies'
      BY <2>2 DEF LoginStores, Go, NothingDies, PendingIsFresh, Pending
    <3>6. SpentTokensLeaveTheTable'
      BY <2>2 DEF LoginStores, Go, SpentTokensLeaveTheTable, SpentIsDead,
         PendingIsFresh, NothingDies, Pending, TypeOK
    <3> QED BY <3>1, <3>2, <3>3, <3>4, <3>5, <3>6
  <2>3. ASSUME LoginFails(c) PROVE TokenInv'
    <3>1. TypeOK'
      BY <2>3 DEF LoginFails, Fault, Go, TypeOK, Steps
    <3>2. AllKnown'
      BY <2>3 DEF LoginFails, Fault, Go, AllKnown, Known, TypeOK, Row
    <3>3. PendingIsFresh'
      BY <2>3 DEF LoginFails, Fault, Go, PendingIsFresh, Pending, AllKnown, Known,
         TypeOK, Row
    <3>4. SpentIsDead'
      BY <2>3 DEF LoginFails, Fault, Go, SpentIsDead, PendingIsFresh, Pending,
         AllKnown, Known, TypeOK, Row
    <3>5. NothingDies'
      BY <2>3 DEF LoginFails, Fault, Go, NothingDies, PendingIsFresh, Pending
    <3>6. SpentTokensLeaveTheTable'
      BY <2>3 DEF LoginFails, Fault, Go, SpentTokensLeaveTheTable, SpentIsDead,
         PendingIsFresh, NothingDies, Pending, TypeOK
    <3> QED BY <3>1, <3>2, <3>3, <3>4, <3>5, <3>6
  <2> QED BY <1>1, <2>1, <2>2, <2>3 DEF Login
<1>2. ASSUME NEW c \in Calls, EnsureAnswers(c) PROVE TokenInv'
  <2>1. TypeOK'
    BY <1>2 DEF EnsureAnswers, Go, TypeOK, Row, Steps
  <2>2. AllKnown'
    BY <1>2 DEF EnsureAnswers, Go, AllKnown, Known, TypeOK, Row
  <2>3. PendingIsFresh'
    BY <1>2 DEF EnsureAnswers, Go, PendingIsFresh, Pending, AllKnown, Known, TypeOK, Row
  <2>4. SpentIsDead'
    BY <1>2 DEF EnsureAnswers, Go, SpentIsDead, PendingIsFresh, Pending, AllKnown, Known,
       TypeOK, Row
  <2>5. NothingDies'
    BY <1>2 DEF EnsureAnswers, Go, NothingDies, PendingIsFresh, Pending
  <2>6. SpentTokensLeaveTheTable'
    BY <1>2 DEF EnsureAnswers, Go, SpentTokensLeaveTheTable, SpentIsDead, PendingIsFresh,
       NothingDies, Pending, TypeOK
  <2> QED BY <2>1, <2>2, <2>3, <2>4, <2>5, <2>6
<1>3. ASSUME NEW c \in Calls, EnsureRefreshes(c) PROVE TokenInv'
  <2>1. TypeOK'
    BY <1>3, SMTT(30) DEF EnsureRefreshes, Decides, CanRefresh, IsRefreshExpired, Go, TypeOK, Row, Steps
  <2>2. AllKnown'
    BY <1>3 DEF EnsureRefreshes, Decides, CanRefresh, IsRefreshExpired, Go,
       AllKnown, Known, TypeOK, Row
  <2>3. PendingIsFresh'
    BY <1>3 DEF EnsureRefreshes, Decides, CanRefresh, IsRefreshExpired, Go, PendingIsFresh, Pending,
       AllKnown, Known, TypeOK, Row
  <2>4. SpentIsDead'
    BY <1>3 DEF EnsureRefreshes, Decides, CanRefresh, IsRefreshExpired, Go, SpentIsDead,
       PendingIsFresh, Pending, AllKnown, Known, TypeOK, Row
  <2>5. NothingDies'
    BY <1>3 DEF EnsureRefreshes, Decides, CanRefresh, IsRefreshExpired, Go, NothingDies,
       PendingIsFresh, Pending
  <2>6. SpentTokensLeaveTheTable'
    BY <1>3 DEF EnsureRefreshes, Decides, CanRefresh, IsRefreshExpired, Go,
       SpentTokensLeaveTheTable, SpentIsDead, PendingIsFresh, NothingDies, Pending, TypeOK
  <2> QED BY <2>1, <2>2, <2>3, <2>4, <2>5, <2>6
<1>4. ASSUME NEW c \in Calls, ProviderGrants(c) PROVE TokenInv'
  <2>1. TypeOK'
    <3>1. Takes(c)
      BY <1>4 DEF ProviderGrants
    <3>2. /\ issued' \in Nat /\ Successor(c) \in 1..issued'
          /\ live' \subseteq 1..issued' /\ spent' \in [Calls -> Nat \cup {NoToken}]
      BY <3>1, Taking
    <3>3. fresh' \in [Calls -> Row \cup {NoRow}] /\ fresh'[c] \in Row
      BY <1>4, <3>2 DEF ProviderGrants, Expiry, TypeOK, Row
    <3>4. held[c] \in Row /\ held[c].refresh \in Nat /\ held[c].rexp \in Nat
      BY <3>1 DEF Takes, TypeOK
    <3>5. /\ pc[c] = "fetch" /\ pc' = [pc EXCEPT ![c] = "answer"]
          /\ \A d \in Calls \ {c} : fresh'[d] = fresh[d]
          /\ UNCHANGED <<now, rotates, rows, mode, held, seen, stored, faulted>>
      BY <1>4, <3>1 DEF ProviderGrants, Takes, Go, TypeOK
    <3> QED BY <3>2, <3>3, <3>4, <3>5 DEF TypeOK, Steps
  <2>2. AllKnown'
    BY <1>4 DEF ProviderGrants, Takes, Successor, Issues, Go, AllKnown, Known, TypeOK, Row
  <2>3. PendingIsFresh'
    BY <1>4 DEF ProviderGrants, Takes, Successor, Issues, Go, PendingIsFresh, Pending, AllKnown, Known,
       TypeOK, Row
  <2>4. SpentIsDead'
    BY <1>4 DEF ProviderGrants, Takes, Successor, Issues, Go, SpentIsDead, PendingIsFresh,
       Pending, AllKnown, Known, TypeOK, Row
  <2>5. NothingDies'
    BY <1>4 DEF ProviderGrants, Takes, Successor, Issues, Go, NothingDies, PendingIsFresh, Pending
  <2>6. SpentTokensLeaveTheTable'
    BY <1>4 DEF ProviderGrants, Takes, Successor, Issues, Go, SpentTokensLeaveTheTable,
       SpentIsDead, PendingIsFresh, NothingDies, Pending, TypeOK
  <2> QED BY <2>1, <2>2, <2>3, <2>4, <2>5, <2>6
<1>5. ASSUME NEW c \in Calls, AnswerArrives(c) PROVE TokenInv'
  <2>1. TypeOK'
    BY <1>5, Reckoning DEF AnswerArrives, Reckons, Go, TypeOK, Steps
  <2>2. AllKnown'
    BY <1>5 DEF AnswerArrives, Go, AllKnown, Known, TypeOK, Row
  <2>3. PendingIsFresh'
    BY <1>5 DEF AnswerArrives, Go, PendingIsFresh, Pending, AllKnown, Known,
       TypeOK, Row
  <2>4. SpentIsDead'
    BY <1>5 DEF AnswerArrives, Go, SpentIsDead, PendingIsFresh,
       Pending, AllKnown, Known, TypeOK, Row
  <2>5. NothingDies'
    BY <1>5 DEF AnswerArrives, Go, NothingDies, PendingIsFresh, Pending
  <2>6. SpentTokensLeaveTheTable'
    BY <1>5 DEF AnswerArrives, Go, SpentTokensLeaveTheTable,
       SpentIsDead, PendingIsFresh, NothingDies, Pending, TypeOK
  <2> QED BY <2>1, <2>2, <2>3, <2>4, <2>5, <2>6
<1>19. ASSUME NEW c \in Calls, AnswerIsLost(c) PROVE TokenInv'
  <2>1. TypeOK'
    BY <1>19 DEF AnswerIsLost, Fault, GivesUp, Go, TypeOK, Row, Steps
  <2>2. AllKnown'
    BY <1>19 DEF AnswerIsLost, Fault, GivesUp, Go, AllKnown, Known, TypeOK, Row
  <2>3. PendingIsFresh'
    BY <1>19 DEF AnswerIsLost, Fault, GivesUp, Go, PendingIsFresh, Pending, AllKnown, Known,
       TypeOK, Row
  <2>4. SpentIsDead'
    BY <1>19 DEF AnswerIsLost, Fault, GivesUp, Go, SpentIsDead, PendingIsFresh,
       Pending, AllKnown, Known, TypeOK, Row
  <2>5. NothingDies'
    BY <1>19 DEF AnswerIsLost, Fault, GivesUp, Go, NothingDies, PendingIsFresh, Pending
  <2>6. SpentTokensLeaveTheTable'
    BY <1>19 DEF AnswerIsLost, Fault, GivesUp, Go, SpentTokensLeaveTheTable,
       SpentIsDead, PendingIsFresh, NothingDies, Pending, TypeOK
  <2> QED BY <2>1, <2>2, <2>3, <2>4, <2>5, <2>6
<1>6. ASSUME NEW c \in Calls, ProviderRefuses(c) PROVE TokenInv'
  <2>1. TypeOK'
    BY <1>6 DEF ProviderRefuses, GivesUp, Go, TypeOK, Row, Steps
  <2>2. AllKnown'
    BY <1>6 DEF ProviderRefuses, GivesUp, Go, AllKnown, Known, TypeOK, Row
  <2>3. PendingIsFresh'
    BY <1>6 DEF ProviderRefuses, GivesUp, Go, PendingIsFresh, Pending, AllKnown, Known,
       TypeOK, Row
  <2>4. SpentIsDead'
    BY <1>6 DEF ProviderRefuses, GivesUp, Go, SpentIsDead, PendingIsFresh, Pending, AllKnown,
       Known, TypeOK, Row
  <2>5. NothingDies'
    BY <1>6 DEF ProviderRefuses, GivesUp, Go, NothingDies, PendingIsFresh, Pending
  <2>6. SpentTokensLeaveTheTable'
    BY <1>6 DEF ProviderRefuses, GivesUp, Go, SpentTokensLeaveTheTable, SpentIsDead,
       PendingIsFresh, NothingDies, Pending, TypeOK
  <2> QED BY <2>1, <2>2, <2>3, <2>4, <2>5, <2>6
<1>7. ASSUME NEW c \in Calls, ProviderFails(c) PROVE TokenInv'
  <2>1. TypeOK'
    BY <1>7 DEF ProviderFails, Fault, GivesUp, Go, TypeOK, Row, Steps
  <2>2. AllKnown'
    BY <1>7 DEF ProviderFails, Fault, GivesUp, Go, AllKnown, Known, TypeOK, Row
  <2>3. PendingIsFresh'
    BY <1>7 DEF ProviderFails, Fault, GivesUp, Go, PendingIsFresh, Pending, AllKnown, Known,
       TypeOK, Row
  <2>4. SpentIsDead'
    BY <1>7 DEF ProviderFails, Fault, GivesUp, Go, SpentIsDead, PendingIsFresh, Pending,
       AllKnown, Known, TypeOK, Row
  <2>5. NothingDies'
    BY <1>7 DEF ProviderFails, Fault, GivesUp, Go, NothingDies, PendingIsFresh, Pending
  <2>6. SpentTokensLeaveTheTable'
    BY <1>7 DEF ProviderFails, Fault, GivesUp, Go, SpentTokensLeaveTheTable, SpentIsDead,
       PendingIsFresh, NothingDies, Pending, TypeOK
  <2> QED BY <2>1, <2>2, <2>3, <2>4, <2>5, <2>6
<1>8. ASSUME NEW c \in Calls, StoreSelects(c) PROVE TokenInv'
  <2>1. TypeOK'
    BY <1>8 DEF StoreSelects, Go, TypeOK, Row, Steps
  <2>2. AllKnown'
    BY <1>8 DEF StoreSelects, Go, AllKnown, Known, TypeOK, Row
  <2>3. PendingIsFresh'
    BY <1>8 DEF StoreSelects, Go, PendingIsFresh, Pending, AllKnown, Known, TypeOK, Row
  <2>4. SpentIsDead'
    BY <1>8 DEF StoreSelects, Go, SpentIsDead, PendingIsFresh, Pending, AllKnown, Known,
       TypeOK, Row
  <2>5. NothingDies'
    BY <1>8 DEF StoreSelects, Go, NothingDies, PendingIsFresh, Pending
  <2>6. SpentTokensLeaveTheTable'
    BY <1>8 DEF StoreSelects, Go, SpentTokensLeaveTheTable, SpentIsDead, PendingIsFresh,
       NothingDies, Pending, TypeOK
  <2> QED BY <2>1, <2>2, <2>3, <2>4, <2>5, <2>6
<1>9. ASSUME NEW c \in Calls, StoreUpdates(c) PROVE TokenInv'
  <2>1. TypeOK'
    BY <1>9 DEF StoreUpdates, StoreEnds, Go, TypeOK, Row, Steps
  <2>2. AllKnown'
    BY <1>9 DEF StoreUpdates, StoreEnds, Go, AllKnown, Known, TypeOK, Row
  <2>3. PendingIsFresh'
    BY <1>9 DEF StoreUpdates, StoreEnds, Go, PendingIsFresh, Pending, AllKnown, Known, TypeOK,
       Row
  <2>4. SpentIsDead'
    BY <1>9 DEF StoreUpdates, StoreEnds, Go, SpentIsDead, PendingIsFresh, Pending, AllKnown,
       Known, TypeOK, Row
  <2>5. NothingDies'
    BY <1>9 DEF StoreUpdates, StoreEnds, Go, NothingDies, PendingIsFresh, Pending
  <2>6. SpentTokensLeaveTheTable'
    BY <1>9 DEF StoreUpdates, StoreEnds, Go, SpentTokensLeaveTheTable, SpentIsDead,
       PendingIsFresh, NothingDies, Pending, TypeOK
  <2> QED BY <2>1, <2>2, <2>3, <2>4, <2>5, <2>6
<1>10. ASSUME NEW c \in Calls, StoreInserts(c) PROVE TokenInv'
  <2>1. TypeOK'
    BY <1>10 DEF StoreInserts, StoreEnds, Go, TypeOK, Row, Steps
  <2>2. AllKnown'
    BY <1>10 DEF StoreInserts, StoreEnds, Go, AllKnown, Known, TypeOK, Row
  <2>3. PendingIsFresh'
    BY <1>10 DEF StoreInserts, StoreEnds, Go, PendingIsFresh, Pending, AllKnown, Known,
       TypeOK, Row
  <2>4. SpentIsDead'
    BY <1>10 DEF StoreInserts, StoreEnds, Go, SpentIsDead, PendingIsFresh, Pending, AllKnown,
       Known, TypeOK, Row
  <2>5. NothingDies'
    BY <1>10 DEF StoreInserts, StoreEnds, Go, NothingDies, PendingIsFresh, Pending
  <2>6. SpentTokensLeaveTheTable'
    BY <1>10 DEF StoreInserts, StoreEnds, Go, SpentTokensLeaveTheTable, SpentIsDead,
       PendingIsFresh, NothingDies, Pending, TypeOK
  <2> QED BY <2>1, <2>2, <2>3, <2>4, <2>5, <2>6
<1>11. ASSUME NEW c \in Calls, ExpiryWrites(c) PROVE TokenInv'
  <2>1. TypeOK'
    BY <1>11 DEF ExpiryWrites, Go, TypeOK, Row, Steps
  <2>2. AllKnown'
    BY <1>11 DEF ExpiryWrites, Go, AllKnown, Known, TypeOK, Row
  <2>3. PendingIsFresh'
    BY <1>11 DEF ExpiryWrites, Go, PendingIsFresh, Pending, AllKnown, Known, TypeOK, Row
  <2>4. SpentIsDead'
    BY <1>11 DEF ExpiryWrites, Go, SpentIsDead, PendingIsFresh, Pending, AllKnown, Known,
       TypeOK, Row
  <2>5. NothingDies'
    BY <1>11 DEF ExpiryWrites, Go, NothingDies, PendingIsFresh, Pending
  <2>6. SpentTokensLeaveTheTable'
    BY <1>11 DEF ExpiryWrites, Go, SpentTokensLeaveTheTable, SpentIsDead, PendingIsFresh,
       NothingDies, Pending, TypeOK
  <2> QED BY <2>1, <2>2, <2>3, <2>4, <2>5, <2>6
<1>12. ASSUME NEW c \in Calls, StoreFails(c) PROVE TokenInv'
  <2>1. TypeOK'
    BY <1>12 DEF StoreFails, Fault, GivesUp, Go, TypeOK, Row, Steps
  <2>2. AllKnown'
    BY <1>12 DEF StoreFails, Fault, GivesUp, Go, AllKnown, Known, TypeOK, Row
  <2>3. PendingIsFresh'
    BY <1>12 DEF StoreFails, Fault, GivesUp, Go, PendingIsFresh, Pending, AllKnown, Known,
       TypeOK, Row
  <2>4. SpentIsDead'
    BY <1>12 DEF StoreFails, Fault, GivesUp, Go, SpentIsDead, PendingIsFresh, Pending,
       AllKnown, Known, TypeOK, Row
  <2>5. NothingDies'
    BY <1>12 DEF StoreFails, Fault, GivesUp, Go, NothingDies, PendingIsFresh, Pending
  <2>6. SpentTokensLeaveTheTable'
    BY <1>12 DEF StoreFails, Fault, GivesUp, Go, SpentTokensLeaveTheTable, SpentIsDead,
       PendingIsFresh, NothingDies, Pending, TypeOK
  <2> QED BY <2>1, <2>2, <2>3, <2>4, <2>5, <2>6
<1>13. ASSUME NEW c \in Calls, RemoveTokens(c) PROVE TokenInv'
  <2>1. TypeOK'
    BY <1>13 DEF RemoveTokens, Go, TypeOK, Row, Steps
  <2>2. AllKnown'
    BY <1>13 DEF RemoveTokens, Go, AllKnown, Known, TypeOK, Row
  <2>3. PendingIsFresh'
    BY <1>13 DEF RemoveTokens, Go, PendingIsFresh, Pending, AllKnown, Known, TypeOK, Row
  <2>4. SpentIsDead'
    BY <1>13 DEF RemoveTokens, Go, SpentIsDead, PendingIsFresh, Pending, AllKnown, Known,
       TypeOK, Row
  <2>5. NothingDies'
    BY <1>13 DEF RemoveTokens, Go, NothingDies, PendingIsFresh, Pending
  <2>6. SpentTokensLeaveTheTable'
    BY <1>13 DEF RemoveTokens, Go, SpentTokensLeaveTheTable, SpentIsDead, PendingIsFresh,
       NothingDies, Pending, TypeOK
  <2> QED BY <2>1, <2>2, <2>3, <2>4, <2>5, <2>6
<1>14. ASSUME NEW c \in Calls, RemoveFails(c) PROVE TokenInv'
  <2>1. TypeOK'
    BY <1>14 DEF RemoveFails, Fault, Go, TypeOK, Row, Steps
  <2>2. AllKnown'
    BY <1>14 DEF RemoveFails, Fault, Go, AllKnown, Known, TypeOK, Row
  <2>3. PendingIsFresh'
    BY <1>14 DEF RemoveFails, Fault, Go, PendingIsFresh, Pending, AllKnown, Known, TypeOK, Row
  <2>4. SpentIsDead'
    BY <1>14 DEF RemoveFails, Fault, Go, SpentIsDead, PendingIsFresh, Pending, AllKnown,
       Known, TypeOK, Row
  <2>5. NothingDies'
    BY <1>14 DEF RemoveFails, Fault, Go, NothingDies, PendingIsFresh, Pending
  <2>6. SpentTokensLeaveTheTable'
    BY <1>14 DEF RemoveFails, Fault, Go, SpentTokensLeaveTheTable, SpentIsDead,
       PendingIsFresh, NothingDies, Pending, TypeOK
  <2> QED BY <2>1, <2>2, <2>3, <2>4, <2>5, <2>6
<1>15. ASSUME Disconnect PROVE TokenInv'
  <2>1. TypeOK'
    BY <1>15 DEF Disconnect, callVars, TypeOK, Row, Steps
  <2>2. AllKnown'
    BY <1>15 DEF Disconnect, callVars, AllKnown, Known, TypeOK, Row
  <2>3. PendingIsFresh'
    BY <1>15 DEF Disconnect, callVars, PendingIsFresh, Pending, AllKnown, Known, TypeOK, Row
  <2>4. SpentIsDead'
    BY <1>15 DEF Disconnect, callVars, SpentIsDead, PendingIsFresh, Pending, AllKnown, Known,
       TypeOK, Row
  <2>5. NothingDies'
    BY <1>15 DEF Disconnect, callVars, NothingDies, PendingIsFresh, Pending
  <2>6. SpentTokensLeaveTheTable'
    BY <1>15 DEF Disconnect, callVars, SpentTokensLeaveTheTable, SpentIsDead, PendingIsFresh,
       NothingDies, Pending, TypeOK
  <2> QED BY <2>1, <2>2, <2>3, <2>4, <2>5, <2>6
<1>16. ASSUME CleanupExpiredTokens PROVE TokenInv'
  <2>1. TypeOK'
    BY <1>16 DEF CleanupExpiredTokens, callVars, TypeOK, Row, Steps
  <2>2. AllKnown'
    BY <1>16 DEF CleanupExpiredTokens, callVars, AllKnown, Known, TypeOK, Row
  <2>3. PendingIsFresh'
    BY <1>16 DEF CleanupExpiredTokens, callVars, PendingIsFresh, Pending, AllKnown, Known,
       TypeOK, Row
  <2>4. SpentIsDead'
    BY <1>16 DEF CleanupExpiredTokens, callVars, SpentIsDead, PendingIsFresh, Pending,
       AllKnown, Known, TypeOK, Row
  <2>5. NothingDies'
    BY <1>16 DEF CleanupExpiredTokens, callVars, NothingDies, PendingIsFresh, Pending
  <2>6. SpentTokensLeaveTheTable'
    BY <1>16 DEF CleanupExpiredTokens, callVars, SpentTokensLeaveTheTable, SpentIsDead,
       PendingIsFresh, NothingDies, Pending, TypeOK
  <2> QED BY <2>1, <2>2, <2>3, <2>4, <2>5, <2>6
<1>17. ASSUME Tick PROVE TokenInv'
  <2>1. TypeOK'
    BY <1>17 DEF Tick, callVars, TypeOK, Row, Steps
  <2>2. AllKnown'
    BY <1>17 DEF Tick, callVars, AllKnown, Known, TypeOK, Row
  <2>3. PendingIsFresh'
    BY <1>17 DEF Tick, callVars, PendingIsFresh, Pending, AllKnown, Known, TypeOK, Row
  <2>4. SpentIsDead'
    BY <1>17 DEF Tick, callVars, SpentIsDead, PendingIsFresh, Pending, AllKnown, Known,
       TypeOK, Row
  <2>5. NothingDies'
    BY <1>17 DEF Tick, callVars, NothingDies, PendingIsFresh, Pending
  <2>6. SpentTokensLeaveTheTable'
    BY <1>17 DEF Tick, callVars, SpentTokensLeaveTheTable, SpentIsDead, PendingIsFresh,
       NothingDies, Pending, TypeOK
  <2> QED BY <2>1, <2>2, <2>3, <2>4, <2>5, <2>6
<1>18. CASE UNCHANGED vars
  BY <1>18 DEF vars, callVars, TypeOK, AllKnown, Known, PendingIsFresh, Pending, SpentIsDead,
     NothingDies,
      SpentTokensLeaveTheTable
<1> QED
  BY <1>1, <1>2, <1>3, <1>4, <1>5, <1>6, <1>7, <1>8, <1>9, <1>10, <1>11, <1>12, <1>13, <1>14,
     <1>15, <1>16, <1>17, <1>18, <1>19 DEF Next, Refresh, Store

\* However logins, refreshes, disconnects and cleanups overlap, and whatever
\* fails, the table holds no refresh token that was exchanged for another one
\* already stored.
THEOREM SpentTokensLeaveTheTableAlways == Spec => []SpentTokensLeaveTheTable
<1>1. TokenInv => SpentTokensLeaveTheTable
  BY DEF TokenInv
<1> QED BY <1>1, TokenInit, TokenStep, PTL DEF Spec

\* The type invariant.
THEOREM TokensTypeOK == Spec => []TypeOK
<1>1. TokenInv => TypeOK
  BY DEF TokenInv
<1> QED BY <1>1, TokenInit, TokenStep, PTL DEF Spec

\* A call about to remove the rows has met a failure, or the provider does not
\* honour what it read, or the status route does not call it authenticated; nor
\* ever again: what has expired stays so, deadlines stay passed, and the provider
\* honours no token again that it has ended.
RemovalIsDue ==
  \A c \in Calls : pc[c] = "remove" =>
    faulted[c] \/ ~IsAuthenticated(held[c]) \/ held[c].refresh \notin live

\* Every step keeps a removal due.
LEMMA RemovalStep == TokenInv /\ RemovalIsDue /\ [Next]_vars => RemovalIsDue'
<1> SUFFICES ASSUME TokenInv, RemovalIsDue, [Next]_vars PROVE RemovalIsDue'
  OBVIOUS
<1> USE OAuthAssumption DEF TokenInv, TypeOK, RemovalIsDue, IsAuthenticated, AreExpired,
    CanRefresh, IsRefreshExpired, external
<1>1. ASSUME NEW c \in Calls, Login(c) PROVE RemovalIsDue'
  BY <1>1 DEF Login, LoginIsGranted, LoginStores, LoginFails, Fault, Issues, Go, AllKnown, Known
<1>2. ASSUME NEW c \in Calls, EnsureAnswers(c) PROVE RemovalIsDue'
  BY <1>2 DEF EnsureAnswers, Go
<1>3. ASSUME NEW c \in Calls, EnsureRefreshes(c) PROVE RemovalIsDue'
  BY <1>3 DEF EnsureRefreshes, Decides, Go
<1>4. ASSUME NEW c \in Calls, ProviderGrants(c) PROVE RemovalIsDue'
  BY <1>4 DEF ProviderGrants, Takes, Successor, Issues, Go, AllKnown, Known
<1>5. ASSUME NEW c \in Calls, AnswerArrives(c) \/ AnswerIsLost(c) PROVE RemovalIsDue'
  BY <1>5 DEF AnswerArrives, AnswerIsLost, Fault, GivesUp, Go
<1>6. ASSUME NEW c \in Calls, ProviderRefuses(c) PROVE RemovalIsDue'
  BY <1>6 DEF ProviderRefuses, GivesUp, Go
<1>7. ASSUME NEW c \in Calls, ProviderFails(c) PROVE RemovalIsDue'
  BY <1>7 DEF ProviderFails, Fault, GivesUp, Go
<1>8. ASSUME NEW c \in Calls, StoreSelects(c) PROVE RemovalIsDue'
  BY <1>8 DEF StoreSelects, Go
<1>9. ASSUME NEW c \in Calls, StoreUpdates(c) PROVE RemovalIsDue'
  BY <1>9 DEF StoreUpdates, StoreEnds, Go
<1>10. ASSUME NEW c \in Calls, StoreInserts(c) PROVE RemovalIsDue'
  BY <1>10 DEF StoreInserts, StoreEnds, Go
<1>11. ASSUME NEW c \in Calls, ExpiryWrites(c) PROVE RemovalIsDue'
  BY <1>11 DEF ExpiryWrites, Go
<1>12. ASSUME NEW c \in Calls, StoreFails(c) PROVE RemovalIsDue'
  BY <1>12 DEF StoreFails, Fault, GivesUp, Go
<1>13. ASSUME NEW c \in Calls, RemoveTokens(c) PROVE RemovalIsDue'
  BY <1>13 DEF RemoveTokens, Go
<1>14. ASSUME NEW c \in Calls, RemoveFails(c) PROVE RemovalIsDue'
  BY <1>14 DEF RemoveFails, Fault, Go
<1>15. ASSUME Disconnect PROVE RemovalIsDue'
  BY <1>15 DEF Disconnect, callVars
<1>16. ASSUME CleanupExpiredTokens PROVE RemovalIsDue'
  BY <1>16 DEF CleanupExpiredTokens, callVars
<1>17. ASSUME Tick PROVE RemovalIsDue'
  <2> SUFFICES ASSUME NEW c \in Calls, (pc[c] = "remove")'
               PROVE  (faulted[c] \/ ~IsAuthenticated(held[c]) \/ held[c].refresh \notin live)'
    OBVIOUS
  <2>1. held[c] \in Row /\ now \in Nat /\ now' = now + 1 /\ held' = held
    BY <1>17 DEF Tick, callVars
  <2>2. held[c].rexp \in Nat \cup {NoTime} /\ held[c].exp \in Nat \cup {NoTime}
    BY <2>1 DEF Row
  <2>3. ~IsAuthenticated(held[c]) => ~IsAuthenticated(held[c])'
    BY <2>1, <2>2
  <2> QED BY <1>17, <2>3 DEF Tick, callVars
<1>18. CASE UNCHANGED vars
  BY <1>18 DEF vars, callVars
<1> QED
  BY <1>1, <1>2, <1>3, <1>4, <1>5, <1>6, <1>7, <1>8, <1>9, <1>10, <1>11, <1>12, <1>13, <1>14,
     <1>15, <1>16, <1>17, <1>18 DEF Next, Refresh, Store

\* Whatever the provider, the lives of its tokens and the callers' deadlines, a
\* call of ensureValidTokens never removes the very tokens it could have
\* refreshed, unless a request or a statement of its own failed.
THEOREM RemovesOnlyWhatItCouldNotRefreshAlways == Spec => RemovesOnlyWhatItCouldNotRefresh
<1>1. Init => RemovalIsDue
  BY DEF Init, RemovalIsDue
<1>2. RemovalIsDue => RemovesRightly
  BY DEF RemovalIsDue, RemovesRightly, RemoveTokens
<1>3. RemovalIsDue /\ [Next]_vars => [RemovesRightly]_vars
  BY <1>2
<1> QED BY <1>1, <1>3, TokenInit, TokenStep, RemovalStep, PTL DEF Spec,
RemovesOnlyWhatItCouldNotRefresh

-----------------------------------------------------------------------------
(* The order of the grants.                                                  *)

\* There is at most one login.
OneLogin == \A c, d \in Logins : c = d

\* A call begins with nothing, stores what it has, and comes to updateTokenExpiry
\* only as a refresh, with tokens that end, and after its store.
CallsBegin ==
  \A c \in Calls :
    /\ pc[c] = "idle" => mode[c] = "none" /\ fresh[c] = NoRow
    /\ pc[c] = "expiry" => mode[c] # "login" /\ stored[c]
    /\ pc[c] \in {"fetch", "answer"} => mode[c] # "login"
    /\ pc[c] = "profile" => mode[c] = "login"
    /\ stored[c] => fresh[c] # NoRow
    /\ fresh[c] # NoRow /\ mode[c] # "login" =>
         fresh[c].refresh # NoToken /\ fresh[c].exp # NoTime

\* Nothing that has been reckoned so far ends later than what is reckoned now.
ReckonedBefore ==
  \A c \in Calls : fresh[c] # NoRow /\ fresh[c].exp # NoTime => fresh[c].exp <= now + AccessLife

\* Every expiry in a row is the reckoning of a call that has stored its tokens.
RowsAreReckoned == \A r \in rows : \E c \in Calls : stored[c] /\ r.exp = fresh[c].exp

\* Call c has the refresh token t.
Has(c, t) == fresh[c] # NoRow /\ t # NoToken /\ fresh[c].refresh = t

\* Under rotation a refresh token belongs to one call.
TokensAreOwn == \A c, d \in Calls : \A t \in Nat : Has(c, t) /\ Has(d, t) => c = d

\* Nothing is granted before the first login.
NothingBeforeLogin == Logins = {} => issued = 0 /\ \A c \in Calls : fresh[c] = NoRow

\* Only the last grant's refresh token is honoured, and none if the login brought
\* none.
LastIsLive ==
  /\ live \subseteq {issued}
  /\ \A c \in Calls : fresh[c] # NoRow /\ fresh[c].refresh = NoToken => live = {}

\* A store that found no row still finds none when it inserts.
InsertsAlone ==
  \A c \in Calls : pc[c] = "storeWrite" /\ seen[c] = NoRow /\ fresh[c].refresh # NoToken =>
    rows = {}

\* A call about to run updateTokenExpiry finds its own grant in the rows or a later.
RowsAreNewer ==
  \A c \in Calls : pc[c] = "expiry" =>
    \A r \in rows : r.refresh # NoToken => fresh[c].refresh <= r.refresh

\* Of two grants the later one was reckoned later.
LaterEndsLater ==
  \A c, d \in Calls : \A t, u \in Nat :
    Has(c, t) /\ Has(d, u) /\ t < u /\ fresh[c].exp # NoTime /\ fresh[d].exp # NoTime =>
      fresh[c].exp <= fresh[d].exp

\* The call that stored a row's tokens reckoned with an end no earlier than the row's.
RowsKeepTheirReckoning ==
  \A r \in rows : r.refresh # NoToken =>
    \E c \in Calls :
      /\ stored[c] /\ fresh[c].refresh = r.refresh
      /\ fresh[c].exp # NoTime => r.exp # NoTime /\ r.exp <= fresh[c].exp

OneLine == /\ NothingBeforeLogin /\ LastIsLive /\ InsertsAlone
           /\ RowsAreNewer /\ LaterEndsLater /\ RowsKeepTheirReckoning

GrantInv == /\ IsFiniteSet(Logins) /\ CallsBegin /\ ReckonedBefore /\ RowsAreReckoned
            /\ rotates => TokensAreOwn
            /\ rotates /\ OneLogin => OneLine

\* The first state has no rows and no grants.
LEMMA GrantInit == Init => GrantInv
<1> SUFFICES ASSUME Init PROVE GrantInv
  OBVIOUS
<1>1. Logins = {}
  BY DEF Init, Logins
<1> QED
  BY <1>1, FS_EmptySet, OAuthAssumption
  DEF Init, GrantInv, OneLine, CallsBegin, ReckonedBefore, RowsAreReckoned, Has, TokensAreOwn,
      NothingBeforeLogin, LastIsLive, InsertsAlone, RowsAreNewer, LaterEndsLater,
      RowsKeepTheirReckoning

\* The steps that write no row and take no grant: they may remove rows, let time
\* pass, start a refresh, and end a call or send it to the provider or to the removal.
Quiet ==
  /\ rotates' = rotates /\ issued' = issued /\ live' = live /\ fresh' = fresh /\ stored' = stored
  /\ now' \in Nat /\ now <= now'
  /\ rows' \subseteq rows
  /\ \A c \in Calls :
       /\ \/ mode'[c] = mode[c]
          \/ pc[c] = "idle" /\ pc'[c] # "idle" /\ mode'[c] # "login"
       /\ \/ pc'[c] = pc[c] /\ seen'[c] = seen[c]
          \/ pc'[c] \in {"remove", "done"}
          \/ pc'[c] = "fetch" /\ mode'[c] # "login"

\* The steps of a call that are quiet.
LEMMA QuietDoes ==
  ASSUME TypeOK, NEW c \in Calls,
         \/ LoginFails(c) \/ EnsureAnswers(c) \/ EnsureRefreshes(c) \/ ProviderRefuses(c)
         \/ ProviderFails(c) \/ AnswerIsLost(c) \/ StoreFails(c) \/ RemoveTokens(c)
         \/ RemoveFails(c)
  PROVE  Quiet
<1> USE DEF TypeOK, Quiet, external, Go
<1>1. CASE LoginFails(c)
  BY <1>1 DEF LoginFails
<1>2. CASE EnsureAnswers(c)
  BY <1>2 DEF EnsureAnswers
<1>3. CASE EnsureRefreshes(c)
  BY <1>3 DEF EnsureRefreshes, Decides
<1>4. CASE ProviderRefuses(c)
  BY <1>4 DEF ProviderRefuses, GivesUp
<1>5. CASE ProviderFails(c)
  BY <1>5 DEF ProviderFails, GivesUp
<1>6. CASE AnswerIsLost(c)
  BY <1>6 DEF AnswerIsLost, GivesUp
<1>7. CASE StoreFails(c)
  BY <1>7 DEF StoreFails, GivesUp
<1>8. CASE RemoveTokens(c)
  BY <1>8 DEF RemoveTokens
<1>9. CASE RemoveFails(c)
  BY <1>9 DEF RemoveFails
<1> QED BY <1>1, <1>2, <1>3, <1>4, <1>5, <1>6, <1>7, <1>8, <1>9

\* So are the removals by others, the clock and a stutter.
LEMMA OthersAreQuiet ==
  ASSUME TypeOK, Disconnect \/ CleanupExpiredTokens \/ Tick \/ UNCHANGED vars
  PROVE  Quiet
BY DEF TypeOK, Quiet, external, callVars, Disconnect, CleanupExpiredTokens, Tick, vars

\* A quiet step keeps the order of the grants.
LEMMA QuietKeepsGrants ==
  ASSUME TokenInv, GrantInv, Quiet
  PROVE  GrantInv'
<1> USE DEF Quiet, GrantInv, OneLine
<1>1. Logins' = Logins
  BY DEF Logins, CallsBegin
<1>2. ReckonedBefore'
  <2> SUFFICES ASSUME NEW c \in Calls, fresh[c] # NoRow, fresh[c].exp # NoTime
               PROVE  fresh[c].exp <= now' + AccessLife
    BY DEF ReckonedBefore
  <2>1. fresh[c].exp \in Nat
    BY DEF TokenInv, TypeOK, Row
  <2> QED BY <2>1, OAuthAssumption DEF ReckonedBefore, TokenInv, TypeOK
<1>3. CallsBegin' /\ RowsAreReckoned'
  BY DEF CallsBegin, RowsAreReckoned
<1>4. rotates' => TokensAreOwn'
  BY DEF TokensAreOwn, Has
<1>5. ASSUME rotates', OneLogin' PROVE OneLine'
  <2>1. rotates /\ OneLogin
    BY <1>1, <1>5 DEF OneLogin
  <2>2. NothingBeforeLogin' /\ LastIsLive'
    BY <1>1, <2>1 DEF NothingBeforeLogin, LastIsLive
  <2>3. InsertsAlone' /\ RowsAreNewer'
    BY <2>1 DEF InsertsAlone, RowsAreNewer
  <2>4. LaterEndsLater' /\ RowsKeepTheirReckoning'
    BY <2>1 DEF LaterEndsLater, Has, RowsKeepTheirReckoning
  <2> QED BY <2>2, <2>3, <2>4
<1> QED BY <1>1, <1>2, <1>3, <1>4, <1>5

-----------------------------------------------------------------------------
(* Grants.                                                                   *)

\* Call c, which had nothing, gets one more grant: with the refresh token t, or none,
\* and an end reckoned from now, or none.
Granted(c, t, end) ==
  /\ issued' = issued + 1 /\ UNCHANGED <<now, rotates, rows, seen, stored>>
  /\ pc[c] \in {"idle", "fetch"}
  /\ fresh' = [fresh EXCEPT ![c] = [refresh |-> t, exp |-> end, rexp |-> NoTime]]
  /\ end \in {NoTime, now + AccessLife}
  /\ rotates => t \in {NoToken, issued + 1}

\* A grant leaves what others hold, keeps what is said of the rows, and brings the
\* newest token and the latest end.
LEMMA GrantedKeeps ==
  ASSUME TokenInv, GrantInv, NEW c \in Calls, NEW t \in Nat \cup {NoToken}, NEW end,
         Granted(c, t, end)
  PROVE  /\ ReckonedBefore' /\ RowsAreReckoned'
         /\ rotates => TokensAreOwn'
         /\ rotates /\ OneLine => LaterEndsLater' /\ RowsKeepTheirReckoning'
<1> USE OAuthAssumption DEF Granted, GrantInv
<1>1. /\ now \in Nat /\ issued \in Nat /\ fresh'[c] = [refresh |-> t, exp |-> end, rexp |-> NoTime]
      /\ \A d \in Calls : d # c => fresh'[d] = fresh[d]
  BY DEF TokenInv, TypeOK
<1>2. \A d \in Calls : stored[d] => d # c /\ fresh'[d] = fresh[d]
  BY <1>1 DEF TokenInv, SpentIsDead
<1>3. ReckonedBefore'
  BY <1>1 DEF ReckonedBefore
<1>4. RowsAreReckoned'
  BY <1>2 DEF RowsAreReckoned
<1>5. \A d \in Calls : \A u \in Nat : d # c /\ Has(d, u)' => Has(d, u) /\ u <= issued
  <2> SUFFICES ASSUME NEW d \in Calls, NEW u \in Nat, d # c, Has(d, u)'
               PROVE  Has(d, u) /\ u <= issued
    OBVIOUS
  <2>1. Has(d, u) /\ fresh[d] \in Row
    BY <1>1 DEF Has, TokenInv, TypeOK
  <2> QED BY <1>1, <2>1 DEF Has, TokenInv, AllKnown, Known
<1>6. ASSUME rotates PROVE \A u \in Nat : Has(c, u)' => u = issued + 1
  BY <1>1, <1>6 DEF Has
<1>7. ASSUME rotates PROVE TokensAreOwn'
  <2> SUFFICES ASSUME NEW d \in Calls, NEW e \in Calls, NEW u \in Nat, Has(d, u)', Has(e, u)'
               PROVE  d = e
    BY DEF TokensAreOwn
  <2> QED BY <1>1, <1>5, <1>6, <1>7 DEF TokensAreOwn
<1>8. ASSUME rotates, OneLine PROVE LaterEndsLater' /\ RowsKeepTheirReckoning'
  <2>1. LaterEndsLater'
    <3> SUFFICES ASSUME NEW d \in Calls, NEW e \in Calls, NEW u \in Nat, NEW v \in Nat,
                        Has(d, u)', Has(e, v)', u < v, fresh'[d].exp # NoTime, fresh'[e].exp # NoTime
                 PROVE  fresh'[d].exp <= fresh'[e].exp
      BY DEF LaterEndsLater
    <3>1. d # c
      BY <1>1, <1>5, <1>6, <1>8
    <3>2. CASE e = c
      BY <1>1, <1>5, <3>1, <3>2 DEF ReckonedBefore, Has
    <3>3. CASE e # c
      BY <1>1, <1>5, <1>8, <3>1, <3>3 DEF OneLine, LaterEndsLater
    <3> QED BY <3>2, <3>3
  <2>2. RowsKeepTheirReckoning'
    BY <1>2, <1>8 DEF OneLine, RowsKeepTheirReckoning
  <2> QED BY <2>1, <2>2
<1> QED BY <1>3, <1>4, <1>7, <1>8

\* The token granted is the only one honoured, and no row has it yet.
LEMMA ExchangeKeepsGrants ==
  ASSUME TokenInv, GrantInv, NEW c \in Calls, ProviderGrants(c)
  PROVE  GrantInv'
<1> USE OAuthAssumption DEF GrantInv, OneLine
<1>1. /\ pc[c] = "fetch" /\ held[c].refresh \in live /\ held[c].refresh \in Nat
      /\ issued \in Nat /\ now \in Nat /\ mode' = mode
      /\ Successor(c) \in Nat /\ (rotates => Successor(c) = issued + 1)
      /\ live' = (live \ {held[c].refresh}) \cup {Successor(c)}
      /\ pc' = [pc EXCEPT ![c] = "answer"]
  BY DEF ProviderGrants, Takes, Successor, Go, TokenInv, TypeOK
<1>2. Granted(c, Successor(c), now + AccessLife)
  BY <1>1 DEF ProviderGrants, Takes, Issues, Expiry, Granted
<1>3. Logins' = Logins
  BY <1>1 DEF Logins
<1>4. /\ fresh'[c] = [refresh |-> Successor(c), exp |-> now + AccessLife, rexp |-> NoTime]
      /\ fresh'[c] \in Row /\ \A d \in Calls : d # c => fresh'[d] = fresh[d]
  BY <1>1 DEF ProviderGrants, Expiry, TokenInv, TypeOK, Row
<1>5. /\ ReckonedBefore' /\ RowsAreReckoned' /\ (rotates => TokensAreOwn')
      /\ rotates /\ OneLine => LaterEndsLater' /\ RowsKeepTheirReckoning'
  BY <1>1, <1>2, GrantedKeeps
<1>6. mode[c] # "login"
  BY <1>1 DEF CallsBegin
<1>7. CallsBegin'
  <2>1. fresh'[c] # NoRow /\ fresh'[c].refresh # NoToken /\ fresh'[c].exp # NoTime
    BY <1>1, <1>4 DEF Row
  <2>2. \A d \in Calls : d # c => pc'[d] = pc[d]
    BY <1>1 DEF TokenInv, TypeOK
  <2>3. pc'[c] = "answer" /\ stored' = stored
    BY <1>1 DEF ProviderGrants, Takes, TokenInv, TypeOK
  <2> QED BY <1>1, <1>4, <1>6, <2>1, <2>2, <2>3 DEF CallsBegin
<1>8. ASSUME rotates', OneLogin' PROVE OneLine'
  <2>1. rotates /\ OneLogin
    BY <1>2, <1>3, <1>8 DEF OneLogin, Granted
  <2>2. Logins # {}
    BY <1>1, <2>1 DEF NothingBeforeLogin, TokenInv, TypeOK
  <2>3. LastIsLive'
    <3>1. live' \subseteq {issued'}
      BY <1>1, <1>2, <2>1 DEF LastIsLive, Granted
    <3>2. \A d \in Calls : fresh'[d] # NoRow => fresh'[d].refresh # NoToken
      BY <1>1, <1>4, <2>1 DEF LastIsLive
    <3> QED BY <3>1, <3>2 DEF LastIsLive
  <2>4. \A d \in Calls : pc'[d] \in {"storeWrite", "expiry"} => pc[d] = pc'[d] /\ d # c
    BY <1>1 DEF TokenInv, TypeOK
  <2>5. InsertsAlone' /\ RowsAreNewer'
    BY <1>2, <1>4, <2>1, <2>4 DEF InsertsAlone, RowsAreNewer, Granted
  <2> QED BY <1>3, <1>5, <2>1, <2>2, <2>3, <2>5 DEF NothingBeforeLogin
<1> QED BY <1>3, <1>5, <1>7, <1>8, <1>2 DEF Granted

\* Under one login it finds no grants, no rows with tokens and no other call that holds any.
LEMMA LoginKeepsGrants ==
  ASSUME TokenInv, GrantInv, NEW c \in Calls, LoginIsGranted(c)
  PROVE  GrantInv'
<1> USE OAuthAssumption DEF GrantInv
<1>1. PICK expiry \in {NoTime, Expiry}, refresh \in {NoToken, issued + 1} :
        /\ live' = live \cup ({refresh} \ {NoToken})
        /\ fresh' = [fresh EXCEPT ![c] = [refresh |-> refresh, exp |-> expiry, rexp |-> NoTime]]
  BY DEF LoginIsGranted
<1>2. Granted(c, refresh, expiry) /\ issued \in Nat /\ refresh \in Nat \cup {NoToken}
  <2>1. issued \in Nat /\ issued' = issued + 1
    BY DEF LoginIsGranted, Issues, TokenInv, TypeOK
  <2>2. expiry \in {NoTime, now + AccessLife} /\ refresh \in {NoToken, issued + 1}
    BY DEF Expiry
  <2>3. pc[c] = "idle" /\ UNCHANGED <<now, rotates, rows, seen, stored>>
    BY DEF LoginIsGranted
  <2> QED BY <2>1, <2>2, <2>3, <1>1 DEF Granted
<1>3. /\ pc[c] = "idle" /\ pc'[c] = "profile"
      /\ mode'[c] = "login" /\ mode[c] = "none" /\ fresh[c] = NoRow
      /\ fresh'[c].refresh = refresh /\ fresh'[c].exp = expiry
      /\ \A d \in Calls \ {c} : pc'[d] = pc[d] /\ mode'[d] = mode[d] /\ fresh'[d] = fresh[d]
  BY <1>1 DEF LoginIsGranted, Go, TokenInv, TypeOK, CallsBegin
<1>4. Logins' = Logins \cup {c} /\ c \notin Logins
  BY <1>3 DEF Logins
<1>5. IsFiniteSet(Logins')
  BY <1>4, FS_AddElement
<1>6. /\ ReckonedBefore' /\ RowsAreReckoned' /\ (rotates => TokensAreOwn')
      /\ rotates /\ OneLine => LaterEndsLater' /\ RowsKeepTheirReckoning'
  BY <1>2, GrantedKeeps
<1>7. CallsBegin'
  BY <1>2, <1>3 DEF CallsBegin, Granted
<1>8. ASSUME rotates', OneLogin' PROVE OneLine'
  <2>1. Logins = {} /\ rotates /\ OneLogin
    BY <1>2, <1>3, <1>4, <1>8 DEF OneLogin, Granted
  <2>2. issued = 0 /\ (\A d \in Calls : fresh[d] = NoRow) /\ OneLine
    BY <2>1 DEF OneLine, NothingBeforeLogin
  <2>3. live = {} /\ \A r \in rows : r.refresh = NoToken
    BY <2>2 DEF TokenInv, TypeOK, AllKnown, Known
  <2>4. NothingBeforeLogin'
    BY <1>4 DEF NothingBeforeLogin
  <2>5. LastIsLive'
    BY <1>1, <1>2, <1>3, <2>2, <2>3 DEF LastIsLive, Granted
  <2>6. InsertsAlone' /\ RowsAreNewer'
    BY <1>2, <1>3, <2>1, <2>3 DEF OneLine, InsertsAlone, RowsAreNewer, Granted
  <2> QED BY <1>6, <2>1, <2>2, <2>4, <2>5, <2>6 DEF OneLine
<1> QED BY <1>2, <1>5, <1>6, <1>7, <1>8 DEF Granted

\* The clock is read for the last grant, and no earlier grant ends later.
LEMMA ReckoningKeepsGrants ==
  ASSUME TokenInv, GrantInv, NEW c \in Calls, LoginStores(c) \/ AnswerArrives(c)
  PROVE  GrantInv'
<1> USE OAuthAssumption DEF GrantInv, OneLine
<1>1. /\ UNCHANGED <<now, rotates, issued, live, rows, mode, seen, stored>> /\ now \in Nat
      /\ pc[c] \in {"profile", "answer"} /\ pc'[c] = "storeSelect"
      /\ \A d \in Calls \ {c} : pc'[d] = pc[d] /\ fresh'[d] = fresh[d]
  BY DEF LoginStores, AnswerArrives, Go, external, TokenInv, TypeOK
<1>2. /\ fresh[c] \in Row /\ fresh[c] # NoRow /\ fresh'[c] \in Row /\ fresh'[c] # NoRow
      /\ fresh'[c].refresh = fresh[c].refresh
      /\ fresh'[c].exp # NoTime => fresh'[c].exp = now + AccessLife
      /\ pc[c] = "answer" => fresh'[c].exp # NoTime
  <2>1. fresh[c] \in Row /\ fresh'[c] \in Row
    BY <1>1, Reckoning DEF TokenInv, TypeOK
  <2>2. CASE LoginStores(c)
    BY <2>1, <2>2 DEF LoginStores, Expiry, TokenInv, TypeOK, Row
  <2>3. CASE AnswerArrives(c)
    BY <1>1, <2>1, <2>3 DEF AnswerArrives, Expiry, TokenInv, TypeOK, Row
  <2> QED BY <2>2, <2>3
<1>3. Logins' = Logins /\ \A d \in Calls : stored[d] => d # c /\ fresh'[d] = fresh[d]
  BY <1>1 DEF Logins, TokenInv, SpentIsDead, Pending
<1>4. CallsBegin'
  <2>1. pc[c] = "profile" => mode[c] = "login"
    BY DEF CallsBegin
  <2> QED BY <1>1, <1>2, <1>3, <2>1 DEF CallsBegin
<1>5. ReckonedBefore' /\ RowsAreReckoned'
  BY <1>1, <1>2, <1>3 DEF ReckonedBefore, RowsAreReckoned
<1>6. \A d \in Calls : \A u \in Nat : Has(d, u)' => Has(d, u)
  BY <1>1, <1>2 DEF Has
<1>7. rotates' => TokensAreOwn'
  BY <1>1, <1>6 DEF TokensAreOwn
<1>8. ASSUME rotates', OneLogin' PROVE OneLine'
  <2>1. rotates /\ OneLogin
    BY <1>1, <1>3, <1>8 DEF OneLogin
  <2>2. NothingBeforeLogin' /\ LastIsLive'
    BY <1>1, <1>2, <1>3, <2>1 DEF NothingBeforeLogin, LastIsLive
  <2>3. InsertsAlone' /\ RowsAreNewer' /\ RowsKeepTheirReckoning'
    BY <1>1, <1>3, <2>1 DEF InsertsAlone, RowsAreNewer, RowsKeepTheirReckoning
  <2>4. \A d \in Calls : \A u \in Nat : Has(d, u) => u <= issued
    BY DEF Has, TokenInv, TypeOK, AllKnown, Known
  <2>5. \A u \in Nat : Has(c, u) => u = issued
    BY <1>1, <2>1 DEF Has, LastIsLive, TokenInv, PendingIsFresh, Pending
  <2>6. LaterEndsLater'
    <3> SUFFICES ASSUME NEW d \in Calls, NEW e \in Calls, NEW u \in Nat, NEW v \in Nat,
                        Has(d, u)', Has(e, v)', u < v, fresh'[d].exp # NoTime, fresh'[e].exp # NoTime
                 PROVE  fresh'[d].exp <= fresh'[e].exp
      BY DEF LaterEndsLater
    <3>1. Has(d, u) /\ Has(e, v) /\ v <= issued /\ issued \in Nat
      BY <1>6, <2>4 DEF TokenInv, TypeOK
    <3>2. d # c /\ fresh'[d] = fresh[d]
      BY <1>1, <2>5, <3>1
    <3>3. CASE e = c
      BY <1>2, <3>1, <3>2, <3>3 DEF ReckonedBefore, Has
    <3>4. CASE e # c
      BY <1>1, <2>1, <3>1, <3>2, <3>4 DEF LaterEndsLater
    <3> QED BY <3>3, <3>4
  <2> QED BY <2>2, <2>3, <2>6
<1> QED BY <1>3, <1>4, <1>5, <1>7, <1>8

-----------------------------------------------------------------------------
(* The statements.                                                           *)

\* A SELECT that finds nothing leaves its call alone with an empty table.
LEMMA SelectKeepsGrants ==
  ASSUME TokenInv, GrantInv, NEW c \in Calls, StoreSelects(c)
  PROVE  GrantInv'
<1> USE OAuthAssumption DEF GrantInv, OneLine, StoreSelects, Go, external
<1>1. Logins' = Logins
  BY DEF Logins
<1>2. seen'[c] = NoRow => rows = {}
  BY DEF TokenInv, TypeOK, Row
<1>3. \A d \in Calls \ {c} : pc'[d] = pc[d] /\ seen'[d] = seen[d]
  BY DEF TokenInv, TypeOK
<1>4. pc'[c] = "storeWrite"
  BY DEF TokenInv, TypeOK
<1>5. CallsBegin' /\ ReckonedBefore' /\ RowsAreReckoned'
  BY <1>3, <1>4 DEF CallsBegin, ReckonedBefore, RowsAreReckoned
<1>6. rotates' => TokensAreOwn'
  BY DEF TokensAreOwn, Has
<1>7. ASSUME rotates', OneLogin' PROVE OneLine'
  <2>1. rotates /\ OneLogin
    BY <1>1, <1>7 DEF OneLogin
  <2>2. NothingBeforeLogin' /\ LastIsLive' /\ LaterEndsLater' /\ RowsKeepTheirReckoning'
    BY <1>1, <2>1 DEF NothingBeforeLogin, LastIsLive, LaterEndsLater, Has, RowsKeepTheirReckoning
  <2>3. InsertsAlone' /\ RowsAreNewer'
    BY <1>2, <1>3, <1>4, <2>1 DEF InsertsAlone, RowsAreNewer
  <2> QED BY <2>2, <2>3
<1> QED BY <1>1, <1>5, <1>6, <1>7

\* A store's statement: its call writes what it holds, the others stay.
Stores(c) ==
  /\ UNCHANGED <<now, rotates, issued, live, mode, fresh, seen>>
  /\ pc[c] = "storeWrite" /\ stored'[c]
  /\ pc'[c] = IF mode[c] = "login" THEN "done" ELSE "expiry"
  /\ \A d \in Calls \ {c} : pc'[d] = pc[d] /\ stored'[d] = stored[d]
  /\ fresh[c] \in Row

\* A store writes the last grant, or tokens without a refresh token; it inserts beside
\* rows only if those have none.
LEMMA StoresKeepsGrants ==
  ASSUME TokenInv, GrantInv, NEW c \in Calls, Stores(c),
         \A r \in rows' : \/ r.refresh = fresh[c].refresh /\ r.exp = fresh[c].exp
                          \/ r \in rows /\ seen[c] = NoRow,
         seen[c] # NoRow /\ rows = {} => rows' = {}
  PROVE  GrantInv'
<1> USE OAuthAssumption DEF GrantInv, OneLine, Stores
<1>1. Logins' = Logins /\ \A d \in Calls : stored[d] => stored'[d]
  BY DEF Logins
<1>2. fresh[c] # NoRow /\ fresh[c].exp \in Nat \cup {NoTime}
  BY DEF Row
<1>3. CallsBegin' /\ ReckonedBefore' /\ RowsAreReckoned'
  <2>1. CallsBegin' /\ ReckonedBefore'
    BY <1>2 DEF CallsBegin, ReckonedBefore
  <2>2. RowsAreReckoned'
    BY <1>1 DEF RowsAreReckoned
  <2> QED BY <2>1, <2>2
<1>4. rotates' => TokensAreOwn'
  BY DEF TokensAreOwn, Has
<1>5. ASSUME rotates', OneLogin' PROVE OneLine'
  <2>1. rotates /\ OneLogin
    BY <1>1, <1>5 DEF OneLogin
  <2>2. NothingBeforeLogin' /\ LastIsLive' /\ LaterEndsLater'
    BY <1>1, <2>1 DEF NothingBeforeLogin, LastIsLive, LaterEndsLater, Has
  <2>3. /\ fresh[c].refresh # NoToken => fresh[c].refresh \in live /\ fresh[c].refresh = issued
        /\ fresh[c].refresh = NoToken => live = {}
    BY <1>2, <2>1 DEF LastIsLive, TokenInv, PendingIsFresh, Pending
  <2>4. InsertsAlone'
    <3> SUFFICES ASSUME NEW d \in Calls, pc'[d] = "storeWrite", seen[d] = NoRow,
                        fresh[d].refresh # NoToken, rows' # {}
                 PROVE  FALSE
      BY DEF InsertsAlone
    <3>1. d # c /\ pc[d] = "storeWrite" /\ rows = {}
      BY <2>1 DEF InsertsAlone
    <3>2. fresh[d].refresh \in live /\ fresh[d].refresh = issued
      BY <2>1, <3>1 DEF LastIsLive, TokenInv, PendingIsFresh, Pending
    <3>3. fresh[c].refresh = fresh[d].refresh
      BY <2>3, <3>2
    <3> QED BY <2>1, <3>1, <3>3 DEF TokenInv, PendingIsFresh, Pending
  <2>5. RowsAreNewer'
    <3> SUFFICES ASSUME NEW d \in Calls, pc'[d] = "expiry", NEW r \in rows', r.refresh # NoToken
                 PROVE  fresh[d].refresh <= r.refresh
      BY DEF RowsAreNewer
    <3>1. fresh[d].refresh \in 1..issued /\ issued \in Nat
      <4>1. fresh[d] \in Row /\ fresh[d] # NoRow /\ mode[d] # "login"
        BY <1>2 DEF TokenInv, TypeOK, CallsBegin, Row
      <4> QED BY <2>1, <4>1 DEF TokenInv, TypeOK, AllKnown, Known, CallsBegin
    <3>2. CASE r.refresh = fresh[c].refresh
      BY <2>3, <3>1, <3>2
    <3>3. CASE r \in rows /\ seen[c] = NoRow
      <4>1. fresh[c].refresh = NoToken
        BY <2>1, <3>3 DEF InsertsAlone
      <4>2. d # c
        BY <1>2, <4>1 DEF CallsBegin
      <4> QED BY <2>1, <3>3, <4>2 DEF RowsAreNewer
    <3> QED BY <3>2, <3>3
  <2>6. RowsKeepTheirReckoning'
    <3> SUFFICES ASSUME NEW r \in rows', r.refresh # NoToken
                 PROVE  \E d \in Calls :
                          /\ stored'[d] /\ fresh[d].refresh = r.refresh
                          /\ fresh[d].exp # NoTime => r.exp # NoTime /\ r.exp <= fresh[d].exp
      BY DEF RowsKeepTheirReckoning
    <3>1. CASE r.refresh = fresh[c].refresh /\ r.exp = fresh[c].exp
      BY <1>2, <3>1
    <3>2. CASE r \in rows
      BY <1>1, <2>1, <3>2 DEF RowsKeepTheirReckoning
    <3> QED BY <3>1, <3>2
  <2> QED BY <2>2, <2>4, <2>5, <2>6
<1> QED BY <1>1, <1>3, <1>4, <1>5

\* The two statements of a store.
LEMMA WriteKeepsGrants ==
  ASSUME TokenInv, GrantInv, NEW c \in Calls, StoreUpdates(c) \/ StoreInserts(c)
  PROVE  GrantInv'
<1>1. Stores(c)
  BY DEF StoreUpdates, StoreInserts, StoreEnds, Go, Stores, external, TokenInv, TypeOK
<1>2. \A r \in rows' : \/ r.refresh = fresh[c].refresh /\ r.exp = fresh[c].exp
                       \/ r \in rows /\ seen[c] = NoRow
  BY DEF StoreUpdates, StoreInserts
<1>3. seen[c] # NoRow /\ rows = {} => rows' = {}
  BY DEF StoreUpdates, StoreInserts
<1> QED BY <1>1, <1>2, <1>3, StoresKeepsGrants

\* updateTokenExpiry writes what an earlier call reckoned than the one whose grant it
\* finds in the row, or the same.
LEMMA ExpiryKeepsGrants ==
  ASSUME TokenInv, GrantInv, NEW c \in Calls, ExpiryWrites(c)
  PROVE  GrantInv'
<1> USE OAuthAssumption DEF GrantInv, OneLine, external
<1>1. /\ UNCHANGED <<now, rotates, issued, live, mode, fresh, seen, stored>>
      /\ pc[c] = "expiry" /\ pc'[c] = "done"
      /\ \A d \in Calls \ {c} : pc'[d] = pc[d]
  BY DEF ExpiryWrites, Go, TokenInv, TypeOK
<1>2. \A q \in rows' : \E r \in rows : q.refresh = r.refresh /\ q.exp = fresh[c].exp
  BY DEF ExpiryWrites
<1>3. Logins' = Logins
  BY <1>1 DEF Logins
<1>4. CallsBegin' /\ ReckonedBefore'
  BY <1>1 DEF CallsBegin, ReckonedBefore
<1>5. RowsAreReckoned'
  BY <1>1, <1>2 DEF RowsAreReckoned, CallsBegin
<1>6. rotates' => TokensAreOwn'
  BY <1>1 DEF TokensAreOwn, Has
<1>7. ASSUME rotates', OneLogin' PROVE OneLine'
  <2>1. rotates /\ OneLogin
    BY <1>1, <1>3, <1>7 DEF OneLogin
  <2>2. NothingBeforeLogin' /\ LastIsLive' /\ LaterEndsLater'
    BY <1>1, <1>3, <2>1 DEF NothingBeforeLogin, LastIsLive, LaterEndsLater, Has
  <2>3. InsertsAlone' /\ RowsAreNewer'
    BY <1>1, <1>2, <2>1 DEF InsertsAlone, RowsAreNewer
  <2>4. RowsKeepTheirReckoning'
    <3> SUFFICES ASSUME NEW q \in rows', q.refresh # NoToken
                 PROVE  \E d \in Calls :
                          /\ stored[d] /\ fresh[d].refresh = q.refresh
                          /\ fresh[d].exp # NoTime => q.exp # NoTime /\ q.exp <= fresh[d].exp
      BY <1>1 DEF RowsKeepTheirReckoning
    <3>1. PICK r \in rows : q.refresh = r.refresh /\ q.exp = fresh[c].exp
      BY <1>2
    <3>2. PICK d \in Calls : stored[d] /\ fresh[d].refresh = r.refresh
      BY <2>1, <3>1 DEF RowsKeepTheirReckoning
    <3>3. /\ fresh[c] # NoRow /\ fresh[c].exp # NoTime /\ fresh[c].refresh # NoToken
          /\ fresh[d] # NoRow /\ fresh[c] \in Row /\ fresh[d] \in Row
      BY <1>1, <3>2 DEF CallsBegin, TokenInv, TypeOK
    <3>4. /\ fresh[c].refresh \in Nat /\ fresh[d].refresh \in Nat /\ fresh[c].exp \in Nat
          /\ fresh[d].exp \in Nat \cup {NoTime}
      BY <3>1, <3>2, <3>3 DEF Row
    <3>5. fresh[c].refresh <= fresh[d].refresh
      BY <1>1, <2>1, <3>1, <3>2 DEF RowsAreNewer
    <3>6. Has(c, fresh[c].refresh) /\ Has(d, fresh[d].refresh)
      BY <3>1, <3>2, <3>3 DEF Has
    <3>7. fresh[d].exp # NoTime => fresh[c].exp <= fresh[d].exp
      <4>1. CASE fresh[c].refresh = fresh[d].refresh
        BY <2>1, <3>4, <3>6, <4>1 DEF TokensAreOwn
      <4>2. CASE fresh[c].refresh < fresh[d].refresh
        BY <2>1, <3>3, <3>4, <3>6, <4>2 DEF LaterEndsLater
      <4> QED BY <3>4, <3>5, <4>1, <4>2
    <3> QED BY <3>1, <3>2, <3>3, <3>7
  <2> QED BY <2>2, <2>3, <2>4
<1> QED BY <1>3, <1>4, <1>5, <1>6, <1>7

\* Every step keeps the order of the grants.
LEMMA GrantStep == TokenInv /\ GrantInv /\ [Next]_vars => GrantInv'
<1> SUFFICES ASSUME TokenInv, GrantInv, [Next]_vars PROVE GrantInv'
  OBVIOUS
<1>1. TypeOK
  BY DEF TokenInv
<1>2. ASSUME NEW c \in Calls,
             \/ Login(c) \/ EnsureAnswers(c) \/ EnsureRefreshes(c)
             \/ Refresh(c) \/ Store(c) \/ RemoveTokens(c) \/ RemoveFails(c)
      PROVE  GrantInv'
  BY <1>1, <1>2, QuietDoes, QuietKeepsGrants, ExchangeKeepsGrants, LoginKeepsGrants,
     ReckoningKeepsGrants, SelectKeepsGrants, WriteKeepsGrants, ExpiryKeepsGrants
  DEF Login, Refresh, Store
<1>3. ASSUME Disconnect \/ CleanupExpiredTokens \/ Tick \/ UNCHANGED vars PROVE GrantInv'
  BY <1>1, <1>3, OthersAreQuiet, QuietKeepsGrants
<1> QED BY <1>2, <1>3 DEF Next

\* Two members of a set are more than one.
LEMMA AtMostOne ==
  ASSUME NEW S, IsFiniteSet(S), Cardinality(S) <= 1, NEW c \in S, NEW d \in S
  PROVE  c = d
<1> SUFFICES ASSUME c # d PROVE FALSE
  OBVIOUS
<1>1. Cardinality({c, d}) = 2 /\ {c, d} \subseteq S
  <2>1. IsFiniteSet({d}) /\ Cardinality({d}) = 1
    BY FS_Singleton
  <2>2. {d} \cup {c} = {c, d} /\ c \notin {d}
    OBVIOUS
  <2> QED BY <2>1, <2>2, FS_AddElement
<1>2. Cardinality({c, d}) <= Cardinality(S)
  BY <1>1, FS_Subset
<1> QED BY <1>1, <1>2, FS_CardinalityType

\* Whatever the provider and however many logins, each expiry in the table is one that
\* a call reckoned which has stored its tokens; with a provider that rotates refresh
\* tokens and a single login it is never later than what the call reckoned that got the
\* row's own tokens, however refreshes, lost answers, failed statements, removals and
\* late expiry writes interleave.
THEOREM ExpiriesAreReckonedAlways == Spec => []ExpiriesAreReckoned
<1>1. GrantInv => ExpiriesAreReckoned
  <2> SUFFICES ASSUME GrantInv PROVE ExpiriesAreReckoned
    OBVIOUS
  <2>1. ASSUME rotates, Cardinality(Logins) <= 1 PROVE RowsKeepTheirReckoning
    <3>1. OneLogin
      BY <2>1, AtMostOne DEF GrantInv, OneLogin
    <3> QED BY <2>1, <3>1 DEF GrantInv, OneLine
  <2> QED BY <2>1 DEF ExpiriesAreReckoned, GrantInv, RowsAreReckoned, RowsKeepTheirReckoning
<1> QED BY <1>1, TokenInit, TokenStep, GrantInit, GrantStep, PTL DEF Spec

-----------------------------------------------------------------------------
(* The sessions of logins.                                                     *)

\* What may be shown or written back as session s: each of its tools was granted or
\* claimed by a client, and where no client touched the login it names one account,
\* which is among its tools.
Sound(x, s) ==
  /\ x.tools \subseteq granted \cup claimed[s]
  /\ claimed[s] = {} => x.userId = x.user /\ (x.user # NoUser => x.user \in x.tools)

\* What makes the properties inductive: whatever a request has read and may write back
\* is sound as the session it works on, and a login that has stored its tokens has had
\* its provider granted.
Carried ==
  \A c \in Calls :
    /\ step[c] # "idle" /\ kind[c] \in {"login", "disconnect"} => Sound(snap[c], sid[c])
    /\ step[c] = "write" => Sound(merge[c], sid[c])
    /\ kind[c] = "login" /\ step[c] \in {"reread", "update", "write"} => prov[c] \in granted

SessionsAreSound == \A s \in L!Sessions : Sound(sessions[s], s)

LoginInv == L!LoginTypeOK /\ Carried /\ SessionsAreSound

\* A session that exists is sound.
LEMMA ExistingIsSound ==
  ASSUME LoginInv, NEW s, L!Exists(s)
  PROVE  s \in SessionIds /\ sessions[s] \in L!Session /\ Sound(sessions[s], s)
  BY DEF LoginInv, SessionsAreSound, L!LoginTypeOK, L!Sessions, L!Exists

\* A login and a disconnect merge a sound session into a sound one.
LEMMA MergedIsSound ==
  ASSUME LoginInv, NEW c \in Calls, step[c] = "write", kind[c] \in {"login", "disconnect"}
  PROVE  L!Merged(c) \in L!Session /\ Sound(L!Merged(c), sid[c])
<1>1. /\ merge[c] \in L!Session /\ Sound(merge[c], sid[c])
      /\ snap[c] \in L!Session /\ Sound(snap[c], sid[c])
  BY DEF LoginInv, L!LoginTypeOK, Carried
<1>2. CASE kind[c] = "login"
  <2>1. prov[c] \in granted /\ granted \subseteq Providers
    BY <1>2 DEF LoginInv, L!LoginTypeOK, Carried
  <2> QED BY <2>1, <1>1, <1>2 DEF L!Merged, L!Session, Sound
<1>3. CASE kind[c] = "disconnect"
  BY <1>1, <1>3 DEF L!Merged, L!Session, Sound
<1> QED BY <1>2, <1>3

\* A new session is sound, whichever it is.
LEMMA NewIsSound ==
  L!NewSession \in L!Session /\ \A s \in SessionIds : Sound(L!NewSession, s)
  BY DEF L!NewSession, L!Session, Sound

\* A client's body over a sound session is a session, sound once its claims are noted.
LEMMA PutIsSound ==
  ASSUME NEW x \in L!Session, NEW s \in SessionIds, Sound(x, s), NEW body \in Bodies,
         LoginInv, granted' = granted, claimed' = [claimed EXCEPT ![s] = @ \cup L!Claims(body)]
  PROVE  L!Put(x, body) \in L!Session /\ Sound(L!Put(x, body), s)'
<1>1. body \in L!Body
  BY BodiesAssumption
<1>2. claimed'[s] = claimed[s] \cup L!Claims(body)
  BY DEF LoginInv, L!LoginTypeOK
<1>3. L!Put(x, body) \in L!Session
  BY <1>1 DEF L!Body, L!Put, L!Session
<1>4. L!Put(x, body).tools \subseteq granted' \cup claimed'[s]
  BY <1>1, <1>2 DEF L!Put, L!Claims, Sound
<1>5. ASSUME claimed'[s] = {} PROVE L!Put(x, body).userId = x.userId
        /\ L!Put(x, body).user = x.user /\ L!Put(x, body).tools = x.tools /\ claimed[s] = {}
  <2>1. L!Claims(body) = {} /\ claimed[s] = {}
    BY <1>2, <1>5
  <2>2. body.userId = Kept /\ body.user = Kept /\ body.tools = Kept
    BY <2>1 DEF L!Claims
  <2> QED BY <2>1, <2>2 DEF L!Put
<1>6. claimed'[s] = {} => /\ L!Put(x, body).userId = L!Put(x, body).user
                          /\ L!Put(x, body).user # NoUser => L!Put(x, body).user \in L!Put(x, body).tools
  BY <1>5 DEF Sound
<1> QED BY <1>3, <1>4, <1>6 DEF Sound

\* The claims of a body are of providers, or NoUser.
LEMMA ClaimsAreTyped ==
  ASSUME NEW body \in Bodies
  PROVE  L!Claims(body) \subseteq Providers \cup {NoUser}
  BY BodiesAssumption DEF L!Body, L!Claims

\* The first state is sound.
LEMMA LoginInit == L!Init => LoginInv
  BY DEF L!Init, LoginInv, SessionsAreSound, L!LoginTypeOK, Carried, L!Sessions, L!Kinds, L!Steps

\* A request of the sessions API reads nothing as it begins.
LEMMA ManagingKeeps ==
  ASSUME LoginInv, NEW c \in Calls, NEW k \in {"post", "patch", "delete"}, NEW s \in SessionIds,
         NEW next \in {"update", "save", "delete"}, L!Manages(c, k, s, next),
         next = "update" => k \in {"post", "patch"}
  PROVE  LoginInv'
<1>1. L!LoginTypeOK'
  BY DEF L!Manages, L!Begins, L!Go, LoginInv, L!LoginTypeOK, L!Kinds, L!Steps, L!store, L!browser
<1>2. Carried'
  BY DEF L!Manages, L!Begins, L!Go, LoginInv, L!LoginTypeOK, Carried, Sound, L!store
<1>3. SessionsAreSound'
  BY DEF L!Manages, LoginInv, SessionsAreSound, L!Sessions, Sound, L!store
<1> QED BY <1>1, <1>2, <1>3 DEF LoginInv

\* A client's body that is written keeps everything sound: what it claims is noted.
LEMMA BodyKeeps ==
  ASSUME LoginInv, NEW c \in Calls, NEW body \in Bodies, NEW x \in L!Session,
         sid[c] \in SessionIds, Sound(x, sid[c]), step[c] \in {"write", "save"},
         sessions' = [sessions EXCEPT ![sid[c]] = L!Put(x, body)],
         L!Claim(c, body), L!Go(c, "done"), merge' \in {merge, [merge EXCEPT ![c] = NoSession]},
         UNCHANGED <<tokens, granted, L!browser, kind, prov, sid, snap, faults>>
  PROVE  LoginInv'
<1>1. claimed' = [claimed EXCEPT ![sid[c]] = @ \cup L!Claims(body)]
  BY DEF L!Claim
<1>2. L!Put(x, body) \in L!Session /\ Sound(L!Put(x, body), sid[c])'
  BY <1>1, PutIsSound
<1>3. L!Claims(body) \subseteq Providers \cup {NoUser}
  BY ClaimsAreTyped
<1>4. \A s \in SessionIds : claimed[s] \subseteq claimed'[s]
  BY <1>1 DEF LoginInv, L!LoginTypeOK
<1>5. \A y, s : s \in SessionIds /\ Sound(y, s) => Sound(y, s)'
  BY <1>4 DEF Sound
<1> HIDE DEF Sound
<1>6. L!LoginTypeOK'
  BY <1>1, <1>2, <1>3 DEF L!Go, L!browser, LoginInv, L!LoginTypeOK, L!Kinds, L!Steps
<1>7. Carried'
  BY <1>5 DEF L!Go, LoginInv, L!LoginTypeOK, Carried
<1>8. SessionsAreSound'
  BY <1>2, <1>5 DEF LoginInv, L!LoginTypeOK, SessionsAreSound, L!Sessions
<1> QED BY <1>6, <1>7, <1>8 DEF LoginInv

\* Every handler step keeps what sessions and requests claim sound.
LEMMA LoginStep == LoginInv /\ [L!Next]_(L!vars) => LoginInv'
<1> SUFFICES ASSUME LoginInv, [L!Next]_(L!vars) PROVE LoginInv'
  OBVIOUS
<1> USE NewIsSound
<1>1. ASSUME NEW c \in Calls, NEW p \in Providers, L!CallbackBegins(c, p) PROVE LoginInv'
  BY <1>1 DEF L!CallbackBegins, L!Begins, L!Go, L!Exists, LoginInv, SessionsAreSound,
              L!LoginTypeOK, Carried, L!Sessions, Sound, L!Kinds, L!Steps, L!browser
<1>2. ASSUME NEW c \in Calls, L!Exchange(c) PROVE LoginInv'
  BY <1>2 DEF L!Exchange, L!Go, LoginInv, SessionsAreSound, L!LoginTypeOK, Carried, L!Sessions,
              Sound, L!Steps, L!store, L!browser
<1>3. ASSUME NEW c \in Calls, L!LoginFails(c) PROVE LoginInv'
  BY <1>3 DEF L!LoginFails, L!Fault, L!Go, LoginInv, SessionsAreSound, L!LoginTypeOK, Carried,
              L!Sessions, Sound, L!Steps, L!store, L!browser
<1>4. ASSUME NEW c \in Calls, L!StoreTokens(c) PROVE LoginInv'
  BY <1>4 DEF L!StoreTokens, L!Go, LoginInv, SessionsAreSound, L!LoginTypeOK, Carried, L!Sessions,
              Sound, L!Steps, L!browser
<1>5. ASSUME NEW c \in Calls, L!Reread(c) PROVE LoginInv'
  BY <1>5 DEF L!Reread, L!Go, L!Exists, LoginInv, SessionsAreSound, L!LoginTypeOK, Carried,
              L!Sessions, Sound, L!Steps, L!store, L!browser
<1>6. ASSUME NEW c \in Calls, L!LoginResponds(c) PROVE LoginInv'
  BY <1>6 DEF L!LoginResponds, L!Go, LoginInv, SessionsAreSound, L!LoginTypeOK, Carried,
              L!Sessions, Sound, L!Steps, L!store
<1>7. ASSUME NEW c \in Calls, NEW p \in Providers, L!DisconnectBegins(c, p) PROVE LoginInv'
  <2>1. cookie \in SessionIds /\ sessions[cookie] \in L!Session /\ Sound(sessions[cookie], cookie)
    BY <1>7, ExistingIsSound DEF L!DisconnectBegins
  <2>2. L!LoginTypeOK'
    BY <1>7, <2>1 DEF L!DisconnectBegins, L!Begins, L!Go, LoginInv, L!LoginTypeOK, L!Kinds,
                      L!Steps, L!store, L!browser
  <2>3. Carried'
    BY <1>7, <2>1 DEF L!DisconnectBegins, L!Begins, L!Go, LoginInv, L!LoginTypeOK, Carried, Sound,
                      L!store
  <2>4. SessionsAreSound'
    BY <1>7 DEF L!DisconnectBegins, LoginInv, SessionsAreSound, L!Sessions, Sound, L!store
  <2> QED BY <2>2, <2>3, <2>4 DEF LoginInv
<1>8. ASSUME NEW c \in Calls, L!DisconnectRemoves(c) PROVE LoginInv'
  BY <1>8 DEF L!DisconnectRemoves, L!Go, LoginInv, SessionsAreSound, L!LoginTypeOK, Carried,
              L!Sessions, Sound, L!Steps, L!browser
<1>9. ASSUME NEW c \in Calls, L!DisconnectFails(c) PROVE LoginInv'
  BY <1>9 DEF L!DisconnectFails, L!Fault, L!Go, LoginInv, SessionsAreSound, L!LoginTypeOK, Carried,
              L!Sessions, Sound, L!Steps, L!store, L!browser
<1>10. ASSUME NEW c \in Calls, NEW s \in SessionIds,
              L!PostBegins(c, s) \/ L!PatchBegins(c, s) \/ L!DeleteBegins(c, s)
       PROVE  LoginInv'
  BY <1>10, ManagingKeeps DEF L!PostBegins, L!PatchBegins, L!DeleteBegins
<1>11. ASSUME NEW c \in Calls, NEW body \in Bodies, L!BodyWrites(c, body) PROVE LoginInv'
  <2>1. merge[c] \in L!Session /\ Sound(merge[c], sid[c]) /\ sid[c] \in SessionIds
    BY <1>11 DEF L!BodyWrites, LoginInv, L!LoginTypeOK, Carried
  <2> QED BY <1>11, <2>1, BodyKeeps DEF L!BodyWrites, L!Forget
<1>12. ASSUME NEW c \in Calls, NEW body \in Bodies, L!PostSaves(c, body) PROVE LoginInv'
  <2>1. sid[c] \in SessionIds
    BY <1>12 DEF L!PostSaves, LoginInv, L!LoginTypeOK
  <2> QED BY <1>12, <2>1, BodyKeeps DEF L!PostSaves
<1>13. ASSUME NEW c \in Calls, L!DeleteRuns(c) PROVE LoginInv'
  BY <1>13 DEF L!DeleteRuns, L!Go, LoginInv, SessionsAreSound, L!LoginTypeOK, Carried, L!Sessions,
               Sound, L!Steps, L!browser
<1>14. ASSUME NEW c \in Calls, L!UpdateReads(c) PROVE LoginInv'
  <2> DEFINE m == IF L!Exists(sid[c]) THEN sessions[sid[c]] ELSE L!NewSession
  <2>1. sid[c] \in SessionIds
    BY <1>14 DEF L!UpdateReads, LoginInv, L!LoginTypeOK
  <2>2. m \in L!Session /\ Sound(m, sid[c])
    BY <2>1, ExistingIsSound
  <2>3. kind[c] \in {"login", "disconnect", "post", "patch"}
    BY <1>14 DEF L!UpdateReads, LoginInv, L!LoginTypeOK
  <2>4. merge' = [merge EXCEPT ![c] = m]
    BY <1>14 DEF L!UpdateReads
  <2> HIDE DEF m
  <2>5. L!LoginTypeOK'
    BY <1>14, <2>2, <2>3, <2>4
    DEF L!UpdateReads, L!Go, LoginInv, L!LoginTypeOK, L!Steps, L!store, L!browser
  <2>6. Carried'
    BY <1>14, <2>2, <2>4 DEF L!UpdateReads, L!Go, LoginInv, L!LoginTypeOK, Carried, Sound, L!store
  <2>7. SessionsAreSound'
    BY <1>14 DEF L!UpdateReads, LoginInv, SessionsAreSound, L!Sessions, Sound, L!store
  <2> QED BY <2>5, <2>6, <2>7 DEF LoginInv
<1>15. ASSUME NEW c \in Calls, L!UpdateWrites(c) PROVE LoginInv'
  <2>1. L!Merged(c) \in L!Session /\ Sound(L!Merged(c), sid[c])
    BY <1>15, MergedIsSound DEF L!UpdateWrites
  <2>2. /\ sessions' = [sessions EXCEPT ![sid[c]] = L!Merged(c)]
        /\ granted' = granted /\ claimed' = claimed
    BY <1>15 DEF L!UpdateWrites
  <2> QED BY <2>1, <2>2, <1>15
          DEF L!UpdateWrites, L!Forget, L!Go, LoginInv, SessionsAreSound, L!LoginTypeOK, Carried,
              L!Sessions, Sound, L!Steps, L!browser
<1>16. ASSUME NEW p \in Providers, L!Initiate(p) PROVE LoginInv'
  BY <1>16 DEF L!Initiate, LoginInv, SessionsAreSound, L!LoginTypeOK, Carried, L!Sessions, Sound,
               L!store, L!calls
<1>17. ASSUME NEW s \in SessionIds, L!CreateSession(s) PROVE LoginInv'
  BY <1>17 DEF L!CreateSession, LoginInv, SessionsAreSound, L!LoginTypeOK, Carried, L!Sessions,
               Sound, L!browser, L!calls
<1>18. ASSUME NEW s \in SessionIds, L!Vanish(s) PROVE LoginInv'
  BY <1>18 DEF L!Vanish, L!Fault, LoginInv, SessionsAreSound, L!LoginTypeOK, Carried, L!Sessions,
               Sound, L!browser, L!calls
<1>19. CASE UNCHANGED L!vars
  BY <1>19 DEF L!vars, L!store, L!browser, L!calls, LoginInv, SessionsAreSound, L!LoginTypeOK,
               Carried, L!Sessions, Sound
<1> QED
  BY <1>1, <1>2, <1>3, <1>4, <1>5, <1>6, <1>7, <1>8, <1>9, <1>10, <1>11, <1>12, <1>13, <1>14,
     <1>15, <1>16, <1>17, <1>18, <1>19
  DEF L!Next, L!Login, L!Leave, L!Manage

\* Every reachable state is sound.
LEMMA LoginAlways == L!Spec => []LoginInv
  BY LoginInit, LoginStep, PTL DEF L!Spec

\* However logins, disconnects and the sessions API overlap, a session whose login no
\* client's body has touched names one account, and lists its tool.
THEOREM UserIsListedAlways == L!Spec => []L!UserIsListed
<1>1. LoginInv => L!UserIsListed
  BY DEF LoginInv, SessionsAreSound, L!UserIsListed, L!Untouched, Sound
<1> QED BY <1>1, LoginAlways, PTL

\* However they overlap, no session lists a tool whose tokens were never stored, unless
\* a client's own body put it in that very session.
THEOREM ListedToolsWereGrantedAlways == L!Spec => []L!ListedToolsWereGranted
<1>1. LoginInv => L!ListedToolsWereGranted
  BY DEF LoginInv, SessionsAreSound, L!ListedToolsWereGranted, Sound
<1> QED BY <1>1, LoginAlways, PTL

\* However they overlap, no status route contradicts the other about a session whose
\* login no client's body has touched.
THEOREM StatusesAgreeAlways == L!Spec => []L!StatusesAgree
<1>1. LoginInv => L!StatusesAgree
  <2> SUFFICES ASSUME LoginInv, NEW p \in Providers, L!ProviderStatus(p), L!Untouched(cookie)
               PROVE  /\ L!AuthStatus.authenticated /\ p \in L!AuthStatus.tools
                      /\ \A q \in Providers \ {p} : ~L!ProviderStatus(q)
    BY DEF L!StatusesAgree
  <2>1. L!Exists(cookie) /\ sessions[cookie].userId = p /\ p \in tokens /\ claimed[cookie] = {}
    BY DEF L!ProviderStatus, L!Untouched
  <2>2. Sound(sessions[cookie], cookie)
    BY <2>1, ExistingIsSound
  <2> QED BY <2>1, <2>2, BodiesAssumption DEF L!AuthStatus, L!ProviderStatus, Sound
<1> QED BY <1>1, LoginAlways, PTL

\* The session store's type invariant.
THEOREM LoginTypeOKAlways == L!Spec => []L!LoginTypeOK
<1>1. LoginInv => L!LoginTypeOK
  BY DEF LoginInv
<1> QED BY <1>1, LoginAlways, PTL

-----------------------------------------------------------------------------
(* Beside the token rows, with which it shares no variable, the session store  *)
(* takes its own steps and no others.                                          *)

\* Every step of the composition is one of the store or leaves it alone.
LEMMA StoreRunsAlone == MCSpec => L!Spec
<1>1. MCInit => L!Init
  BY DEF MCInit
<1>2. [MCNext]_<<part, vars, loginVars>> => [L!Next]_(L!vars)
  BY DEF MCNext, loginVars, L!vars, L!store, L!browser, L!calls
<1> QED BY <1>1, <1>2, PTL DEF MCSpec, L!Spec

\* In the composition the session store keeps its type invariant.
THEOREM ComposedTypeOK == MCSpec => []LoginTypeOK
  BY StoreRunsAlone, LoginTypeOKAlways, PTL DEF LoginTypeOK

\* In the composition no session lists a tool whose tokens were never stored and that no
\* client's body put there; where no body touched the login, it lists the account it
\* names, and the status routes agree.
THEOREM ComposedSessionsAreSound == MCSpec => []ListedToolsWereGranted
<1>1. L!UserIsListed /\ L!ListedToolsWereGranted /\ L!StatusesAgree => ListedToolsWereGranted
  BY DEF ListedToolsWereGranted
<1> QED
  BY <1>1, StoreRunsAlone, UserIsListedAlways, ListedToolsWereGrantedAlways, StatusesAgreeAlways, PTL
=============================================================================
