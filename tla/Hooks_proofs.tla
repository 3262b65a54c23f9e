------------------------------ MODULE Hooks_proofs ------------------------------
(***************************************************************************)
(* Proofs about the browser's hooks that MCRequests composes, with their   *)
(* parameters left open: for any number of requests, keys, tools, queries  *)
(* and limits.  Each component has an invariant of its own; the theorems   *)
(* at the end carry them to the composition.                               *)
(***************************************************************************)
EXTENDS MCRequests, KeyOrders_proofs

-----------------------------------------------------------------------------
(* A component has the places v1, v2 ... of MCRequests for its variables; these *)
(* are the names that its module gives them.                                   *)

policy == v1
key == v2
pageEnabled == v3
fetches == v4
pageCalls == v5
shown == v6
error == v7
pageLoading == v8
overlapped == v9
stopped == v10

pollsEnabled == v1
pollCalls == v2
statuses == v3
pollLoading == v4
errors == v5
visible == v6
active == v7
memo == v8
renders == v9
late == v10

fetching == v1
failed == v2
reported == v3
sent == v4

statusNow == v1
logins == v2
statusStored == v3
mounted == v4
statusCache == v5
pending == v6
statusRequests == v7
statusShown == v8
statusLoading == v9
mixed == v10
back == v11

sessionStore == v1
savedId == v2
session == v3
sessionId == v4
sessionLoading == v5
initialized == v6
sessionCalls == v7
nextId == v8
sessionFaults == v9
disturbed == v10

USE DEF policy, key, pageEnabled, fetches, pageCalls, shown, error, pageLoading,
  overlapped, stopped, pollsEnabled, pollCalls, statuses, pollLoading, errors, visible,
  active, memo, renders, late, fetching, failed, reported, sent, statusNow, logins,
  statusStored, mounted, statusCache, pending, statusRequests, statusShown, statusLoading,
  mixed, back, sessionStore, savedId, session, sessionId, sessionLoading, initialized,
  sessionCalls, nextId, sessionFaults, disturbed

\* Which component moves never changes.
LEMMA PartStays == [MCNext]_all => part' = part
  BY DEF MCNext, all

-----------------------------------------------------------------------------
(* Sets of numbers.                                                            *)

\* The highest of a bounded set of numbers is one of it and bounds it.
LEMMA Highest ==
  ASSUME NEW S \in SUBSET Nat, NEW b \in Nat, S # {}, \A n \in S : n <= b
  PROVE  \E m \in S : \A n \in S : m >= n
<1> DEFINE below == {k \in 0..b : \E n \in S : k <= n}
           down == {k \in 1..(b + 1) : k - 1 \in below}
<1>1. \A i \in down, j \in 1..(b + 1) : j <= i => j \in down
  OBVIOUS
<1>2. down \in SUBSET (1..(b + 1)) /\ b + 1 \in Nat
  OBVIOUS
<1> HIDE DEF down
<1>3. down = 1..Cardinality(down) /\ Cardinality(down) \in 0..(b + 1)
  BY <1>1, <1>2, FirstPiece
<1>4. PICK n \in S : n \in Nat /\ n <= b
  OBVIOUS
<1>5. n + 1 \in down
  BY <1>4 DEF down
<1>6. Cardinality(down) \in down /\ Cardinality(down) >= 1
  BY <1>3, <1>5
<1> DEFINE m == Cardinality(down) - 1
<1>7. \A k \in S : k + 1 \in down
  BY DEF down
<1>8. \A k \in S : k <= m
  BY <1>3, <1>7
<1>9. PICK k \in S : m <= k
  BY <1>6 DEF down
<1>10. k = m
  BY <1>3, <1>6, <1>8, <1>9
<1> QED BY <1>8, <1>9, <1>10

\* A set of numbers has a least one.
LEMMA Least ==
  ASSUME NEW S \in SUBSET Nat, S # {}
  PROVE  \E m \in S : \A n \in S : m <= n
<1>1. PICK b \in S : TRUE
  OBVIOUS
<1> DEFINE T == {k \in 0..b : b - k \in S}
<1>2. b \in Nat /\ 0 \in T
  BY <1>1
<1>3. T \in SUBSET Nat /\ T # {} /\ \A n \in T : n <= b
  BY <1>2
<1>4. PICK k \in T : \A n \in T : k >= n
  <2> HIDE DEF T
  <2> QED BY <1>2, <1>3, Highest
<1>5. b - k \in S /\ k \in Nat
  BY <1>3
<1>6. ASSUME NEW n \in S PROVE b - k <= n
  <2>1. CASE n <= b
    <3>1. b - n \in T
      BY <1>2, <2>1
    <3>2. k >= b - n
      BY <1>4, <3>1
    <3> QED BY <1>2, <1>5, <3>2
  <2>2. CASE ~(n <= b)
    BY <1>2, <1>5, <2>2
  <2> QED BY <2>1, <2>2
<1> QED BY <1>5, <1>6

-----------------------------------------------------------------------------
(* The hooks that show one answer (app/components/hooks/useDataFetching.ts,    *)
(* useRateLimit.ts, useToolStatus.ts and useWidgetTelemetry.ts).               *)

PageCall == [key : PageKeys, nr : Nat \ {0}, aborted : BOOLEAN]
PageAnswer == [key : PageKeys, nr : Nat \ {0}]

\* null is no answer.
PagesNone == None \notin PageAnswer

\* The requests whose answers will be shown.
Live == {c \in Requests : pageCalls[c] # Pages!Free /\ ~pageCalls[c].aborted}

\* The hook neither aborts requests nor asks one at a time.
Late == policy # "data" /\ overlapped

PageShapes ==
  /\ policy \in {"data", "limit", "list"} /\ key \in PageKeys
  /\ fetches \in Nat
  /\ shown \in PageAnswer \cup {None}
  /\ pageCalls \in [Requests -> PageCall \cup {Pages!Free}]

\* Requests have been numbered as they were made.
Numbered ==
  /\ \A c \in Requests : pageCalls[c].nr <= fetches
  /\ shown # None => shown.nr <= fetches

\* What a hook that aborts waits for, or one whose requests did not overlap, is the
\* one answer it asked for last, unless it was disabled before the key changed.
OneLive ==
  ~Late => /\ \A c, d \in Live : c = d
           /\ \A c \in Live : pageCalls[c].key = key \/ ~pageEnabled

\* What the two properties say of what is live.
Loads == pageLoading => Live # {}
Shows ==
  shown # None =>
    /\ \/ shown.key = key \/ error \/ stopped \/ ~pageEnabled \/ Late
       \/ \E c \in Live : pageCalls[c].key = key
    /\ policy = "data" => \A c \in Live : pageCalls[c].nr > shown.nr

PagesInv == PageShapes /\ Numbered /\ OneLive /\ Loads /\ Shows

\* A request under way has a number.
LEMMA BusyIsNumbered ==
  ASSUME PageShapes
  PROVE  /\ \A c \in Requests : pageCalls[c] # Pages!Free => pageCalls[c] \in PageCall
         /\ \A c \in Requests : pageCalls[c].nr \in Nat
         /\ Pages!Free \notin PageCall
  BY DEF PageShapes, PageCall, Pages!Free

\* A new request is the only live one, unless the hook is late.
LEMMA FetchKeeps ==
  ASSUME PagesNone, PagesInv, Pages!Fetch(key'), key' \in PageKeys,
         policy' = policy, shown' = shown
  PROVE  PagesInv'
<1> DEFINE new == [key |-> key', nr |-> fetches + 1, aborted |-> FALSE]
<1>1. PICK c \in Requests : c \notin Pages!Busy /\ pageCalls' = Pages!Make(c, key')
  BY DEF Pages!Fetch, Pages!Busy
<1>2. /\ fetches' = fetches + 1 /\ pageLoading' = TRUE /\ error' = FALSE /\ stopped' = FALSE
      /\ overlapped' = (overlapped \/ Pages!Busy # {})
  BY DEF Pages!Fetch
<1>3. new \in PageCall /\ new # Pages!Free /\ ~new.aborted /\ new.key = key' /\ new.nr = fetches + 1
  BY BusyIsNumbered DEF PageCall, PagesInv, PageShapes, Pages!Free
<1>4. pageCalls'[c] = new
  BY <1>1 DEF Pages!Make
<1>5. \A d \in Requests : d # c =>
        /\ pageCalls'[d] \in PageCall \cup {Pages!Free}
        /\ pageCalls'[d].nr = pageCalls[d].nr
        /\ pageCalls'[d] # Pages!Free /\ ~pageCalls'[d].aborted =>
             d \in Live /\ policy # "data" /\ pageCalls'[d] = pageCalls[d]
  <2> TAKE d \in Requests
  <2> HAVE d # c
  <2>1. pageCalls'[d] = IF policy = "data" THEN Pages!Aborted(pageCalls[d]) ELSE pageCalls[d]
    BY <1>1 DEF Pages!Make
  <2>2. CASE pageCalls[d] = Pages!Free
    BY <2>1, <2>2 DEF Pages!Aborted
  <2>3. CASE pageCalls[d] # Pages!Free
    <3>1. pageCalls[d] \in PageCall
      BY <2>3, BusyIsNumbered DEF PagesInv
    <3>2. /\ [pageCalls[d] EXCEPT !.aborted = TRUE] \in PageCall
          /\ [pageCalls[d] EXCEPT !.aborted = TRUE].aborted
          /\ [pageCalls[d] EXCEPT !.aborted = TRUE].nr = pageCalls[d].nr
      BY <3>1 DEF PageCall
    <3> QED BY <2>1, <2>3, <3>1, <3>2 DEF Pages!Aborted, Live
  <2> QED BY <2>2, <2>3
<1> HIDE DEF new
<1>6. pageCalls' = [d \in Requests |-> pageCalls'[d]]
  BY <1>1 DEF Pages!Make
<1>7. PageShapes'
  BY <1>2, <1>3, <1>4, <1>5, <1>6 DEF PagesInv, PageShapes
<1>8. Numbered'
  <2>1. \A d \in Requests : pageCalls'[d].nr <= fetches + 1
    <3> TAKE d \in Requests
    <3>1. CASE d = c
      BY <3>1, <1>3, <1>4 DEF PagesInv, PageShapes
    <3>2. CASE d # c
      BY <3>2, <1>5, BusyIsNumbered DEF PagesInv, PageShapes, Numbered
    <3> QED BY <3>1, <3>2
  <2>2. shown # None => shown.nr <= fetches + 1
    BY DEF PagesInv, PageShapes, Numbered, PageAnswer
  <2> QED BY <1>2, <2>1, <2>2 DEF Numbered
<1>9. c \in Live' /\ \A d \in Live' : d = c \/ (d \in Live /\ policy # "data")
  BY <1>3, <1>4, <1>5 DEF Live
<1>10. ~Late' => \A d \in Live' : d = c
  <2>1. Live \subseteq Pages!Busy
    BY DEF Live, Pages!Busy
  <2> QED BY <1>2, <1>9, <2>1 DEF Late
<1>11. OneLive'
  BY <1>3, <1>4, <1>10 DEF OneLive
<1>12. shown # None => shown.nr \in Nat /\ fetches + 1 > shown.nr
  BY DEF PagesInv, PageShapes, Numbered, PageAnswer
<1>13. Loads' /\ Shows'
  BY <1>3, <1>4, <1>9, <1>12 DEF Loads, Shows
<1> QED BY <1>7, <1>8, <1>11, <1>13 DEF PagesInv

\* The end of a request leaves the others.
LEMMA EndKeeps ==
  ASSUME PagesNone, PagesInv, NEW c \in Requests,
         Pages!Arrives(c) \/ Pages!Unsupported(c) \/ Pages!Fails(c)
  PROVE  PagesInv'
<1>1. /\ pageCalls[c] \in PageCall /\ pageCalls' = [pageCalls EXCEPT ![c] = Pages!Free]
      /\ pageLoading' = FALSE
      /\ UNCHANGED <<policy, key, pageEnabled, fetches, overlapped, stopped>>
  BY BusyIsNumbered DEF PagesInv, Pages!Arrives, Pages!Unsupported, Pages!Fails, Pages!Ends
<1>2. Live' = Live \ {c}
  BY <1>1 DEF Live, PagesInv, PageShapes
<1>3. \/ shown' = [key |-> pageCalls[c].key, nr |-> pageCalls[c].nr] /\ error' = error /\ c \in Live
      \/ shown' = None /\ error' = TRUE
      \/ shown' = shown /\ error' = (error \/ c \in Live)
  BY <1>1 DEF Pages!Arrives, Pages!Unsupported, Pages!Fails, Live, PageCall, Pages!Free, Pages!Ends
<1>4. PageShapes'
  BY <1>1, <1>3 DEF PagesInv, PageShapes, PageCall, PageAnswer
<1>5. Numbered'
  <2>1. \A d \in Requests : pageCalls'[d].nr <= fetches
    BY <1>1 DEF PagesInv, PageShapes, Numbered, Pages!Free
  <2>2. shown' # None => shown'.nr <= fetches
    BY <1>3 DEF PagesInv, Numbered
  <2> QED BY <1>1, <2>1, <2>2 DEF Numbered
<1>6. \A d \in Requests : d # c => pageCalls'[d] = pageCalls[d]
  BY <1>1 DEF PagesInv, PageShapes
<1>7. OneLive'
  BY <1>1, <1>2, <1>6 DEF PagesInv, OneLive, Late, Live
<1>8. Loads'
  BY <1>1 DEF Loads, Shows
<1>9. Shows'
  <2>1. CASE shown' = [key |-> pageCalls[c].key, nr |-> pageCalls[c].nr] /\ c \in Live
    BY <1>1, <1>2, <2>1 DEF PagesInv, OneLive, Loads, Shows, Late
  <2>2. CASE shown' = None
    BY <2>2 DEF Loads, Shows
  <2>3. CASE shown' = shown /\ error' = (error \/ c \in Live)
    <3>1. \A d \in Live : d # c => pageCalls'[d] = pageCalls[d]
      BY <1>6 DEF Live
    <3> QED BY <1>1, <1>2, <2>3, <3>1 DEF PagesInv, Loads, Shows, Late
  <2> QED BY <1>3, <2>1, <2>2, <2>3
<1> QED BY <1>4, <1>5, <1>7, <1>8, <1>9 DEF PagesInv

\* Cancelling leaves nothing live, and disabling says so.
LEMMA StopsKeep ==
  ASSUME PagesNone, PagesInv, Pages!Disable \/ Pages!Cancel
  PROVE  PagesInv'
<1>1. CASE Pages!Disable
  <2>1. /\ pageEnabled' = FALSE /\ stopped' = TRUE /\ UNCHANGED <<policy, key, fetches, pageCalls, overlapped>>
        /\ \/ shown' = None /\ error' = FALSE /\ pageLoading' = FALSE
           \/ UNCHANGED <<shown, error, pageLoading>>
    BY <1>1 DEF Pages!Disable
  <2>2. Live' = Live /\ Late' = Late
    BY <2>1 DEF Live, Late
  <2>3. PageShapes' /\ Numbered' /\ OneLive'
    BY <2>1, <2>2 DEF PagesInv, PageShapes, Numbered, OneLive
  <2>4. Loads'
    BY <2>1, <2>2 DEF PagesInv, Loads, Shows
  <2>5. Shows'
    BY <2>1, <2>2 DEF PagesInv, Loads, Shows
  <2> QED BY <2>3, <2>4, <2>5 DEF PagesInv
<1>2. CASE Pages!Cancel
  <2>1. /\ pageCalls' = [c \in Requests |-> Pages!Aborted(pageCalls[c])]
        /\ pageLoading' = FALSE /\ stopped' = TRUE
        /\ UNCHANGED <<policy, key, pageEnabled, fetches, shown, error, overlapped>>
    BY <1>2 DEF Pages!Cancel
  <2>2. \A c \in Requests :
          /\ pageCalls'[c] \in PageCall \cup {Pages!Free}
          /\ pageCalls'[c].nr = pageCalls[c].nr
          /\ pageCalls'[c] = Pages!Free \/ pageCalls'[c].aborted
    <3> TAKE c \in Requests
    <3>1. CASE pageCalls[c] = Pages!Free
      BY <2>1, <3>1 DEF Pages!Aborted
    <3>2. CASE pageCalls[c] # Pages!Free
      <4>1. pageCalls[c] \in PageCall
        BY <3>2, BusyIsNumbered DEF PagesInv
      <4>2. /\ [pageCalls[c] EXCEPT !.aborted = TRUE] \in PageCall
            /\ [pageCalls[c] EXCEPT !.aborted = TRUE].aborted
            /\ [pageCalls[c] EXCEPT !.aborted = TRUE].nr = pageCalls[c].nr
        BY <4>1 DEF PageCall
      <4> QED BY <2>1, <3>2, <4>1, <4>2 DEF Pages!Aborted
    <3> QED BY <3>1, <3>2
  <2>3. Live' = {}
    BY <2>2 DEF Live
  <2>4. PageShapes' /\ Numbered'
    BY <2>1, <2>2 DEF PagesInv, PageShapes, Numbered
  <2>5. OneLive' /\ Loads' /\ Shows'
    BY <2>1, <2>3 DEF OneLive, Loads, Shows
  <2> QED BY <2>4, <2>5 DEF PagesInv
<1> QED BY <1>1, <1>2

\* Every step keeps the invariant.
LEMMA PagesStep ==
  ASSUME PagesNone
  PROVE  PagesInv /\ [Pages!Next]_(Pages!vars) => PagesInv'
<1> SUFFICES ASSUME PagesInv, [Pages!Next]_(Pages!vars) PROVE PagesInv'
  OBVIOUS
<1>1. CASE Pages!Refresh \/ Pages!Enable
  <2>1. key' = key /\ Pages!Fetch(key)
    BY <1>1 DEF Pages!Refresh, Pages!Enable
  <2>2. /\ Pages!Fetch(key') /\ key' \in PageKeys /\ policy' = policy
        /\ shown' = shown
    BY <1>1, <2>1 DEF Pages!Refresh, Pages!Enable, PagesInv, PageShapes
  <2> QED BY <2>2, FetchKeeps
<1>2. CASE Pages!ChangeKey /\ pageEnabled
  <2>1. /\ Pages!Fetch(key') /\ key' \in PageKeys /\ policy' = policy
        /\ shown' = shown
    BY <1>2 DEF Pages!ChangeKey, PagesInv, PageShapes
  <2> QED BY <2>1, FetchKeeps
<1>3. CASE Pages!ChangeKey /\ ~pageEnabled
  <2>1. /\ key' \in PageKeys
        /\ UNCHANGED <<policy, pageEnabled, shown, fetches, pageCalls, pageLoading, error, overlapped, stopped>>
    BY <1>3 DEF Pages!ChangeKey
  <2>2. Live' = Live /\ Late' = Late
    BY <2>1 DEF Live, Late
  <2>3. PageShapes' /\ Numbered' /\ OneLive'
    BY <1>3, <2>1, <2>2 DEF PagesInv, PageShapes, Numbered, OneLive
  <2>4. Loads' /\ Shows'
    BY <1>3, <2>1, <2>2 DEF PagesInv, Loads, Shows
  <2> QED BY <2>3, <2>4 DEF PagesInv
<1>4. CASE Pages!Disable \/ Pages!Cancel
  BY <1>4, StopsKeep
<1>5. CASE \E c \in Requests : Pages!Arrives(c) \/ Pages!Unsupported(c) \/ Pages!Fails(c)
  BY <1>5, EndKeeps
<1>6. CASE UNCHANGED Pages!vars
  BY <1>6 DEF Pages!vars, PagesInv, PageShapes, Numbered, OneLive, Live, Late,
    Loads, Shows
<1> QED BY <1>1, <1>2, <1>3, <1>4, <1>5, <1>6 DEF Pages!Next

\* At the start the first request is under way.
LEMMA PagesStarts == ASSUME PagesNone PROVE Pages!Init => PagesInv
<1> SUFFICES ASSUME Pages!Init PROVE PagesInv
  OBVIOUS
<1>1. PICK c \in Requests : pageCalls = [d \in Requests |->
        IF d = c THEN [key |-> key, nr |-> 1, aborted |-> FALSE] ELSE Pages!Free]
  BY DEF Pages!Init
<1> DEFINE new == [key |-> key, nr |-> 1, aborted |-> FALSE]
<1>2. new \in PageCall /\ new # Pages!Free /\ new.key = key /\ new.nr = 1 /\ ~new.aborted
  BY DEF PageCall, Pages!Init, Pages!Free
<1>3. Pages!Free.nr = 0
  BY DEF Pages!Free
<1> HIDE DEF new
<1>4. /\ pageCalls[c] = new /\ \A d \in Requests : d # c => pageCalls[d] = Pages!Free
      /\ pageCalls = [d \in Requests |-> pageCalls[d]]
  BY <1>1 DEF new
<1>5. PageShapes
  <2>1. \A d \in Requests : pageCalls[d] \in PageCall \cup {Pages!Free}
    BY <1>2, <1>4
  <2>2. pageCalls \in [Requests -> PageCall \cup {Pages!Free}]
    BY <1>4, <2>1
  <2> QED BY <2>2 DEF Pages!Init, PageShapes
<1>9. Numbered
  <2>1. \A d \in Requests : pageCalls[d].nr <= 1
    BY <1>2, <1>3, <1>4
  <2> QED BY <2>1 DEF Pages!Init, Numbered
<1>6. Live = {c}
  BY <1>2, <1>4 DEF Live
<1>7. OneLive
  BY <1>2, <1>4, <1>6 DEF OneLive
<1>8. Loads /\ Shows
  BY <1>6 DEF Pages!Init, Loads, Shows
<1> QED BY <1>5, <1>7, <1>8, <1>9 DEF PagesInv

\* The invariant is what is promised.
LEMMA PagesPromises == PagesInv => Pages!ShownIsTheLastAsked /\ Pages!LoadingEnds
  BY DEF PagesInv, Loads, Shows, Live, Late, Pages!LoadingEnds, Pages!ShownIsTheLastAsked,
    Pages!Busy

\* These hooks move by their own steps.
LEMMA PagesMove ==
  part = "pages" /\ [MCNext]_all => [Pages!Next]_(Pages!vars)
  BY DEF MCNext, MCPlatforms, all, rest1, Pages!vars

-----------------------------------------------------------------------------
(* The queries of a page (app/components/hooks/useToolQueries.ts).             *)

\* null is no message.
QueriesGiven == None \notin Messages

QueriesInv ==
  /\ failed \in [DOMAIN QueryTools -> Messages \cup {None}]
  /\ reported = failed
  /\ sent \in [DOMAIN QueryTools -> Nat]
  /\ \A i \in DOMAIN QueryTools : sent[i] = 0 <=> failed[i] = None

\* Every step keeps the invariant: the effect runs after each change.
LEMMA QueriesStep ==
  ASSUME QueriesGiven
  PROVE  QueriesInv /\ [Queries!Next]_(Queries!vars) => QueriesInv'
<1> SUFFICES ASSUME QueriesInv, [Queries!Next]_(Queries!vars) PROVE QueriesInv'
  OBVIOUS
<1>1. CASE UNCHANGED <<failed, reported, sent>>
  BY <1>1 DEF QueriesInv
<1>2. CASE \E i \in Queries!Queries : Queries!FetchEnds(i)
  <2>1. PICK i \in DOMAIN QueryTools, message \in Messages \cup {None} :
          failed' = [failed EXCEPT ![i] = message] /\ Queries!ReportWidgetError(i, message)
    BY <1>2 DEF Queries!FetchEnds, Queries!Queries
  <2>2. reported' = [reported EXCEPT ![i] = message]
    BY <2>1 DEF Queries!ReportWidgetError
  <2>3. CASE message # None /\ reported[i] # message
    <3>1. sent' = [sent EXCEPT ![i] = @ + 1]
      BY <2>1, <2>3 DEF Queries!ReportWidgetError
    <3> QED BY <2>1, <2>2, <2>3, <3>1 DEF QueriesInv
  <2>4. CASE message = None
    <3>1. sent' = [sent EXCEPT ![i] = 0]
      BY <2>1, <2>4 DEF Queries!ReportWidgetError
    <3> QED BY <2>1, <2>2, <2>4, <3>1 DEF QueriesInv
  <2>5. CASE message # None /\ reported[i] = message
    <3>1. sent' = sent
      BY <2>1, <2>5 DEF Queries!ReportWidgetError, QueriesInv
    <3> QED BY <2>1, <2>2, <2>5, <3>1 DEF QueriesInv
  <2> QED BY <2>3, <2>4, <2>5
<1> QED BY <1>1, <1>2 DEF Queries!Next, Queries!vars, Queries!RefreshAllData,
  Queries!RefreshToolData, Queries!Refetch

\* The invariant gives what is promised.
LEMMA QueriesPromise == QueriesInv => Queries!ErrorsAreReported
  BY DEF QueriesInv, Queries!ErrorsAreReported, Queries!Queries

\* At the start no query has failed.
LEMMA QueriesStart == Queries!Init => QueriesInv
  BY DEF Queries!Init, Queries!Queries, QueriesInv

\* The queries move by their own steps.
LEMMA QueriesMove ==
  part = "queries" /\ [MCNext]_all => [Queries!Next]_(Queries!vars)
  BY DEF MCNext, MCPlatforms, all, rest1, Queries!vars

-----------------------------------------------------------------------------
(* How often the browser polls (app/components/hooks/useRateLimit.ts,         *)
(* useToolQueries.ts and lib/rate-limit-utils.ts).                             *)

\* null is neither limits nor a percentage; base intervals are whole seconds; the
\* limits of GitHub name its three resources, and each answer has a highest usage.
Usage == Nat \cup {None}
Above(limits, b) == \A r \in DOMAIN limits : limits[r] # None => limits[r] <= b
PollsGiven ==
  /\ None \notin Nat /\ None \notin PolledPlatforms /\ Polls!Free \notin PolledPlatforms
  /\ \A q \in Polled : q.base \in Nat /\ q.platform \in PolledPlatforms \cup {None}
  /\ \A p \in PolledPlatforms : \A limits \in Usages[p] :
       /\ limits # None
       /\ \A r \in DOMAIN limits : limits[r] \in Usage
       /\ \E b \in Nat : Above(limits, b)
       /\ p = "github" => {"core", "graphql", "search"} \subseteq DOMAIN limits

\* The memoised configurations are of this page, and of this map but for what came
\* since; while the hook is enabled a platform has limits, or an error, or will have.
PollsInv ==
  /\ visible \in BOOLEAN /\ active \in BOOLEAN
  /\ pollCalls \in [Requests -> PolledPlatforms \cup {Polls!Free}]
  /\ DOMAIN pollLoading = PolledPlatforms
  /\ DOMAIN statuses = PolledPlatforms
  /\ \A p \in PolledPlatforms : statuses[p] \in Usages[p] \cup {None}
  /\ \A p \in PolledPlatforms : memo.statuses[p] \in Usages[p] \cup {None}
  /\ memo.visible = visible /\ memo.active = active
  /\ pollsEnabled => \A p \in PolledPlatforms \ late : memo.statuses[p] = statuses[p]
  /\ Polls!LoadingEnds

\* Max is the highest.
LEMMA MaxIs ==
  ASSUME NEW S \in SUBSET Nat, NEW b \in Nat, S # {}, \A n \in S : n <= b
  PROVE  Polls!Max(S) \in S /\ \A n \in S : Polls!Max(S) >= n
  BY Highest DEF Polls!Max

\* Of two and of three numbers.
LEMMA MaxOfTwo ==
  ASSUME NEW a \in Nat, NEW c \in Nat
  PROVE  Polls!Max({a, c}) = IF a >= c THEN a ELSE c
<1>1. {a, c} \in SUBSET Nat /\ {a, c} # {} /\ \A n \in {a, c} : n <= a + c
  OBVIOUS
<1> QED BY <1>1, MaxIs

\* The least of a set of two is the smaller.
LEMMA MinOfTwo ==
  ASSUME NEW a \in Nat, NEW c \in Nat
  PROVE  Polls!Min({a, c}) = IF a <= c THEN a ELSE c
<1> DEFINE m == IF a <= c THEN a ELSE c
<1>1. m \in {a, c} /\ \A n \in {a, c} : m <= n
  OBVIOUS
<1> QED BY <1>1 DEF Polls!Min

\* A usage is a number.
LEMMA UsageIsANumber ==
  ASSUME PollsGiven, NEW p \in PolledPlatforms, NEW limits \in Usages[p] \cup {None}
  PROVE  Polls!UsageOf(p, limits) \in Nat
<1>1. CASE limits = None
  BY <1>1 DEF Polls!UsageOf
<1>2. CASE limits # None /\ p = "github"
  <2>1. \A r \in {"core", "graphql", "search"} : Polls!Known(limits[r]) \in Nat
    BY <1>2 DEF PollsGiven, Usage, Polls!Known
  <2> DEFINE a == 7 * Polls!Known(limits.core)
             b == 8 * Polls!Known(limits.graphql)
             d == 15 * Polls!Known(limits.search)
  <2>2. a \in Nat /\ b \in Nat /\ d \in Nat
    BY <2>1
  <2> HIDE DEF a, b, d
  <2>3. Polls!Max({a, b, d}) \in {a, b, d}
    BY <2>2, MaxIs, {a, b, d} \in SUBSET Nat /\ a + b + d \in Nat /\ \A n \in {a, b, d} : n <= a + b + d
  <2>4. Polls!UsageOf(p, limits) = Polls!Max({a, b, d})
    BY <1>2 DEF Polls!UsageOf, Polls!GetGitHubWeightedUsage, a, b, d
  <2> QED BY <2>2, <2>3, <2>4
<1>3. CASE limits # None /\ p # "github"
  <2> DEFINE S == {0} \cup {10 * Polls!Known(limits[r]) : r \in DOMAIN limits}
  <2>1. PICK b \in Nat : Above(limits, b)
    BY <1>3 DEF PollsGiven
  <2>2. \A r \in DOMAIN limits : Polls!Known(limits[r]) \in Nat /\ Polls!Known(limits[r]) <= b
    BY <1>3, <2>1 DEF PollsGiven, Usage, Above, Polls!Known
  <2>3. S \in SUBSET Nat /\ S # {} /\ 10 * b \in Nat /\ \A n \in S : n <= 10 * b
    BY <2>1, <2>2
  <2>4. Polls!UsageOf(p, limits) = Polls!Max(S)
    BY <1>3 DEF Polls!UsageOf, Polls!GetMaxUsageForPlatform
  <2> HIDE DEF S
  <2> QED BY <2>3, <2>4, MaxIs
<1> QED BY <1>1, <1>2, <1>3

\* A nearly used up limit makes the interval four times as long.
LEMMA DynamicIs ==
  ASSUME NEW usage \in Nat, NEW base \in Nat, NEW business
  PROVE  /\ Polls!GetDynamicInterval(usage, base, business) \in Nat
         /\ Polls!GetDynamicInterval(usage, base, business) >= 30
         /\ usage >= 900 => Polls!GetDynamicInterval(usage, base, business) >= 4 * base
<1> DEFINE slower == Polls!Slower(usage)
           scaled == (base * slower * (IF business THEN 12 ELSE 10)) \div 100
<1>1. slower \in {10, 15, 20, 40} /\ (usage >= 900 => slower = 40)
  BY DEF Polls!Slower
<1> HIDE DEF slower
<1>2. scaled \in Nat /\ (usage >= 900 => scaled >= 4 * base)
  <2>1. CASE slower = 10
    BY <1>1, <2>1
  <2>2. CASE slower = 15
    BY <1>1, <2>2
  <2>3. CASE slower = 20
    BY <1>1, <2>3
  <2>4. CASE slower = 40
    BY <1>1, <2>4
  <2> QED BY <1>1, <2>1, <2>2, <2>3, <2>4
<1>3. Polls!GetDynamicInterval(usage, base, business) = Polls!Max({30, scaled})
  BY DEF Polls!GetDynamicInterval, slower
<1> HIDE DEF scaled
<1> QED BY <1>2, <1>3, MaxOfTwo

\* The interval that is polled is within its limits, and as long as the one of the
\* limits, twice that while the page is hidden.
LEMMA FinalIs ==
  ASSUME NEW d \in Nat, d >= 30, NEW seen \in BOOLEAN, NEW busy \in BOOLEAN
  PROVE  LET wait == Polls!ClampInterval((d * Polls!GetActivityAccelerationFactor(seen, busy)) \div 10) IN
         /\ wait \in 30..Polls!Day
         /\ \A least \in Nat : least <= d * (IF seen THEN 1 ELSE 2) => wait >= Polls!Min({Polls!Day, least})
<1> DEFINE factor == Polls!GetActivityAccelerationFactor(seen, busy)
           interval == (d * factor) \div 10
           day == Polls!Day
<1>1. factor \in {10, 15, 20} /\ (~seen => factor = 20)
  BY DEF Polls!GetActivityAccelerationFactor
<1>2. day \in Nat /\ day >= 30
  BY DEF Polls!Day
<1> HIDE DEF factor, day
<1>3. interval \in Nat /\ interval >= d * (IF seen THEN 1 ELSE 2)
  <2>1. CASE factor = 10
    BY <1>1, <2>1
  <2>2. CASE factor = 15
    BY <1>1, <2>2
  <2>3. CASE factor = 20
    BY <1>1, <2>3
  <2> QED BY <1>1, <2>1, <2>2, <2>3
<1> HIDE DEF interval
<1>4. Polls!ClampInterval(interval) = Polls!Max({30, Polls!Min({day, interval})})
  BY DEF Polls!ClampInterval, day
<1>5. Polls!Min({day, interval}) = IF day <= interval THEN day ELSE interval
  BY <1>2, <1>3, MinOfTwo
<1>6. Polls!Min({day, interval}) \in Nat
  BY <1>2, <1>3, <1>5
<1>7. Polls!ClampInterval(interval) = IF 30 >= Polls!Min({day, interval}) THEN 30 ELSE Polls!Min({day, interval})
  BY <1>4, <1>6, MaxOfTwo
<1>8. \A least \in Nat : Polls!Min({day, least}) = IF day <= least THEN day ELSE least
  BY <1>2, MinOfTwo
<1>9. Polls!ClampInterval(interval) \in 30..day
  BY <1>2, <1>3, <1>5, <1>6, <1>7
<1>10. ASSUME NEW least \in Nat, least <= d * (IF seen THEN 1 ELSE 2)
       PROVE  Polls!ClampInterval(interval) >= Polls!Min({day, least})
  <2>1. least <= interval
    BY <1>3, <1>10
  <2> QED BY <1>2, <1>3, <1>5, <1>7, <1>8, <2>1
<1> QED BY <1>9, <1>10 DEF interval, factor, day

\* The invariant is what is promised.
LEMMA PollsPromise ==
  ASSUME PollsGiven
  PROVE  PollsInv => Polls!PollsKeepTheLimits /\ Polls!LoadingEnds
<1> SUFFICES ASSUME PollsInv PROVE Polls!PollsKeepTheLimits
  BY DEF PollsInv
<1> SUFFICES ASSUME NEW q \in Polled
             PROVE  /\ Polls!FinalInterval(q) \in 30..Polls!Day
                    /\ q.platform \in PolledPlatforms \ late =>
                         (pollsEnabled /\ Polls!UsageOf(q.platform, statuses[q.platform]) >= 900 =>
                            Polls!FinalInterval(q) >= Polls!Min({Polls!Day, 4 * q.base * (IF visible THEN 1 ELSE 2)}))
  BY DEF Polls!PollsKeepTheLimits
<1> DEFINE usage == IF q.platform = None THEN 0 ELSE Polls!UsageOf(q.platform, memo.statuses[q.platform])
           dynamic == Polls!GetDynamicInterval(usage, q.base, memo.business)
           wait == Polls!FinalInterval(q)
<1>1. usage \in Nat /\ q.base \in Nat
  BY UsageIsANumber DEF PollsGiven, PollsInv
<1>2. wait = Polls!ClampInterval((dynamic * Polls!GetActivityAccelerationFactor(visible, active)) \div 10)
  BY DEF Polls!FinalInterval, PollsInv
<1>3. ASSUME q.platform \in PolledPlatforms \ late, pollsEnabled,
             Polls!UsageOf(q.platform, statuses[q.platform]) >= 900
      PROVE  usage >= 900
  <2>1. memo.statuses[q.platform] = statuses[q.platform]
    BY <1>3 DEF PollsInv
  <2>2. CASE q.platform = None
    <3>1. FALSE
      BY <2>2, <1>3 DEF PollsGiven
    <3> QED BY <3>1
  <2> QED BY <1>3, <2>1, <2>2
<1> HIDE DEF usage, wait
<1>4. dynamic \in Nat /\ dynamic >= 30 /\ (usage >= 900 => dynamic >= 4 * q.base)
  BY <1>1, DynamicIs
<1> HIDE DEF dynamic
<1>5. visible \in BOOLEAN /\ active \in BOOLEAN
  BY DEF PollsInv
<1>6. wait \in 30..Polls!Day
  BY <1>2, <1>4, <1>5, FinalIs
<1>7. ASSUME usage >= 900
      PROVE  wait >= Polls!Min({Polls!Day, 4 * q.base * (IF visible THEN 1 ELSE 2)})
  <2> DEFINE least == 4 * q.base * (IF visible THEN 1 ELSE 2)
  <2>1. least \in Nat /\ least <= dynamic * (IF visible THEN 1 ELSE 2)
    BY <1>1, <1>4, <1>5, <1>7
  <2> HIDE DEF least
  <2>2. wait >= Polls!Min({Polls!Day, least})
    BY <1>2, <1>4, <1>5, <2>1, FinalIs
  <2> QED BY <2>2 DEF least
<1> QED BY <1>3, <1>6, <1>7 DEF wait

\* RefreshAll asks for each platform, by requests that were free.
LEMMA RefreshAllAsks ==
  ASSUME PollsGiven, PollsInv, pollsEnabled', Polls!RefreshAll
  PROVE  /\ pollCalls' \in [Requests -> PolledPlatforms \cup {Polls!Free}]
         /\ pollLoading' = [p \in PolledPlatforms |-> TRUE]
  BY DEF PollsInv, Polls!RefreshAll

\* The answer to a request leaves the platform with limits or an error.
LEMMA AnswerKeeps ==
  ASSUME PollsGiven, PollsInv, NEW c \in Requests, Polls!Arrives(c)
  PROVE  PollsInv'
<1> DEFINE p == pollCalls[c]
<1>1. p \in PolledPlatforms
  BY DEF PollsInv, Polls!Arrives
<1>2. PICK limits \in Usages[p] \cup {None} :
        /\ statuses' = IF limits = None THEN statuses ELSE [statuses EXCEPT ![p] = limits]
        /\ errors' = IF limits = None THEN errors \cup {p} ELSE errors
        /\ late' = IF limits = None THEN late ELSE late \cup {p}
        /\ pollLoading' = [pollLoading EXCEPT ![p] = FALSE]
  BY DEF Polls!Arrives
<1>3. /\ pollCalls' = [pollCalls EXCEPT ![c] = Polls!Free]
      /\ UNCHANGED <<pollsEnabled, visible, active, memo>>
  BY DEF Polls!Arrives
<1>4. /\ DOMAIN statuses' = PolledPlatforms
      /\ statuses'[p] = IF limits = None THEN statuses[p] ELSE limits
      /\ \A r \in PolledPlatforms : r # p => statuses'[r] = statuses[r]
  BY <1>1, <1>2 DEF PollsInv
<1>5. \A r \in PolledPlatforms : statuses'[r] \in Usages[r] \cup {None}
  BY <1>2, <1>4 DEF PollsInv
<1>6. /\ DOMAIN pollLoading' = PolledPlatforms
      /\ pollCalls' \in [Requests -> PolledPlatforms \cup {Polls!Free}]
  BY <1>2, <1>3 DEF PollsInv
<1>7. pollsEnabled => \A r \in PolledPlatforms \ late' : memo.statuses[r] = statuses'[r]
  <2> SUFFICES ASSUME pollsEnabled, NEW r \in PolledPlatforms \ late'
               PROVE  memo.statuses[r] = statuses'[r]
    OBVIOUS
  <2>1. r \notin late /\ memo.statuses[r] = statuses[r]
    BY <1>2 DEF PollsInv
  <2>2. CASE limits = None
    BY <1>2, <2>1, <2>2
  <2>3. CASE limits # None
    BY <1>2, <1>4, <2>1, <2>3
  <2> QED BY <2>2, <2>3
<1>8. Polls!LoadingEnds'
  <2> SUFFICES ASSUME NEW r \in PolledPlatforms, pollsEnabled, pollLoading'[r] = FALSE, statuses'[r] = None
               PROVE  r \in errors' \/ \E d \in Requests : pollCalls'[d] = r
    BY <1>3 DEF Polls!LoadingEnds
  <2>1. CASE r = p
    <3>1. limits = None
      BY <1>1, <1>2, <1>4, <2>1 DEF PollsGiven
    <3> QED BY <1>2, <2>1, <3>1
  <2>2. CASE r # p
    <3>1. pollLoading[r] = FALSE /\ statuses[r] = None
      BY <1>2, <1>4, <2>2 DEF PollsInv
    <3>2. r \in errors \/ \E d \in Requests : pollCalls[d] = r
      BY <3>1 DEF PollsInv, Polls!LoadingEnds
    <3>3. \A d \in Requests : pollCalls[d] = r => pollCalls'[d] = r
      BY <1>3, <2>2 DEF PollsInv
    <3>4. r \in errors => r \in errors'
      BY <1>2
    <3> QED BY <3>2, <3>3, <3>4
  <2> QED BY <2>1, <2>2
<1> HIDE DEF p
<1> QED BY <1>3, <1>5, <1>4, <1>6, <1>7, <1>8 DEF PollsInv

\* A render makes the configurations anew.
LEMMA RenderKeeps ==
  ASSUME PollsGiven, PollsInv,
         \/ Polls!NewTools \/ Polls!EnabledChanges
         \/ Polls!VisibilityChanges \/ Polls!ActivityChanges
  PROVE  PollsInv'
<1>1. /\ memo'.statuses = statuses /\ memo'.visible = visible' /\ memo'.active = active'
      /\ visible' \in BOOLEAN /\ active' \in BOOLEAN
  BY DEF PollsInv, Polls!CreateQueryConfigs, Polls!NewTools, Polls!EnabledChanges,
    Polls!VisibilityChanges, Polls!ActivityChanges
<1>2. CASE Polls!VisibilityChanges \/ Polls!ActivityChanges
  <2>1. UNCHANGED <<pollsEnabled, pollCalls, statuses, pollLoading, errors>>
    BY <1>2 DEF Polls!VisibilityChanges, Polls!ActivityChanges
  <2> QED BY <1>1, <2>1 DEF PollsInv, Polls!LoadingEnds
<1>3. CASE Polls!NewTools
  <2>1. pollsEnabled' /\ Polls!RefreshAll /\ statuses' = statuses
    BY <1>3 DEF Polls!NewTools
  <2> QED BY <1>1, <2>1, RefreshAllAsks DEF PollsInv, Polls!LoadingEnds
<1>4. CASE Polls!EnabledChanges /\ pollsEnabled
  <2>1. /\ ~pollsEnabled' /\ statuses' = [p \in PolledPlatforms |-> None]
        /\ pollLoading' = [p \in PolledPlatforms |-> None] /\ pollCalls' = pollCalls
    BY <1>4 DEF Polls!EnabledChanges
  <2> QED BY <1>1, <2>1 DEF PollsInv, Polls!LoadingEnds
<1>5. CASE Polls!EnabledChanges /\ ~pollsEnabled
  <2>1. pollsEnabled' /\ Polls!RefreshAll /\ statuses' = statuses
    BY <1>5 DEF Polls!EnabledChanges
  <2> QED BY <1>1, <2>1, RefreshAllAsks DEF PollsInv, Polls!LoadingEnds
<1> QED BY <1>2, <1>3, <1>4, <1>5

\* Every step keeps the invariant.
LEMMA PollsStep ==
  ASSUME PollsGiven
  PROVE  PollsInv /\ [Polls!Next]_(Polls!vars) => PollsInv'
<1>1. PollsInv /\ UNCHANGED Polls!vars => PollsInv'
  BY DEF Polls!vars, PollsInv, Polls!LoadingEnds
<1> QED BY <1>1, AnswerKeeps, RenderKeeps DEF Polls!Next

\* At the start every platform is loading.
LEMMA PollsStart == ASSUME PollsGiven PROVE Polls!Init => PollsInv
<1> SUFFICES ASSUME Polls!Init PROVE PollsInv
  OBVIOUS
<1>1. pollCalls \in [Requests -> PolledPlatforms \cup {Polls!Free}]
  BY DEF Polls!Init
<1>2. /\ statuses = [p \in PolledPlatforms |-> None]
      /\ pollLoading = [p \in PolledPlatforms |-> TRUE]
      /\ memo.statuses = statuses /\ memo.visible = TRUE /\ memo.active = TRUE
      /\ visible = TRUE /\ active = TRUE
  BY DEF Polls!Init
<1> QED BY <1>1, <1>2 DEF PollsInv, Polls!LoadingEnds

\* The polls move by their own steps.
LEMMA PollsMove ==
  part = "polls" /\ [MCNext]_all => [Polls!Next]_(Polls!vars)
  BY DEF MCNext, MCPlatforms, all, rest1, Polls!vars

-----------------------------------------------------------------------------
(* What a page knows of its logins (app/components/hooks/useAuthStatus.ts).   *)

\* null is neither an endpoint nor a request, requests are numbered, and there is
\* something to ask for.
LoginsGiven ==
  /\ Endpoints # {} /\ None \notin Endpoints
  /\ PageRequests \subseteq Nat /\ None \notin PageRequests

StatusRequest ==
  [endpoint : Endpoints, by : Requests, data : Nat, waiters : SUBSET Requests, batch : BOOLEAN]

LoginShapes ==
  /\ logins \in Nat
  /\ statusRequests \in [PageRequests -> StatusRequest \cup {Logins!Free}]
  /\ pending \in [Endpoints -> PageRequests \cup {None}]
  /\ statusLoading \in [Requests -> BOOLEAN]

\* An answer that ends the loading of a component: one to "general", or one of its
\* own refresh.
Awaits(h, q) == h \in q.waiters /\ (q.endpoint = "general" \/ (q.batch /\ q.by = h))

\* A component waits for what it asked, and is loading while it awaits such an answer.
AwaitsItsOwn ==
  \A r \in PageRequests : statusRequests[r] # Logins!Free => statusRequests[r].by \in statusRequests[r].waiters
LoadingAwaits ==
  \A h \in Requests : statusLoading[h] =>
    \E r \in PageRequests : statusRequests[r] # Logins!Free /\ Awaits(h, statusRequests[r])

LoginsInv == LoginShapes /\ Logins!PendingIsInFlight /\ AwaitsItsOwn /\ LoadingAwaits

\* A new request is one, asked by the component that waits for it.
LEMMA NewRequestIs ==
  ASSUME LoginsGiven, LoginShapes, NEW h \in Requests, NEW e \in Endpoints, NEW batch \in BOOLEAN
  PROVE  LET q == Logins!Request(h, e, batch) IN
         /\ q \in StatusRequest /\ q # Logins!Free /\ q.endpoint = e
         /\ q.by = h /\ q.by \in q.waiters /\ q.batch = batch /\ h \in q.waiters
  BY DEF Logins!Request, LoginShapes, StatusRequest, LoginsGiven, Logins!Free

\* A request under way has its parts.
LEMMA InFlightIs ==
  ASSUME LoginsGiven, LoginShapes, NEW r \in PageRequests, statusRequests[r] # Logins!Free
  PROVE  /\ statusRequests[r] \in StatusRequest
         /\ statusRequests[r].endpoint \in Endpoints
  BY DEF LoginShapes, StatusRequest

\* A request that is pending is under way.
LEMMA PendingIs ==
  ASSUME LoginsGiven, LoginsInv, NEW e \in Endpoints, pending[e] # None
  PROVE  /\ pending[e] \in PageRequests /\ statusRequests[pending[e]].endpoint = e
         /\ statusRequests[pending[e]] # Logins!Free
  BY DEF LoginsGiven, LoginsInv, LoginShapes, Logins!PendingIsInFlight, Logins!Free

\* Asking for one thing joins the pending request or makes one.
LEMMA StatusFetchKeeps ==
  ASSUME LoginsGiven, LoginsInv, NEW h \in Requests, NEW e \in Endpoints, Logins!Fetch(h, e)
  PROVE  LoginsInv'
<1>1. /\ logins' = logins
      /\ statusLoading' = IF e = "general" THEN [statusLoading EXCEPT ![h] = TRUE] ELSE statusLoading
  BY DEF Logins!Fetch
<1>2. CASE pending[e] # None
  <2> DEFINE p == pending[e]
             q == statusRequests[p]
  <2>1. p \in PageRequests /\ q.endpoint = e /\ q # Logins!Free
    BY <1>2, PendingIs
  <2>2. q \in StatusRequest
    BY <2>1, InFlightIs DEF LoginsInv
  <2>3. statusRequests' = [statusRequests EXCEPT ![p].waiters = @ \cup {h}] /\ pending' = pending
    BY <1>2 DEF Logins!Fetch
  <2>4. /\ \A r \in PageRequests : r # p => statusRequests'[r] = statusRequests[r]
        /\ statusRequests'[p] = [q EXCEPT !.waiters = q.waiters \cup {h}]
        /\ statusRequests' = [r \in PageRequests |-> statusRequests'[r]]
    BY <2>1, <2>3 DEF LoginsInv, LoginShapes
  <2> DEFINE new == statusRequests'[p]
  <2>5. /\ new \in StatusRequest /\ new.endpoint = e /\ new.by = q.by
        /\ new.waiters = q.waiters \cup {h} /\ new.batch = q.batch
    BY <2>1, <2>2, <2>4 DEF StatusRequest
  <2>6. new # Logins!Free
    BY <2>5 DEF LoginsGiven, Logins!Free
  <2> HIDE DEF new, p, q
  <2>7. \A g \in Requests : Awaits(g, q) => Awaits(g, new)
    BY <2>1, <2>5 DEF Awaits
  <2>8. e = "general" => Awaits(h, new)
    BY <2>5 DEF Awaits
  <2>9. LoginShapes'
    BY <1>1, <2>3, <2>4, <2>5 DEF LoginsInv, LoginShapes, new
  <2>10. Logins!PendingIsInFlight'
    <3> SUFFICES ASSUME NEW d \in Endpoints, pending[d] # None
                 PROVE  statusRequests'[pending[d]].endpoint = d
      BY <2>3 DEF Logins!PendingIsInFlight
    <3>1. pending[d] \in PageRequests /\ statusRequests[pending[d]].endpoint = d
      BY PendingIs
    <3> QED BY <2>1, <2>4, <2>5, <3>1 DEF new, q
  <2>11. AwaitsItsOwn'
    BY <2>1, <2>4, <2>5 DEF LoginsInv, AwaitsItsOwn, new, q
  <2>12. LoadingAwaits'
    <3> SUFFICES ASSUME NEW g \in Requests, statusLoading'[g]
                 PROVE  \E r \in PageRequests : statusRequests'[r] # Logins!Free /\ Awaits(g, statusRequests'[r])
      BY DEF LoadingAwaits
    <3>1. CASE statusLoading[g]
      <4>1. PICK r \in PageRequests : statusRequests[r] # Logins!Free /\ Awaits(g, statusRequests[r])
        BY <3>1 DEF LoginsInv, LoadingAwaits
      <4>2. CASE r = p
        BY <4>1, <4>2, <2>1, <2>6, <2>7 DEF new, q
      <4>3. CASE r # p
        BY <4>1, <4>3, <2>4
      <4> QED BY <4>2, <4>3
    <3>2. CASE ~statusLoading[g]
      <4>1. g = h /\ e = "general"
        BY <1>1, <3>2 DEF LoginsInv, LoginShapes
      <4> QED BY <4>1, <2>1, <2>6, <2>8 DEF new
    <3> QED BY <3>1, <3>2
  <2> QED BY <2>9, <2>10, <2>11, <2>12 DEF LoginsInv
<1>3. CASE pending[e] = None
  <2> DEFINE n == Logins!NewRequest
             new == Logins!Request(h, e, FALSE)
  <2>1. /\ Logins!InFlight # PageRequests
        /\ statusRequests' = [statusRequests EXCEPT ![n] = new]
        /\ pending' = [pending EXCEPT ![e] = n]
    BY <1>3 DEF Logins!Fetch
  <2>2. n \in PageRequests /\ statusRequests[n] = Logins!Free
    <3> DEFINE S == PageRequests \ Logins!InFlight
    <3>1. S # {} /\ S \in SUBSET Nat
      BY <2>1 DEF Logins!InFlight, LoginsGiven
    <3>2. \A m \in S : m \in PageRequests /\ statusRequests[m] = Logins!Free
      BY DEF Logins!InFlight
    <3> HIDE DEF S
    <3>3. Logins!Min(S) \in S
      BY <3>1, Least DEF Logins!Min
    <3> QED BY <3>2, <3>3 DEF Logins!NewRequest, S
  <2>3. /\ new \in StatusRequest /\ new # Logins!Free /\ new.endpoint = e
        /\ new.by \in new.waiters /\ h \in new.waiters
    BY NewRequestIs DEF LoginsInv
  <2> HIDE DEF new, n
  <2>4. /\ \A r \in PageRequests : r # n => statusRequests'[r] = statusRequests[r]
        /\ statusRequests'[n] = new
        /\ statusRequests' = [r \in PageRequests |-> statusRequests'[r]]
    BY <2>1, <2>2 DEF LoginsInv, LoginShapes
  <2>5. LoginShapes'
    BY <1>1, <2>1, <2>2, <2>3, <2>4 DEF LoginsInv, LoginShapes
  <2>6. Logins!PendingIsInFlight'
    <3> SUFFICES ASSUME NEW d \in Endpoints, pending'[d] # None
                 PROVE  statusRequests'[pending'[d]].endpoint = d
      BY DEF Logins!PendingIsInFlight
    <3>1. CASE d = e
      BY <2>1, <2>3, <2>4, <3>1 DEF LoginsInv, LoginShapes
    <3>2. CASE d # e
      <4>1. pending'[d] = pending[d]
        BY <2>1, <3>2 DEF LoginsInv, LoginShapes
      <4>2. /\ pending[d] \in PageRequests /\ statusRequests[pending[d]].endpoint = d
            /\ statusRequests[pending[d]] # Logins!Free
        BY <4>1, PendingIs
      <4> QED BY <2>2, <2>4, <4>1, <4>2
    <3> QED BY <3>1, <3>2
  <2>7. AwaitsItsOwn'
    BY <2>3, <2>4 DEF LoginsInv, AwaitsItsOwn
  <2>8. LoadingAwaits'
    <3> SUFFICES ASSUME NEW g \in Requests, statusLoading'[g]
                 PROVE  \E r \in PageRequests : statusRequests'[r] # Logins!Free /\ Awaits(g, statusRequests'[r])
      BY DEF LoadingAwaits
    <3>1. CASE statusLoading[g]
      <4>1. PICK r \in PageRequests : statusRequests[r] # Logins!Free /\ Awaits(g, statusRequests[r])
        BY <3>1 DEF LoginsInv, LoadingAwaits
      <4> QED BY <2>2, <2>4, <4>1
    <3>2. CASE ~statusLoading[g]
      <4>1. g = h /\ e = "general"
        BY <1>1, <3>2 DEF LoginsInv, LoginShapes
      <4>2. Awaits(h, new)
        BY <2>3, <4>1 DEF Awaits
      <4> QED BY <2>2, <2>3, <2>4, <4>1, <4>2
    <3> QED BY <3>1, <3>2
  <2> QED BY <2>5, <2>6, <2>7, <2>8 DEF LoginsInv
<1> QED BY <1>2, <1>3

\* A refresh asks for everything, by requests that were free.
LEMMA StatusRefreshKeeps ==
  ASSUME LoginsGiven, LoginsInv, NEW h \in Requests, Logins!Refresh(h)
  PROVE  LoginsInv'
<1>1. /\ pending' \in [Endpoints -> PageRequests \ Logins!InFlight]
      /\ \A d, e \in Endpoints : pending'[d] = pending'[e] => d = e
      /\ logins' = logins /\ statusLoading' = [statusLoading EXCEPT ![h] = TRUE]
  BY DEF Logins!Refresh
<1> DEFINE asked(r) == CHOOSE e \in Endpoints : pending'[e] = r
           new(r) == Logins!Request(h, asked(r), TRUE)
<1>2. statusRequests' = [r \in PageRequests |->
        IF \E e \in Endpoints : pending'[e] = r THEN new(r) ELSE statusRequests[r]]
  BY DEF Logins!Refresh
<1>3. ASSUME NEW e \in Endpoints
      PROVE  /\ pending'[e] \in PageRequests /\ statusRequests[pending'[e]] = Logins!Free
             /\ asked(pending'[e]) = e
  BY <1>1 DEF Logins!InFlight
<1> HIDE DEF asked
<1>4. ASSUME NEW e \in Endpoints
      PROVE  LET q == statusRequests'[pending'[e]] IN
             /\ q \in StatusRequest /\ q # Logins!Free /\ q.endpoint = e
             /\ q.by \in q.waiters /\ Awaits(h, q)
  <2>1. statusRequests'[pending'[e]] = Logins!Request(h, e, TRUE)
    BY <1>2, <1>3
  <2> DEFINE q == Logins!Request(h, e, TRUE)
  <2>2. /\ q \in StatusRequest /\ q # Logins!Free /\ q.endpoint = e
        /\ q.by = h /\ q.by \in q.waiters /\ q.batch = TRUE /\ h \in q.waiters
    BY TRUE \in BOOLEAN, NewRequestIs DEF LoginsInv
  <2> HIDE DEF q
  <2>3. Awaits(h, q)
    BY <2>2 DEF Awaits
  <2> QED BY <2>1, <2>2, <2>3 DEF q
<1>5. ASSUME NEW r \in PageRequests, statusRequests[r] # Logins!Free
      PROVE  statusRequests'[r] = statusRequests[r]
  BY <1>2, <1>3, <1>5
<1>6. ASSUME NEW r \in PageRequests
      PROVE  (\E e \in Endpoints : pending'[e] = r) \/ statusRequests'[r] = statusRequests[r]
  BY <1>2
<1>7. LoginShapes'
  <2>1. statusRequests' = [r \in PageRequests |-> statusRequests'[r]]
    BY <1>2
  <2>2. \A r \in PageRequests : statusRequests'[r] \in StatusRequest \cup {Logins!Free}
    BY <1>4, <1>6 DEF LoginsInv, LoginShapes
  <2> QED BY <1>1, <2>1, <2>2 DEF LoginsInv, LoginShapes
<1>8. Logins!PendingIsInFlight'
  BY <1>4 DEF Logins!PendingIsInFlight
<1>9. AwaitsItsOwn'
  BY <1>4, <1>6 DEF LoginsInv, AwaitsItsOwn
<1>10. LoadingAwaits'
  <2> SUFFICES ASSUME NEW g \in Requests, statusLoading'[g]
               PROVE  \E r \in PageRequests : statusRequests'[r] # Logins!Free /\ Awaits(g, statusRequests'[r])
    BY DEF LoadingAwaits
  <2>1. CASE g = h
    <3>1. PICK e \in Endpoints : TRUE
      BY DEF LoginsGiven
    <3> QED BY <1>3, <1>4, <2>1, <3>1
  <2>2. CASE g # h
    <3>1. statusLoading[g]
      BY <1>1, <2>2 DEF LoginsInv, LoginShapes
    <3>2. PICK r \in PageRequests : statusRequests[r] # Logins!Free /\ Awaits(g, statusRequests[r])
      BY <3>1 DEF LoginsInv, LoadingAwaits
    <3> QED BY <1>5, <3>2
  <2> QED BY <2>1, <2>2
<1> QED BY <1>7, <1>8, <1>9, <1>10 DEF LoginsInv

\* The end of a request ends the loading of those that awaited it, unless others of
\* their refresh go on.
LEMMA StatusDoneKeeps ==
  ASSUME LoginsGiven, LoginsInv, NEW r \in PageRequests, statusRequests[r] # Logins!Free, Logins!Done(r)
  PROVE  LoginsInv'
<1> DEFINE q == statusRequests[r]
<1>1. q \in StatusRequest /\ q.endpoint \in Endpoints
  BY InFlightIs DEF LoginsInv
<1>2. /\ pending' = [pending EXCEPT ![q.endpoint] = None]
      /\ statusRequests' = [statusRequests EXCEPT ![r] = Logins!Free]
      /\ statusLoading' = Logins!LoadingAfter(r) /\ logins' = logins
  BY DEF Logins!Done
<1>3. /\ statusRequests'[r] = Logins!Free
      /\ \A s \in PageRequests : s # r => statusRequests'[s] = statusRequests[s]
  BY <1>2 DEF LoginsInv, LoginShapes
<1>4. LoginShapes'
  <2>1. statusLoading' \in [Requests -> BOOLEAN]
    BY <1>2 DEF Logins!LoadingAfter
  <2> QED BY <1>1, <1>2, <2>1 DEF LoginsInv, LoginShapes
<1>5. Logins!PendingIsInFlight'
  <2> SUFFICES ASSUME NEW e \in Endpoints, pending'[e] # None
               PROVE  statusRequests'[pending'[e]].endpoint = e
    BY DEF Logins!PendingIsInFlight
  <2>1. e # q.endpoint /\ pending'[e] = pending[e]
    BY <1>1, <1>2 DEF LoginsInv, LoginShapes
  <2>2. pending[e] \in PageRequests /\ statusRequests[pending[e]].endpoint = e
    BY <2>1, PendingIs
  <2> QED BY <1>3, <2>1, <2>2
<1>6. AwaitsItsOwn'
  BY <1>3 DEF LoginsInv, AwaitsItsOwn
<1>7. LoadingAwaits'
  <2> SUFFICES ASSUME NEW h \in Requests, statusLoading'[h]
               PROVE  \E s \in PageRequests : statusRequests'[s] # Logins!Free /\ Awaits(h, statusRequests'[s])
    BY DEF LoadingAwaits
  <2>1. /\ statusLoading[h]
        /\ ~(/\ h \in q.waiters
             /\ \/ q.endpoint = "general"
                \/ q.batch /\ \A s \in Logins!InFlight \ {r} : ~(statusRequests[s].batch /\ statusRequests[s].by = h))
    BY <1>2 DEF Logins!LoadingAfter
  <2>2. PICK s \in PageRequests : statusRequests[s] # Logins!Free /\ Awaits(h, statusRequests[s])
    BY <2>1 DEF LoginsInv, LoadingAwaits
  <2>3. CASE s # r
    BY <1>3, <2>2, <2>3
  <2>4. CASE s = r
    <3>1. q.batch /\ h \in q.waiters
      BY <2>1, <2>2, <2>4 DEF Awaits
    <3>2. PICK t \in Logins!InFlight \ {r} : statusRequests[t].batch /\ statusRequests[t].by = h
      BY <2>1, <3>1
    <3>3. t \in PageRequests /\ t # r /\ statusRequests[t] # Logins!Free
      BY <3>2 DEF Logins!InFlight
    <3>4. Awaits(h, statusRequests[t])
      BY <3>2, <3>3 DEF LoginsInv, AwaitsItsOwn, Awaits
    <3> QED BY <1>3, <3>3, <3>4
  <2> QED BY <2>3, <2>4
<1> QED BY <1>4, <1>5, <1>6, <1>7 DEF LoginsInv

\* What asks for nothing and ends nothing.
LEMMA StatusStays ==
  ASSUME LoginsGiven, LoginsInv, logins' \in Nat, statusRequests' = statusRequests,
         \/ pending' = pending
         \/ pending' = [e \in Endpoints |-> None],
         \/ statusLoading' = statusLoading
         \/ \E h \in Requests : statusLoading' = [statusLoading EXCEPT ![h] = FALSE]
  PROVE  LoginsInv'
<1>1. \A h \in Requests : statusLoading'[h] => statusLoading[h]
  BY DEF LoginsInv, LoginShapes
<1>2. statusLoading' \in [Requests -> BOOLEAN]
  BY DEF LoginsInv, LoginShapes
<1>3. LoginShapes'
  BY <1>2 DEF LoginsInv, LoginShapes
<1>4. Logins!PendingIsInFlight'
  BY DEF LoginsInv, Logins!PendingIsInFlight
<1>5. AwaitsItsOwn' /\ LoadingAwaits'
  BY <1>1 DEF LoginsInv, AwaitsItsOwn, LoadingAwaits
<1> QED BY <1>3, <1>4, <1>5 DEF LoginsInv

\* Every step keeps the invariant.
LEMMA LoginsStep ==
  ASSUME LoginsGiven
  PROVE  LoginsInv /\ [Logins!Next]_(Logins!vars) => LoginsInv'
<1> SUFFICES ASSUME LoginsInv, [Logins!Next]_(Logins!vars) PROVE LoginsInv'
  OBVIOUS
<1>0. logins \in Nat
  BY DEF LoginsInv, LoginShapes
<1>1. ASSUME NEW h \in Requests, Logins!Mount(h) \/ Logins!RefreshAuthStatus(h)
      PROVE  LoginsInv'
  <2>1. CASE Logins!Refresh(h)
    BY <2>1, StatusRefreshKeeps
  <2>2. CASE UNCHANGED <<logins, pending, statusRequests, statusLoading>>
    BY <1>0, <2>2, StatusStays
  <2> QED BY <1>1, <2>1, <2>2 DEF Logins!Mount, Logins!RefreshAuthStatus
<1>2. ASSUME NEW h \in Requests, Logins!ClearCache(h)
      PROVE  LoginsInv'
  BY <1>0, <1>2, StatusStays DEF Logins!ClearCache
<1>3. ASSUME NEW h \in Requests, NEW e \in Endpoints, Logins!Fetch(h, e)
      PROVE  LoginsInv'
  BY <1>3, StatusFetchKeeps
<1>4. ASSUME NEW h \in Requests, NEW e \in Endpoints, Logins!FetchCached(h, e)
      PROVE  LoginsInv'
  BY <1>0, <1>4, StatusStays DEF Logins!FetchCached
<1>5. ASSUME NEW r \in PageRequests, Logins!Arrives(r) \/ Logins!Fails(r)
      PROVE  LoginsInv'
  BY <1>5, StatusDoneKeeps DEF Logins!Arrives, Logins!Fails
<1>6. CASE Logins!Leave
  <2>1. /\ pending' = [e \in Endpoints |-> None] /\ logins' = logins
        /\ statusRequests' = [r \in PageRequests |-> Logins!Free]
        /\ statusLoading' = [h \in Requests |-> FALSE]
    BY <1>6 DEF Logins!Leave
  <2> QED BY <1>0, <2>1 DEF LoginsInv, LoginShapes, Logins!PendingIsInFlight, AwaitsItsOwn, LoadingAwaits
<1>7. CASE Logins!Login \/ Logins!Tick \/ UNCHANGED Logins!vars
  <2>1. logins' \in Nat /\ UNCHANGED <<pending, statusRequests, statusLoading>>
    BY <1>0, <1>7 DEF Logins!Login, Logins!Tick, Logins!vars
  <2> QED BY <2>1, StatusStays
<1> QED BY <1>1, <1>2, <1>3, <1>4, <1>5, <1>6, <1>7 DEF Logins!Next

\* At the start nothing is asked.
LEMMA LoginsStart == ASSUME LoginsGiven PROVE Logins!Init => LoginsInv
  BY DEF Logins!Init, LoginsInv, LoginShapes, Logins!PendingIsInFlight, AwaitsItsOwn, LoadingAwaits

\* The invariant is what is promised.
LEMMA LoginsPromise == LoginsInv => Logins!PendingIsInFlight /\ Logins!LoadingEnds
  BY DEF LoginsInv, LoadingAwaits, Awaits, Logins!LoadingEnds, Logins!InFlight

\* The status moves by its own steps.
LEMMA LoginsMove ==
  part = "auth status" /\ [MCNext]_all => [Logins!Next]_(Logins!vars)
  BY DEF MCNext, MCPlatforms, all, rest1, Logins!vars

-----------------------------------------------------------------------------
(* No component goes back to an older status.                                  *)

\* Further, null is neither a number, an answer nor a cache.
StatusNone ==
  /\ None \notin Nat
  /\ \A data, at : None # [data |-> data, at |-> at]
  /\ \A c : None # [e \in Endpoints |-> c[e]]

\* What is known of the logins is of the past.
IsStatus(x) == x \in Nat /\ x <= logins
IsStatusCache(c) ==
  c # None => /\ c = [e \in Endpoints |-> c[e]]
              /\ \A e \in Endpoints : c[e] # None => IsStatus(c[e].data)
StatusesArePast ==
  /\ mounted \subseteq Requests
  /\ statusCache = [h \in Requests |-> statusCache[h]]
  /\ IsStatusCache(statusStored) /\ \A h \in Requests : IsStatusCache(statusCache[h])
  /\ statusShown = [h \in Requests |-> statusShown[h]]
  /\ \A h \in Requests : statusShown[h] # None => IsStatus(statusShown[h])
  /\ \A r \in PageRequests : statusRequests[r] # Logins!Free => IsStatus(statusRequests[r].data)

\* Only components that are there wait for answers, and what is not there shows nothing.
OnlyMountedWait ==
  /\ \A h \in Requests : h \notin mounted => statusShown[h] = None
  /\ \A r \in PageRequests : statusRequests[r] # Logins!Free => statusRequests[r].waiters \subseteq mounted

\* In a page where no request was abandoned or shared, each is awaited by who asked
\* and is the one that is pending,
NoneIsShared ==
  \A r \in PageRequests : statusRequests[r] # Logins!Free =>
    statusRequests[r].waiters = {statusRequests[r].by} /\ pending[statusRequests[r].endpoint] = r

\* and whatever a component may yet show is no older than what it shows.
NoLater(h, data) == statusShown[h] # None => statusShown[h] <= data
AnswersAreNewer ==
  \A r \in PageRequests : statusRequests[r] # Logins!Free /\ statusRequests[r].endpoint = "general" =>
    NoLater(statusRequests[r].by, statusRequests[r].data)
CachesAreNewer ==
  \A h \in Requests : statusCache[h] # None => \A e \in Endpoints :
    e = "general" /\ statusCache[h][e] # None => NoLater(h, statusCache[h][e].data)

ForwardInv ==
  /\ LoginsInv /\ StatusesArePast /\ OnlyMountedWait
  /\ ~mixed => NoneIsShared /\ AnswersAreNewer /\ CachesAreNewer

\* A request belongs to a component that is there.
LEMMA AskedBy ==
  ASSUME LoginsGiven, ForwardInv, NEW r \in PageRequests, statusRequests[r] # Logins!Free
  PROVE  /\ statusRequests[r].by \in Requests /\ statusRequests[r].endpoint \in Endpoints
         /\ statusRequests[r].waiters \subseteq mounted /\ statusRequests[r].waiters \subseteq Requests
         /\ IsStatus(statusRequests[r].data) /\ statusRequests[r] \in StatusRequest
  BY InFlightIs DEF ForwardInv, LoginsInv, StatusRequest, OnlyMountedWait, StatusesArePast

\* What is shown after an answer.
LEMMA ShowIs ==
  ASSUME LoginsGiven, StatusNone, ForwardInv, NEW hs \in SUBSET mounted, NEW e, NEW data, IsStatus(data),
         Logins!Show(hs, e, data), logins' = logins, mounted' = mounted
  PROVE  /\ statusShown' = [h \in Requests |-> statusShown'[h]]
         /\ \A h \in Requests : statusShown'[h] = statusShown[h] \/ (statusShown'[h] = data /\ h \in hs /\ e = "general")
         /\ \A h \in Requests : statusShown'[h] # None => IsStatus(statusShown'[h])
         /\ \A h \in Requests : h \notin mounted => statusShown'[h] = None
         /\ (\A h \in hs : e = "general" => NoLater(h, data)) => (back' => back)
<1>1. /\ statusShown' = [h \in Requests |-> statusShown'[h]]
      /\ \A h \in Requests : statusShown'[h] = statusShown[h] \/ (statusShown'[h] = data /\ h \in hs /\ e = "general")
  BY DEF Logins!Show
<1>2. (\A h \in hs : e = "general" => NoLater(h, data)) => (back' => back)
  <2> SUFFICES ASSUME \A h \in hs : e = "general" => NoLater(h, data), back' PROVE back
    OBVIOUS
  <2>1. back \/ \E h \in hs : e = "general" /\ statusShown[h] # None /\ data < statusShown[h]
    BY DEF Logins!Show
  <2>2. \A h \in hs : statusShown[h] # None => statusShown[h] \in Nat /\ data \in Nat
    BY DEF ForwardInv, StatusesArePast, IsStatus
  <2> QED BY <2>1, <2>2 DEF NoLater
<1> QED BY <1>1, <1>2 DEF ForwardInv, StatusesArePast, OnlyMountedWait

\* An answer that was cached.
LEMMA FetchCachedForward ==
  ASSUME LoginsGiven, StatusNone, ForwardInv, NEW h \in Requests, NEW e \in Endpoints, Logins!FetchCached(h, e)
  PROVE  ForwardInv' /\ Logins!NoOlderLogin
<1>1. LoginsInv'
  BY LoginsStep DEF ForwardInv, Logins!Next
<1> DEFINE data == statusCache[h][e].data
<1>2. /\ h \in mounted /\ pending[e] = None /\ statusCache[h] # None /\ statusCache[h][e] # None
      /\ Logins!Show({h}, e, data)
      /\ UNCHANGED <<logins, statusStored, mounted, statusCache, pending, statusRequests, mixed>>
  BY DEF Logins!FetchCached, Logins!GetCachedData
<1>3. IsStatus(data)
  BY <1>2 DEF ForwardInv, StatusesArePast, IsStatusCache
<1> HIDE DEF data
<1>4. /\ statusShown' = [g \in Requests |-> statusShown'[g]]
      /\ \A g \in Requests : statusShown'[g] = statusShown[g] \/ (statusShown'[g] = data /\ g = h /\ e = "general")
      /\ \A g \in Requests : statusShown'[g] # None => IsStatus(statusShown'[g])
      /\ \A g \in Requests : g \notin mounted => statusShown'[g] = None
      /\ (e = "general" => NoLater(h, data)) => (back' => back)
  BY <1>2, <1>3, ShowIs, SMTT(30)
<1>5. ~mixed /\ e = "general" => NoLater(h, data)
  BY <1>2 DEF ForwardInv, CachesAreNewer, data
<1>6. StatusesArePast' /\ OnlyMountedWait'
  BY <1>2, <1>4 DEF ForwardInv, StatusesArePast, OnlyMountedWait, IsStatusCache, IsStatus
<1>7. ASSUME ~mixed PROVE NoneIsShared'
  BY <1>2, <1>7 DEF ForwardInv, NoneIsShared
<1>8. ASSUME ~mixed PROVE AnswersAreNewer'
  <2> SUFFICES ASSUME NEW r \in PageRequests, statusRequests[r] # Logins!Free,
                      statusRequests[r].endpoint = "general"
               PROVE  NoLater(statusRequests[r].by, statusRequests[r].data)'
    BY <1>2 DEF AnswersAreNewer
  <2>1. statusRequests[r].by \in Requests /\ NoLater(statusRequests[r].by, statusRequests[r].data)
    BY <1>8, AskedBy DEF ForwardInv, AnswersAreNewer
  <2>2. e # "general"
    BY <1>2, <1>8 DEF ForwardInv, NoneIsShared, LoginsGiven
  <2> QED BY <1>2, <1>4, <2>1, <2>2 DEF NoLater
<1>9. ASSUME ~mixed PROVE CachesAreNewer'
  <2> SUFFICES ASSUME NEW g \in Requests, statusCache[g] # None, NEW d \in Endpoints,
                      d = "general", statusCache[g][d] # None
               PROVE  NoLater(g, statusCache[g][d].data)'
    BY <1>2 DEF CachesAreNewer
  <2>1. NoLater(g, statusCache[g][d].data)
    BY <1>9 DEF ForwardInv, CachesAreNewer
  <2>2. data \in Nat
    BY <1>3 DEF IsStatus
  <2> QED BY <1>2, <1>4, <2>1, <2>2 DEF NoLater, data
<1>10. Logins!NoOlderLogin
  BY <1>4, <1>5 DEF Logins!NoOlderLogin
<1> QED BY <1>1, <1>2, <1>6, <1>7, <1>8, <1>9, <1>10 DEF ForwardInv

\* The end of a request.
LEMMA DoneIs ==
  ASSUME LoginsGiven, ForwardInv, NEW r \in PageRequests, statusRequests[r] # Logins!Free, Logins!Done(r)
  PROVE  /\ \A s \in PageRequests : statusRequests'[s] # Logins!Free =>
              s # r /\ statusRequests'[s] = statusRequests[s]
         /\ ~mixed => \A s \in PageRequests : s # r /\ statusRequests[s] # Logins!Free =>
              /\ statusRequests[s].endpoint # statusRequests[r].endpoint
              /\ pending'[statusRequests[s].endpoint] = s
         /\ logins' = logins /\ mounted' = mounted
<1>1. /\ pending' = [pending EXCEPT ![statusRequests[r].endpoint] = None]
      /\ statusRequests' = [statusRequests EXCEPT ![r] = Logins!Free]
      /\ logins' = logins /\ mounted' = mounted
  BY DEF Logins!Done
<1>2. \A s \in PageRequests : statusRequests'[s] # Logins!Free => s # r /\ statusRequests'[s] = statusRequests[s]
  BY <1>1 DEF ForwardInv, LoginsInv, LoginShapes
<1>3. ASSUME ~mixed, NEW s \in PageRequests, s # r, statusRequests[s] # Logins!Free
      PROVE  /\ statusRequests[s].endpoint # statusRequests[r].endpoint
             /\ pending'[statusRequests[s].endpoint] = s
  <2>1. pending[statusRequests[s].endpoint] = s /\ pending[statusRequests[r].endpoint] = r
    BY <1>3 DEF ForwardInv, NoneIsShared
  <2>2. statusRequests[s].endpoint \in Endpoints
    BY <1>3, AskedBy
  <2> QED BY <1>1, <1>3, <2>1, <2>2 DEF ForwardInv, LoginsInv, LoginShapes
<1> QED BY <1>1, <1>2, <1>3

\* A request that fails shows nothing.
LEMMA FailsForward ==
  ASSUME LoginsGiven, StatusNone, ForwardInv, NEW r \in PageRequests, Logins!Fails(r)
  PROVE  ForwardInv' /\ Logins!NoOlderLogin
<1>1. LoginsInv'
  BY LoginsStep DEF ForwardInv, Logins!Next
<1>2. /\ statusRequests[r] # Logins!Free /\ Logins!Done(r)
      /\ UNCHANGED <<statusStored, statusCache, statusShown, mixed, back>>
  BY DEF Logins!Fails
<1>3. StatusesArePast' /\ OnlyMountedWait'
  BY <1>2, DoneIs DEF ForwardInv, StatusesArePast, OnlyMountedWait, IsStatusCache, IsStatus
<1>4. ASSUME ~mixed PROVE NoneIsShared' /\ AnswersAreNewer' /\ CachesAreNewer'
  BY <1>2, <1>4, DoneIs DEF ForwardInv, NoneIsShared, AnswersAreNewer, CachesAreNewer, NoLater
<1> QED BY <1>1, <1>2, <1>3, <1>4 DEF ForwardInv, Logins!NoOlderLogin

\* An answer arrives at those who await it.
LEMMA ArrivesForward ==
  ASSUME LoginsGiven, StatusNone, ForwardInv, NEW r \in PageRequests, Logins!Arrives(r)
  PROVE  ForwardInv' /\ Logins!NoOlderLogin
<1>1. LoginsInv'
  BY LoginsStep DEF ForwardInv, Logins!Next
<1> DEFINE q == statusRequests[r]
           old == IF statusCache[q.by] = None THEN Logins!Empty ELSE statusCache[q.by]
           new == [old EXCEPT ![q.endpoint] = [data |-> q.data, at |-> statusNow]]
<1>2. /\ q # Logins!Free /\ Logins!Done(r) /\ mixed' = mixed
      /\ statusStored' = new /\ statusCache' = [statusCache EXCEPT ![q.by] = new]
      /\ Logins!Show(q.waiters, q.endpoint, q.data)
  BY DEF Logins!Arrives
<1>3. /\ q.by \in Requests /\ q.endpoint \in Endpoints /\ q.waiters \subseteq mounted
      /\ q.waiters \subseteq Requests /\ IsStatus(q.data)
  BY <1>2, AskedBy
<1>4. logins' = logins /\ mounted' = mounted
  BY <1>2, DoneIs
<1>5. /\ statusShown' = [h \in Requests |-> statusShown'[h]]
      /\ \A h \in Requests : statusShown'[h] = statusShown[h] \/ (statusShown'[h] = q.data /\ h \in q.waiters /\ q.endpoint = "general")
      /\ \A h \in Requests : statusShown'[h] # None => IsStatus(statusShown'[h])
      /\ \A h \in Requests : h \notin mounted => statusShown'[h] = None
      /\ (\A h \in q.waiters : q.endpoint = "general" => NoLater(h, q.data)) => (back' => back)
  <2> DEFINE hs == q.waiters
             e == q.endpoint
             data == q.data
  <2>1. hs \in SUBSET mounted /\ IsStatus(data) /\ Logins!Show(hs, e, data)
    BY <1>2, <1>3
  <2> HIDE DEF hs, e, data
  <2>2. /\ statusShown' = [h \in Requests |-> statusShown'[h]]
        /\ \A h \in Requests : statusShown'[h] = statusShown[h] \/ (statusShown'[h] = data /\ h \in hs /\ e = "general")
        /\ \A h \in Requests : statusShown'[h] # None => IsStatus(statusShown'[h])
        /\ \A h \in Requests : h \notin mounted => statusShown'[h] = None
        /\ (\A h \in hs : e = "general" => NoLater(h, data)) => (back' => back)
    BY <1>4, <2>1, ShowIs
  <2> QED BY <2>2 DEF hs, e, data
<1>6. ~mixed => q.waiters = {q.by} /\ (q.endpoint = "general" => NoLater(q.by, q.data))
  BY <1>2 DEF ForwardInv, NoneIsShared, AnswersAreNewer
<1>7. /\ new = [e \in Endpoints |-> new[e]]
      /\ new[q.endpoint].data = q.data
      /\ \A e \in Endpoints : e # q.endpoint /\ new[e] # None =>
           statusCache[q.by] # None /\ new[e] = statusCache[q.by][e]
  <2>1. old = [e \in Endpoints |-> old[e]]
    BY <1>3 DEF ForwardInv, StatusesArePast, IsStatusCache, Logins!Empty
  <2>2. \A e \in Endpoints : old[e] # None => statusCache[q.by] # None /\ old[e] = statusCache[q.by][e]
    BY DEF Logins!Empty
  <2> HIDE DEF old
  <2> QED BY <1>3, <2>1, <2>2
<1> HIDE DEF new, old
<1>8. IsStatusCache(new)
  BY <1>3, <1>7 DEF IsStatusCache, ForwardInv, StatusesArePast
<1>9. /\ statusCache' = [h \in Requests |-> statusCache'[h]]
      /\ statusCache'[q.by] = new
      /\ \A h \in Requests : h # q.by => statusCache'[h] = statusCache[h]
  BY <1>2, <1>3 DEF ForwardInv, StatusesArePast
<1>10. StatusesArePast' /\ OnlyMountedWait'
  <2>1. IsStatusCache(statusStored)' /\ \A h \in Requests : IsStatusCache(statusCache[h])'
    BY <1>2, <1>4, <1>8, <1>9 DEF ForwardInv, StatusesArePast, IsStatusCache, IsStatus
  <2>2. \A s \in PageRequests : statusRequests'[s] # Logins!Free => statusRequests'[s] = statusRequests[s]
    BY <1>2, DoneIs
  <2>3. \A h \in Requests : statusShown'[h] # None => IsStatus(statusShown[h])'
    BY <1>4, <1>5 DEF IsStatus
  <2>4. \A s \in PageRequests : statusRequests'[s] # Logins!Free => IsStatus(statusRequests[s].data)'
    BY <1>4, <2>2 DEF ForwardInv, StatusesArePast, IsStatus
  <2>5. StatusesArePast'
    BY <1>4, <1>5, <1>9, <2>1, <2>3, <2>4 DEF ForwardInv, StatusesArePast
  <2>6. OnlyMountedWait'
    BY <1>4, <1>5, <2>2 DEF ForwardInv, OnlyMountedWait
  <2> QED BY <2>5, <2>6
<1>11. ASSUME ~mixed PROVE NoneIsShared'
  BY <1>2, <1>11, DoneIs DEF ForwardInv, NoneIsShared
<1>12. ASSUME ~mixed PROVE AnswersAreNewer'
  <2> SUFFICES ASSUME NEW s \in PageRequests, statusRequests'[s] # Logins!Free,
                      statusRequests'[s].endpoint = "general"
               PROVE  NoLater(statusRequests[s].by, statusRequests[s].data)'
    BY DEF AnswersAreNewer
  <2>1. s # r /\ statusRequests'[s] = statusRequests[s] /\ statusRequests[s].endpoint # q.endpoint
    BY <1>2, <1>12, DoneIs
  <2>2. statusRequests[s].by \in Requests /\ NoLater(statusRequests[s].by, statusRequests[s].data)
    BY <1>12, <2>1, AskedBy DEF ForwardInv, AnswersAreNewer
  <2> QED BY <1>5, <2>1, <2>2 DEF NoLater
<1>13. ASSUME ~mixed PROVE CachesAreNewer'
  <2> SUFFICES ASSUME NEW h \in Requests, statusCache'[h] # None, NEW e \in Endpoints,
                      e = "general", statusCache'[h][e] # None
               PROVE  NoLater(h, statusCache[h][e].data)'
    BY DEF CachesAreNewer
  <2>1. CASE h = q.by /\ e = q.endpoint
    <3>1. statusCache'[h][e].data = q.data /\ NoLater(h, q.data)
      BY <1>6, <1>7, <1>9, <1>13, <2>1
    <3>2. q.data \in Nat
      BY <1>3 DEF IsStatus
    <3> QED BY <1>5, <3>1, <3>2 DEF NoLater
  <2>2. CASE h = q.by /\ e # q.endpoint
    <3>1. statusCache[h] # None /\ statusCache[h][e] # None /\ statusCache'[h][e] = statusCache[h][e]
      BY <1>7, <1>9, <2>2
    <3>2. NoLater(h, statusCache[h][e].data) /\ statusShown'[h] = statusShown[h]
      BY <1>5, <1>13, <2>2, <3>1 DEF ForwardInv, CachesAreNewer
    <3> QED BY <3>1, <3>2 DEF NoLater
  <2>3. CASE h # q.by
    <3>1. statusCache'[h] = statusCache[h] /\ statusShown'[h] = statusShown[h]
      BY <1>5, <1>6, <1>9, <1>13, <2>3
    <3>2. NoLater(h, statusCache[h][e].data)
      BY <1>13, <3>1 DEF ForwardInv, CachesAreNewer
    <3> QED BY <3>1, <3>2 DEF NoLater
  <2> QED BY <2>1, <2>2, <2>3
<1>14. Logins!NoOlderLogin
  BY <1>5, <1>6 DEF Logins!NoOlderLogin
<1> QED BY <1>1, <1>2, <1>10, <1>11, <1>12, <1>13, <1>14 DEF ForwardInv

\* Asking shows nothing.
LEMMA FetchForward ==
  ASSUME LoginsGiven, StatusNone, ForwardInv, NEW h \in Requests, NEW e \in Endpoints, Logins!Fetch(h, e)
  PROVE  ForwardInv' /\ Logins!NoOlderLogin
<1>1. LoginsInv'
  BY LoginsStep DEF ForwardInv, Logins!Next
<1>2. /\ h \in mounted
      /\ UNCHANGED <<logins, statusStored, mounted, statusCache, statusShown, back>>
  BY DEF Logins!Fetch
<1>3. ~mixed' => ~mixed
  BY DEF Logins!Fetch
<1>4. ASSUME NEW p \in PageRequests, NEW q,
             \A r \in PageRequests : r # p => statusRequests'[r] = statusRequests[r],
             statusRequests'[p] = q, q # Logins!Free, q.by \in Requests, IsStatus(q.data), q.waiters \subseteq mounted,
             q.endpoint \in Endpoints,
             ~mixed' => /\ q.waiters = {q.by} /\ pending'[q.endpoint] = p
                        /\ q.endpoint = "general" => NoLater(q.by, q.data)
                        /\ \A d \in Endpoints : d # q.endpoint => pending'[d] = pending[d]
                        /\ \A r \in PageRequests : r # p /\ statusRequests[r] # Logins!Free =>
                             statusRequests[r].endpoint # q.endpoint
      PROVE  StatusesArePast' /\ OnlyMountedWait' /\ (~mixed' => NoneIsShared' /\ AnswersAreNewer' /\ CachesAreNewer')
  <2>1. StatusesArePast'
    BY <1>2, <1>4 DEF ForwardInv, StatusesArePast, IsStatusCache, IsStatus
  <2>2. OnlyMountedWait'
    BY <1>2, <1>4 DEF ForwardInv, OnlyMountedWait
  <2>3. ASSUME ~mixed', NEW r \in PageRequests, statusRequests'[r] # Logins!Free
        PROVE  /\ statusRequests'[r].waiters = {statusRequests'[r].by}
               /\ pending'[statusRequests'[r].endpoint] = r
    <3>1. CASE r = p
      BY <1>4, <2>3, <3>1
    <3>2. CASE r # p
      <4>1. /\ statusRequests[r].waiters = {statusRequests[r].by} /\ pending[statusRequests[r].endpoint] = r
            /\ statusRequests'[r] = statusRequests[r]
        BY <1>3, <1>4, <2>3, <3>2 DEF ForwardInv, NoneIsShared
      <4>2. statusRequests[r].endpoint \in Endpoints /\ statusRequests[r].endpoint # q.endpoint
        BY <1>4, <2>3, <3>2, <4>1, AskedBy
      <4> QED BY <1>4, <2>3, <4>1, <4>2
    <3> QED BY <3>1, <3>2
  <2>4. ASSUME ~mixed' PROVE AnswersAreNewer'
    BY <1>2, <1>3, <1>4, <2>4 DEF ForwardInv, AnswersAreNewer, NoLater
  <2>5. ASSUME ~mixed' PROVE CachesAreNewer'
    BY <1>2, <1>3, <2>5 DEF ForwardInv, CachesAreNewer, NoLater
  <2> QED BY <2>1, <2>2, <2>3, <2>4, <2>5 DEF NoneIsShared
<1>5. CASE pending[e] # None
  <2> DEFINE p == pending[e]
             q == statusRequests[p]
  <2>1. p \in PageRequests /\ q.endpoint = e /\ q # Logins!Free
    BY <1>5, PendingIs DEF ForwardInv
  <2>2. /\ q.by \in Requests /\ q.waiters \subseteq mounted /\ IsStatus(q.data) /\ q \in StatusRequest
    BY <2>1, AskedBy
  <2>3. /\ statusRequests' = [statusRequests EXCEPT ![p].waiters = @ \cup {h}] /\ pending' = pending
        /\ ~mixed' => ~mixed /\ q.by = h
    BY <1>5 DEF Logins!Fetch
  <2> DEFINE new == statusRequests'[p]
  <2>4. /\ \A r \in PageRequests : r # p => statusRequests'[r] = statusRequests[r]
        /\ new = [q EXCEPT !.waiters = q.waiters \cup {h}]
    BY <2>1, <2>3 DEF ForwardInv, LoginsInv, LoginShapes
  <2>5. /\ new.endpoint = e /\ new.by = q.by /\ new.data = q.data
        /\ new.waiters = q.waiters \cup {h}
    BY <2>1, <2>2, <2>4 DEF StatusRequest
  <2>6. new # Logins!Free
    BY <2>5 DEF LoginsGiven, Logins!Free
  <2>7. ~mixed' => /\ q.waiters = {q.by} /\ (e = "general" => NoLater(q.by, q.data))
                   /\ \A r \in PageRequests : r # p /\ statusRequests[r] # Logins!Free =>
                        statusRequests[r].endpoint # e
    BY <2>1, <2>3 DEF ForwardInv, NoneIsShared, AnswersAreNewer
  <2> HIDE DEF new, q
  <2>8. new.waiters \subseteq mounted /\ (~mixed' => new.waiters = {new.by})
    BY <1>2, <2>2, <2>3, <2>5, <2>7
  <2>9. ~mixed' => /\ pending'[new.endpoint] = p /\ (new.endpoint = "general" => NoLater(new.by, new.data))
                   /\ \A d \in Endpoints : d # new.endpoint => pending'[d] = pending[d]
                   /\ \A r \in PageRequests : r # p /\ statusRequests[r] # Logins!Free =>
                        statusRequests[r].endpoint # new.endpoint
    BY <2>3, <2>5, <2>7
  <2>10. statusRequests'[p] = new
    BY DEF new
  <2>11. StatusesArePast' /\ OnlyMountedWait' /\ (~mixed' => NoneIsShared' /\ AnswersAreNewer' /\ CachesAreNewer')
    <3> HIDE DEF p
    <3> QED BY <1>4, <2>1, <2>2, <2>4, <2>5, <2>6, <2>8, <2>9, <2>10, ZenonT(40)
  <2> QED BY <1>1, <1>2, <2>11 DEF ForwardInv, Logins!NoOlderLogin
<1>6. CASE pending[e] = None
  <2> DEFINE n == Logins!NewRequest
             new == Logins!Request(h, e, FALSE)
  <2>1. /\ Logins!InFlight # PageRequests
        /\ statusRequests' = [statusRequests EXCEPT ![n] = new]
        /\ pending' = [pending EXCEPT ![e] = n]
    BY <1>6 DEF Logins!Fetch
  <2>2. n \in PageRequests
    <3> DEFINE S == PageRequests \ Logins!InFlight
    <3>1. S # {} /\ S \in SUBSET Nat
      BY <2>1 DEF Logins!InFlight, LoginsGiven
    <3>2. \A m \in S : m \in PageRequests
      OBVIOUS
    <3> HIDE DEF S
    <3>3. Logins!Min(S) \in S
      BY <3>1, Least DEF Logins!Min
    <3> QED BY <3>2, <3>3 DEF Logins!NewRequest, S
  <2>3. /\ new # Logins!Free /\ new.endpoint = e /\ new.by = h /\ new.waiters = {h} /\ new.data = logins
    BY DEF Logins!Request, Logins!Free
  <2> HIDE DEF n, new
  <2>4. /\ \A r \in PageRequests : r # n => statusRequests'[r] = statusRequests[r]
        /\ statusRequests'[n] = new
        /\ pending'[e] = n /\ \A d \in Endpoints : d # e => pending'[d] = pending[d]
    BY <2>1, <2>2 DEF ForwardInv, LoginsInv, LoginShapes
  <2>5. IsStatus(logins) /\ NoLater(h, logins)
    BY DEF ForwardInv, LoginsInv, LoginShapes, StatusesArePast, IsStatus, NoLater
  <2>6. ~mixed' => \A r \in PageRequests : statusRequests[r] # Logins!Free => statusRequests[r].endpoint # e
    BY <1>3, <1>6 DEF ForwardInv, NoneIsShared, LoginsGiven
  <2>7. StatusesArePast' /\ OnlyMountedWait' /\ (~mixed' => NoneIsShared' /\ AnswersAreNewer' /\ CachesAreNewer')
    BY <1>2, <1>4, <2>2, <2>3, <2>4, <2>5, <2>6
  <2> QED BY <1>1, <1>2, <2>7 DEF ForwardInv, Logins!NoOlderLogin
<1> QED BY <1>5, <1>6

\* A refresh forgets what was cached, and who was waiting.
LEMMA RefreshForward ==
  ASSUME LoginsGiven, StatusNone, ForwardInv, LoginsInv', NEW h \in Requests, Logins!Refresh(h),
         mounted' \in SUBSET Requests, mounted \subseteq mounted', h \in mounted'
  PROVE  ForwardInv' /\ Logins!NoOlderLogin
<1>1. /\ pending' \in [Endpoints -> PageRequests \ Logins!InFlight]
      /\ \A d, e \in Endpoints : pending'[d] = pending'[e] => d = e
      /\ statusStored' = None /\ statusCache' = [statusCache EXCEPT ![h] = None]
      /\ mixed' = (mixed \/ Logins!InFlight # {})
      /\ UNCHANGED <<logins, statusShown, back>>
  BY DEF Logins!Refresh
<1> DEFINE asked(r) == CHOOSE e \in Endpoints : pending'[e] = r
<1>2. statusRequests' = [r \in PageRequests |->
        IF \E e \in Endpoints : pending'[e] = r THEN Logins!Request(h, asked(r), TRUE) ELSE statusRequests[r]]
  BY DEF Logins!Refresh
<1>3. ASSUME NEW e \in Endpoints
      PROVE  pending'[e] \in PageRequests /\ asked(pending'[e]) = e
  BY <1>1
<1> HIDE DEF asked
<1>4. ASSUME NEW e \in Endpoints
      PROVE  LET q == statusRequests'[pending'[e]] IN
             q.endpoint = e /\ q.by = h /\ q.waiters = {h} /\ q.data = logins
  BY <1>2, <1>3 DEF Logins!Request
<1>5. ASSUME NEW r \in PageRequests
      PROVE  (\E e \in Endpoints : pending'[e] = r) \/ statusRequests'[r] = statusRequests[r]
  BY <1>2
<1>6. IsStatus(logins) /\ NoLater(h, logins) /\ logins' = logins
  BY <1>1 DEF ForwardInv, LoginsInv, LoginShapes, StatusesArePast, IsStatus, NoLater
<1>7. /\ statusCache' = [g \in Requests |-> statusCache'[g]]
      /\ statusCache'[h] = None /\ \A g \in Requests : g # h => statusCache'[g] = statusCache[g]
  BY <1>1 DEF ForwardInv, StatusesArePast
<1>8. StatusesArePast'
  <2>1. \A r \in PageRequests : statusRequests'[r] # Logins!Free => IsStatus(statusRequests[r].data)'
    BY <1>4, <1>5, <1>6 DEF ForwardInv, StatusesArePast, IsStatus
  <2>2. IsStatusCache(statusStored)' /\ \A g \in Requests : IsStatusCache(statusCache[g])'
    BY <1>1, <1>7 DEF ForwardInv, StatusesArePast, IsStatusCache, IsStatus
  <2> QED BY <1>1, <1>7, <2>1, <2>2 DEF ForwardInv, StatusesArePast, IsStatus
<1>9. OnlyMountedWait'
  <2>1. \A r \in PageRequests : statusRequests'[r] # Logins!Free => statusRequests'[r].waiters \subseteq mounted'
    BY <1>4, <1>5 DEF ForwardInv, OnlyMountedWait
  <2> QED BY <1>1, <2>1 DEF ForwardInv, OnlyMountedWait
<1>10. ASSUME ~mixed' PROVE NoneIsShared' /\ AnswersAreNewer' /\ CachesAreNewer'
  <2>1. ~mixed /\ \A r \in PageRequests : statusRequests[r] = Logins!Free
    BY <1>1, <1>10 DEF Logins!InFlight
  <2>2. \A r \in PageRequests : statusRequests'[r] # Logins!Free => \E e \in Endpoints : pending'[e] = r
    BY <1>5, <2>1
  <2>3. NoneIsShared'
    BY <1>4, <2>2 DEF NoneIsShared
  <2>4. AnswersAreNewer'
    BY <1>1, <1>4, <1>6, <2>2 DEF AnswersAreNewer, NoLater
  <2>5. CachesAreNewer'
    BY <1>1, <1>7, <2>1 DEF ForwardInv, CachesAreNewer, NoLater
  <2> QED BY <2>3, <2>4, <2>5
<1> QED BY <1>1, <1>8, <1>9, <1>10 DEF ForwardInv, Logins!NoOlderLogin

\* Every step.
LEMMA ForwardStep ==
  ASSUME LoginsGiven, StatusNone
  PROVE  ForwardInv /\ [Logins!Next]_(Logins!vars) => ForwardInv' /\ Logins!NoOlderLogin
<1> SUFFICES ASSUME ForwardInv, [Logins!Next]_(Logins!vars) PROVE ForwardInv' /\ Logins!NoOlderLogin
  OBVIOUS
<1>0. LoginsInv'
  BY LoginsStep DEF ForwardInv
<1>1. ASSUME NEW h \in Requests, Logins!Mount(h)
      PROVE  ForwardInv' /\ Logins!NoOlderLogin
  <2>1. h \notin mounted /\ mounted' = mounted \cup {h}
    BY <1>1 DEF Logins!Mount
  <2>2. mounted' \in SUBSET Requests
    BY <2>1 DEF ForwardInv, StatusesArePast
  <2>3. CASE Logins!Refresh(h)
    BY <1>0, <2>1, <2>2, <2>3, RefreshForward
  <2>4. CASE ~Logins!Refresh(h)
    <3>1. /\ statusCache' = [statusCache EXCEPT ![h] = statusStored]
          /\ UNCHANGED <<logins, statusStored, pending, statusRequests, statusShown, mixed, back>>
      BY <1>1, <2>4 DEF Logins!Mount
    <3>2. /\ statusCache' = [g \in Requests |-> statusCache'[g]]
          /\ statusCache'[h] = statusStored /\ \A g \in Requests : g # h => statusCache'[g] = statusCache[g]
      BY <3>1 DEF ForwardInv, StatusesArePast
    <3>3. statusShown[h] = None
      BY <2>1 DEF ForwardInv, OnlyMountedWait
    <3>4. StatusesArePast' /\ OnlyMountedWait'
      BY <2>1, <2>2, <3>1, <3>2 DEF ForwardInv, StatusesArePast, OnlyMountedWait, IsStatusCache, IsStatus
    <3>5. ASSUME ~mixed PROVE NoneIsShared' /\ AnswersAreNewer' /\ CachesAreNewer'
      BY <3>1, <3>2, <3>3, <3>5 DEF ForwardInv, NoneIsShared, AnswersAreNewer, CachesAreNewer, NoLater
    <3> QED BY <1>0, <3>1, <3>4, <3>5 DEF ForwardInv, Logins!NoOlderLogin
  <2> QED BY <2>3, <2>4
<1>2. ASSUME NEW h \in Requests, Logins!RefreshAuthStatus(h)
      PROVE  ForwardInv' /\ Logins!NoOlderLogin
  <2>1. h \in mounted /\ mounted' = mounted /\ Logins!Refresh(h) /\ mounted \subseteq Requests
    BY <1>2 DEF Logins!RefreshAuthStatus, ForwardInv, StatusesArePast
  <2> QED BY <1>0, <2>1, RefreshForward
<1>3. ASSUME NEW h \in Requests, Logins!ClearCache(h)
      PROVE  ForwardInv' /\ Logins!NoOlderLogin
  <2>1. /\ statusStored' = None /\ statusCache' = [statusCache EXCEPT ![h] = None]
        /\ mixed' = (mixed \/ Logins!InFlight # {})
        /\ UNCHANGED <<logins, mounted, statusRequests, statusShown, back>>
    BY <1>3 DEF Logins!ClearCache
  <2>2. /\ statusCache' = [g \in Requests |-> statusCache'[g]]
        /\ \A g \in Requests : statusCache'[g] = None \/ statusCache'[g] = statusCache[g]
    BY <2>1 DEF ForwardInv, StatusesArePast
  <2>3. StatusesArePast' /\ OnlyMountedWait'
    BY <2>1, <2>2 DEF ForwardInv, StatusesArePast, OnlyMountedWait, IsStatusCache, IsStatus
  <2>4. ASSUME ~mixed' PROVE NoneIsShared' /\ AnswersAreNewer' /\ CachesAreNewer'
    <3>1. ~mixed /\ \A r \in PageRequests : statusRequests[r] = Logins!Free
      BY <2>1, <2>4 DEF Logins!InFlight
    <3> QED BY <2>1, <2>2, <3>1 DEF ForwardInv, NoneIsShared, AnswersAreNewer, CachesAreNewer, NoLater
  <2> QED BY <1>0, <2>1, <2>3, <2>4 DEF ForwardInv, Logins!NoOlderLogin
<1>4. ASSUME NEW h \in Requests, NEW e \in Endpoints, Logins!Fetch(h, e) \/ Logins!FetchCached(h, e)
      PROVE  ForwardInv' /\ Logins!NoOlderLogin
  BY <1>4, FetchForward, FetchCachedForward
<1>5. ASSUME NEW r \in PageRequests, Logins!Arrives(r) \/ Logins!Fails(r)
      PROVE  ForwardInv' /\ Logins!NoOlderLogin
  BY <1>5, ArrivesForward, FailsForward
<1>6. CASE Logins!Leave
  <2>1. /\ mounted' = {} /\ statusCache' = [h \in Requests |-> None]
        /\ statusRequests' = [r \in PageRequests |-> Logins!Free]
        /\ statusShown' = [h \in Requests |-> None]
        /\ UNCHANGED <<logins, statusStored, back>>
    BY <1>6 DEF Logins!Leave
  <2>2. StatusesArePast' /\ OnlyMountedWait'
    BY <2>1 DEF ForwardInv, StatusesArePast, OnlyMountedWait, IsStatusCache, IsStatus
  <2>3. NoneIsShared' /\ AnswersAreNewer' /\ CachesAreNewer'
    BY <2>1 DEF NoneIsShared, AnswersAreNewer, CachesAreNewer
  <2> QED BY <1>0, <2>1, <2>2, <2>3 DEF ForwardInv, Logins!NoOlderLogin
<1>7. CASE Logins!Login \/ Logins!Tick \/ UNCHANGED Logins!vars
  <2>1. /\ logins \in Nat /\ logins' \in Nat /\ logins <= logins'
        /\ UNCHANGED <<statusStored, mounted, statusCache, pending, statusRequests, statusShown, mixed, back>>
    BY <1>7 DEF Logins!Login, Logins!Tick, Logins!vars, ForwardInv, LoginsInv, LoginShapes
  <2>2. \A x : IsStatus(x) => IsStatus(x)'
    BY <2>1 DEF IsStatus
  <2>3. StatusesArePast' /\ OnlyMountedWait'
    BY <2>1, <2>2 DEF ForwardInv, StatusesArePast, OnlyMountedWait, IsStatusCache, IsStatus
  <2>4. ASSUME ~mixed PROVE NoneIsShared' /\ AnswersAreNewer' /\ CachesAreNewer'
    BY <2>1, <2>4 DEF ForwardInv, NoneIsShared, AnswersAreNewer, CachesAreNewer, NoLater
  <2> QED BY <1>0, <2>1, <2>3, <2>4 DEF ForwardInv, Logins!NoOlderLogin
<1> QED BY <1>1, <1>2, <1>3, <1>4, <1>5, <1>6, <1>7 DEF Logins!Next

\* At the start nothing is shown.
LEMMA ForwardStart ==
  ASSUME LoginsGiven, StatusNone
  PROVE  Logins!Init => ForwardInv
<1> SUFFICES ASSUME Logins!Init PROVE ForwardInv
  OBVIOUS
<1>1. LoginsInv
  BY LoginsStart
<1>2. /\ mounted = {} /\ statusStored = None /\ statusCache = [h \in Requests |-> None]
      /\ statusRequests = [r \in PageRequests |-> Logins!Free]
      /\ statusShown = [h \in Requests |-> None]
  BY DEF Logins!Init
<1> QED BY <1>1, <1>2 DEF ForwardInv, StatusesArePast, OnlyMountedWait, NoneIsShared, AnswersAreNewer, CachesAreNewer,
      IsStatusCache

-----------------------------------------------------------------------------
(* The session of a browser (app/components/hooks/useSession.ts).             *)

\* null is neither a session nor an id; updates are of values.
SessionsGiven ==
  /\ MaxSessions \in Nat /\ 0 \in SessionValues
  /\ None \notin Browser!Sessions /\ None \notin Browser!Ids
  /\ \A u \in SessionUpdates : \A f \in Browser!Fields \cap DOMAIN u : u[f] \in SessionValues

Kinds == {"init", "create", "update", "refresh", "clear"}
SessionCall ==
  [kind : Kinds, at : {"save", "get", "read", "write", "delete", "answer"},
   id : Browser!Ids \cup {None}, updates : SessionUpdates \cup {<<>>},
   session : Browser!Sessions \cup {None}, ok : BOOLEAN, heard : BOOLEAN]

SessionShapes ==
  /\ sessionStore \in [Browser!Ids -> Browser!Sessions \cup {None}]
  /\ session \in Browser!Sessions \cup {None}
  /\ sessionId \in Browser!Ids \cup {None} /\ savedId \in Browser!Ids \cup {None}
  /\ sessionLoading \in BOOLEAN /\ initialized \in BOOLEAN /\ disturbed \in BOOLEAN
  /\ sessionCalls \in [Requests -> SessionCall \cup {Browser!Free}]

\* What a call carries by the time it is at a step of its handler.
Carries(q) ==
  /\ q.at \in {"read", "write"} => q.kind = "update"
  /\ q.at = "delete" => q.kind = "clear"
  /\ q.at = "save" <=> q.kind = "create" /\ q.at # "answer"
  /\ q.kind # "create" => q.id # None
  /\ q.at = "write" => q.session # None
  /\ q.at = "answer" => q.heard
  /\ q.at = "answer" /\ q.ok /\ q.kind \in {"init", "create", "refresh"} => q.id # None /\ q.session # None
CallsCarry == \A c \in Requests : sessionCalls[c] # Browser!Free => Carries(sessionCalls[c])

\* The calls whose answers the page waits for.
Heard == {c \in Requests : sessionCalls[c] # Browser!Free /\ sessionCalls[c].heard}

\* A page starts by one call, after which it has the session it saved the id of; its
\* other calls are about that session.
OnePage ==
  /\ sessionId # None => session # None /\ savedId = sessionId /\ initialized
  /\ \A c \in Heard :
       /\ initialized
       /\ sessionCalls[c].kind \in {"init", "create"} =>
            /\ sessionId = None /\ Heard = {c}
            /\ sessionCalls[c].kind = "init" => sessionCalls[c].id = savedId
       /\ sessionId # None => sessionCalls[c].id = sessionId

\* The page is loading while one of the calls that end it is under way.
SessionLoads == sessionLoading => \E c \in Heard : sessionCalls[c].kind \in {"init", "create", "refresh"}

\* What is shown is what is in the store, if that is still there, up to what the one
\* call under way has done or read.
Agrees(c) ==
  LET q == sessionCalls[c]
      due == IF q.kind = "update" /\ q.at = "answer" /\ q.ok THEN Browser!Merged(session, q.updates) ELSE session
  IN /\ sessionId # None =>
          /\ sessionStore[sessionId] \in {due, None}
          /\ q.at = "write" => q.session = Browser!Merged(session, q.updates)
          /\ q.kind = "refresh" /\ q.at = "answer" /\ q.ok => q.session = session
     /\ q.kind \in {"init", "create"} /\ q.at = "answer" /\ q.ok => sessionStore[q.id] \in {q.session, None}

Calm ==
  ~disturbed =>
    /\ \A c \in Browser!Busy : c \in Heard /\ Browser!Busy = {c} /\ Agrees(c)
    /\ Browser!Busy = {} /\ sessionId # None => sessionStore[sessionId] \in {session, None}

SessionInv == SessionShapes /\ CallsCarry /\ OnePage /\ SessionLoads /\ Calm

\* A call under way is a call.
LEMMA BusyCall ==
  ASSUME SessionShapes, NEW c \in Requests
  PROVE  /\ sessionCalls[c] # Browser!Free => sessionCalls[c] \in SessionCall
         /\ sessionCalls[c] # Browser!Free <=> sessionCalls[c].at # "free"
         /\ Browser!Free \notin SessionCall /\ Browser!Free.at = "free"
  BY DEF SessionShapes, SessionCall, Browser!Free

\* Sessions are merged to sessions, and a new one is one.
LEMMA SessionsAre ==
  ASSUME SessionsGiven
  PROVE  /\ Browser!NewSession \in Browser!Sessions
         /\ \A s \in Browser!Sessions, u \in SessionUpdates \cup {<<>>} : Browser!Merged(s, u) \in Browser!Sessions
<1>1. Browser!NewSession \in Browser!Sessions
  BY DEF SessionsGiven, Browser!NewSession, Browser!Sessions
<1>2. ASSUME NEW s \in Browser!Sessions, NEW u \in SessionUpdates PROVE Browser!Merged(s, u) \in Browser!Sessions
  BY DEF SessionsGiven, Browser!Merged, Browser!Sessions
<1>3. ASSUME NEW s \in Browser!Sessions PROVE Browser!Merged(s, <<>>) \in Browser!Sessions
  <2>1. \A f \in Browser!Fields : f \notin DOMAIN <<>>
    OBVIOUS
  <2> QED BY <2>1 DEF Browser!Merged, Browser!Sessions
<1> QED BY <1>1, <1>2, <1>3

\* A step of the server for one call, which keeps its kind and what it is about, and
\* ends unheard calls only, keeps the invariant if the page agrees with it after.
LEMMA ServerKeeps ==
  ASSUME SessionsGiven, SessionInv, NEW c \in Requests, sessionCalls[c] # Browser!Free, NEW new,
         sessionCalls' = [sessionCalls EXCEPT ![c] = new],
         \/ new = Browser!Free /\ ~sessionCalls[c].heard
         \/ /\ new \in SessionCall /\ Carries(new)
            /\ new.kind = sessionCalls[c].kind \/ (new.kind = "create" /\ sessionCalls[c].kind = "init")
            /\ new.heard = sessionCalls[c].heard
            /\ new.id = sessionCalls[c].id \/ new.kind = "create",
         sessionStore' \in [Browser!Ids -> Browser!Sessions \cup {None}],
         disturbed' \in BOOLEAN, disturbed => disturbed',
         UNCHANGED <<savedId, session, sessionId, sessionLoading, initialized>>,
         ~disturbed' /\ c \in Heard /\ Agrees(c) /\ Browser!Busy = {c} => Agrees(c)'
  PROVE  SessionInv'
<1>1. /\ sessionCalls'[c] = new
      /\ \A d \in Requests : d # c => sessionCalls'[d] = sessionCalls[d]
      /\ sessionCalls' \in [Requests -> SessionCall \cup {Browser!Free}]
  BY DEF SessionInv, SessionShapes
<1>2. SessionShapes'
  BY <1>1 DEF SessionInv, SessionShapes
<1>3. CallsCarry'
  BY <1>1 DEF SessionInv, CallsCarry
<1>4. new \in SessionCall => new # Browser!Free
  BY BusyCall DEF SessionInv
<1>5. Heard' = Heard
  <2>1. c \in Heard' <=> c \in Heard
    BY <1>1, <1>4 DEF Heard
  <2>2. \A d \in Requests : d # c => (d \in Heard' <=> d \in Heard)
    BY <1>1 DEF Heard
  <2>3. Heard \subseteq Requests /\ Heard' \subseteq Requests
    BY DEF Heard
  <2> QED BY <2>1, <2>2, <2>3
<1>6. \A d \in Heard :
        /\ sessionCalls'[d].kind = sessionCalls[d].kind
           \/ (sessionCalls'[d].kind = "create" /\ sessionCalls[d].kind = "init")
        /\ sessionCalls'[d].id = sessionCalls[d].id \/ sessionCalls'[d].kind = "create"
  BY <1>1 DEF Heard
<1>7. OnePage'
  BY <1>5, <1>6 DEF SessionInv, OnePage
<1>8. SessionLoads'
  BY <1>5, <1>6 DEF SessionInv, SessionLoads
<1>9. Calm'
  <2> SUFFICES ASSUME ~disturbed' PROVE Calm'
    BY DEF Calm
  <2>1. ~disturbed /\ c \in Heard /\ Agrees(c) /\ Browser!Busy = {c}
    BY DEF SessionInv, Calm, Browser!Busy
  <2>2. new \in SessionCall
    BY <2>1 DEF Heard
  <2>3. Browser!Busy' = {c}
    BY <1>1, <1>4, <2>1, <2>2 DEF Browser!Busy
  <2> QED BY <1>5, <2>1, <2>3 DEF Calm
<1> QED BY <1>2, <1>3, <1>7, <1>8, <1>9 DEF SessionInv

\* An answer is heard, or ends the call.
LEMMA AnswerIs ==
  ASSUME SessionsGiven, SessionInv, NEW c \in Requests, sessionCalls[c] \in SessionCall,
         NEW id \in Browser!Ids \cup {None}, NEW ok \in BOOLEAN, NEW s \in Browser!Sessions \cup {None},
         sessionCalls' = [sessionCalls EXCEPT ![c] =
           IF @.heard THEN [@ EXCEPT !.at = "answer", !.id = id, !.ok = ok, !.session = s] ELSE Browser!Free],
         sessionStore' \in [Browser!Ids -> Browser!Sessions \cup {None}],
         disturbed' \in BOOLEAN, disturbed => disturbed',
         UNCHANGED <<savedId, session, sessionId, sessionLoading, initialized>>,
         id = sessionCalls[c].id \/ sessionCalls[c].kind = "create",
         sessionCalls[c].kind # "create" => id # None,
         ok /\ sessionCalls[c].kind \in {"init", "create", "refresh"} => id # None /\ s # None,
         ~disturbed' /\ c \in Heard /\ Agrees(c) /\ Browser!Busy = {c} =>
           /\ sessionId # None =>
                /\ sessionStore'[sessionId] \in
                     {IF sessionCalls[c].kind = "update" /\ ok
                      THEN Browser!Merged(session, sessionCalls[c].updates) ELSE session, None}
                /\ sessionCalls[c].kind = "refresh" /\ ok => s = session
           /\ sessionCalls[c].kind \in {"init", "create"} /\ ok => sessionStore'[id] \in {s, None}
  PROVE  SessionInv'
<1> DEFINE q == sessionCalls[c]
           done == [q EXCEPT !.at = "answer", !.id = id, !.ok = ok, !.session = s]
           new == IF q.heard THEN done ELSE Browser!Free
<1>1. sessionCalls' = [sessionCalls EXCEPT ![c] = new]
  BY DEF SessionInv, SessionShapes
<1>2. q \in SessionCall /\ q # Browser!Free
  BY BusyCall DEF SessionInv
<1>3. /\ done \in SessionCall /\ done.kind = q.kind /\ done.updates = q.updates /\ done.heard = q.heard
      /\ done.at = "answer" /\ done.id = id /\ (done.ok <=> ok) /\ done.session = s
  <2>1. done.kind = q.kind /\ done.updates = q.updates /\ done.heard = q.heard
    BY <1>2 DEF SessionCall
  <2>2. done.at = "answer" /\ done.id = id /\ (done.ok <=> ok) /\ done.session = s
    BY <1>2 DEF SessionCall
  <2>3. done \in SessionCall
    BY <1>2 DEF SessionCall
  <2> HIDE DEF done
  <2> QED BY <2>1, <2>2, <2>3
<1> HIDE DEF done
<1>4. q.heard => Carries(done)
  BY <1>3 DEF Carries
<1>5. sessionCalls'[c] = new
  BY <1>1 DEF SessionInv, SessionShapes
<1>6. c \in Heard => q.heard
  BY DEF Heard
<1>7. ~disturbed' /\ c \in Heard /\ Agrees(c) /\ Browser!Busy = {c} => Agrees(c)'
  BY <1>3, <1>5, <1>6 DEF Agrees
<1>8. \/ new = Browser!Free /\ ~q.heard
      \/ /\ new \in SessionCall /\ Carries(new)
         /\ new.kind = q.kind \/ (new.kind = "create" /\ q.kind = "init")
         /\ new.heard = q.heard
         /\ new.id = q.id \/ new.kind = "create"
  BY <1>3, <1>4
<1> HIDE DEF new
<1> QED BY <1>1, <1>2, <1>7, <1>8, ServerKeeps

\* getSession.
LEMMA GetKeeps ==
  ASSUME SessionsGiven, SessionInv, NEW c \in Requests, Browser!Get(c)
  PROVE  SessionInv'
<1> DEFINE q == sessionCalls[c]
<1>1. q \in SessionCall /\ q # Browser!Free /\ q.at = "get" /\ q.id \in Browser!Ids /\ q.kind # "create"
  <2>1. q # Browser!Free /\ q.at = "get"
    BY BusyCall DEF Browser!Get, SessionInv
  <2>2. q \in SessionCall /\ Carries(q)
    BY <2>1, BusyCall DEF SessionInv, CallsCarry
  <2> QED BY <2>1, <2>2 DEF SessionCall, Carries
<1>2. PICK fails \in BOOLEAN :
        LET s == IF fails THEN None ELSE sessionStore[q.id] IN
        /\ disturbed' = (disturbed \/ fails)
        /\ CASE s = None -> Browser!Answer(c, q.id, FALSE, None)
             [] s # None /\ q.kind = "update" -> Browser!Step(c, "read")
             [] s # None /\ q.kind = "clear" -> Browser!Step(c, "delete")
             [] OTHER -> Browser!Answer(c, q.id, TRUE, s)
  BY DEF Browser!Get
<1> DEFINE s == IF fails THEN None ELSE sessionStore[q.id]
<1>3. UNCHANGED <<sessionStore, savedId, session, sessionId, sessionLoading, initialized>>
  BY DEF Browser!Get
<1>4. disturbed' \in BOOLEAN /\ (disturbed => disturbed') /\ s \in Browser!Sessions \cup {None}
  BY <1>1, <1>2 DEF SessionInv, SessionShapes
<1>5. sessionStore' \in [Browser!Ids -> Browser!Sessions \cup {None}]
  BY <1>3 DEF SessionInv, SessionShapes
<1>6. c \in Heard /\ sessionId # None => q.id = sessionId
  BY DEF SessionInv, OnePage
<1>7. ~disturbed' => s = sessionStore[q.id]
  BY <1>2
<1>8. CASE s = None
  <2>1. sessionCalls' = [sessionCalls EXCEPT ![c] =
          IF @.heard THEN [@ EXCEPT !.at = "answer", !.id = q.id, !.ok = FALSE, !.session = None] ELSE Browser!Free]
    BY <1>2, <1>8 DEF Browser!Answer
  <2>2. ~disturbed' /\ c \in Heard /\ Agrees(c) => (sessionId # None => sessionStore'[sessionId] \in {session, None})
    BY <1>1, <1>3 DEF Agrees
  <2>3. FALSE \in BOOLEAN /\ q.id # None /\ q.id \in Browser!Ids \cup {None}
    BY <1>1 DEF SessionsGiven
  <2> QED BY <1>1, <1>3, <1>4, <1>5, <2>1, <2>2, <2>3, AnswerIs
<1>9. CASE s # None /\ q.kind \in {"update", "clear"}
  <2> DEFINE at == IF q.kind = "update" THEN "read" ELSE "delete"
             new == [q EXCEPT !.at = at]
  <2>1. Browser!Step(c, at)
    BY <1>2, <1>9
  <2>2. sessionCalls' = [sessionCalls EXCEPT ![c] = new]
    BY <2>1 DEF Browser!Step
  <2>3. /\ new \in SessionCall /\ new.kind = q.kind /\ new.heard = q.heard /\ new.id = q.id
        /\ new.at = at /\ new.ok = q.ok /\ new.session = q.session /\ new.updates = q.updates
    BY <1>1 DEF SessionCall
  <2> HIDE DEF new
  <2>4. Carries(new)
    BY <1>1, <1>9, <2>3, BusyCall DEF Carries, SessionInv, SessionsGiven
  <2>5. sessionCalls'[c] = new
    BY <2>2 DEF SessionInv, SessionShapes
  <2>6. Agrees(c) => Agrees(c)'
    BY <1>1, <1>3, <1>9, <2>3, <2>5 DEF Agrees
  <2> QED BY <1>1, <1>3, <1>4, <1>5, <2>2, <2>3, <2>4, <2>6, ServerKeeps
<1>10. CASE s # None /\ q.kind \notin {"update", "clear"}
  <2>1. sessionCalls' = [sessionCalls EXCEPT ![c] =
          IF @.heard THEN [@ EXCEPT !.at = "answer", !.id = q.id, !.ok = TRUE, !.session = s] ELSE Browser!Free]
    BY <1>2, <1>10 DEF Browser!Answer
  <2>2. ~disturbed' /\ c \in Heard /\ Agrees(c) =>
          /\ sessionId # None => sessionStore'[sessionId] \in {session, None} /\ s = session
          /\ sessionStore'[q.id] \in {s, None}
    BY <1>1, <1>3, <1>6, <1>7, <1>10 DEF Agrees
  <2>3. TRUE \in BOOLEAN /\ q.id # None /\ q.id \in Browser!Ids \cup {None}
    BY <1>1 DEF SessionsGiven
  <2> HIDE DEF s
  <2> QED BY <1>1, <1>3, <1>4, <1>5, <1>10, <2>1, <2>2, <2>3, AnswerIs
<1> QED BY <1>8, <1>9, <1>10

\* updateSession reads the session once more.
LEMMA ReadKeeps ==
  ASSUME SessionsGiven, SessionInv, NEW c \in Requests, Browser!Read(c)
  PROVE  SessionInv'
<1> DEFINE q == sessionCalls[c]
<1>1. /\ q \in SessionCall /\ q # Browser!Free /\ q.at = "read" /\ q.id \in Browser!Ids
      /\ q.kind = "update"
  <2>1. q # Browser!Free /\ q.at = "read"
    BY BusyCall DEF Browser!Read, SessionInv
  <2>2. q \in SessionCall /\ Carries(q)
    BY <2>1, BusyCall DEF SessionInv, CallsCarry
  <2> QED BY <2>1, <2>2 DEF SessionCall, Carries
<1>2. PICK fails \in BOOLEAN :
        LET lost == fails \/ sessionStore[q.id] = None
            s == IF lost THEN Browser!NewSession ELSE sessionStore[q.id]
        IN /\ disturbed' = (disturbed \/ lost)
           /\ sessionCalls' = [sessionCalls EXCEPT ![c] =
                [@ EXCEPT !.at = "write", !.session = Browser!Merged(s, q.updates)]]
  BY DEF Browser!Read
<1> DEFINE lost == fails \/ sessionStore[q.id] = None
           s == IF lost THEN Browser!NewSession ELSE sessionStore[q.id]
           m == Browser!Merged(s, q.updates)
           new == [q EXCEPT !.at = "write", !.session = m]
<1>3. UNCHANGED <<sessionStore, savedId, session, sessionId, sessionLoading, initialized>>
  BY DEF Browser!Read
<1>4. m \in Browser!Sessions
  <2>1. s \in Browser!Sessions /\ q.updates \in SessionUpdates \cup {<<>>}
    BY <1>1, SessionsAre DEF SessionInv, SessionShapes, SessionCall
  <2> HIDE DEF s
  <2> QED BY <2>1, SessionsAre
<1>5. ~disturbed' => ~lost
  BY <1>2
<1>6. c \in Heard /\ sessionId # None => q.id = sessionId
  BY DEF SessionInv, OnePage
<1>7. sessionCalls' = [sessionCalls EXCEPT ![c] = new]
  BY <1>2
<1>8. ~disturbed' /\ c \in Heard /\ Agrees(c) /\ sessionId # None => m = Browser!Merged(session, q.updates)
  BY <1>1, <1>5, <1>6 DEF Agrees
<1>9. disturbed' \in BOOLEAN /\ (disturbed => disturbed')
  BY <1>2 DEF SessionInv, SessionShapes
<1> HIDE DEF m
<1>10. new.kind = q.kind /\ new.heard = q.heard /\ new.id = q.id /\ new.updates = q.updates /\ new.ok = q.ok
  BY <1>1 DEF SessionCall
<1>11. new.at = "write" /\ new.session = m
  BY <1>1 DEF SessionCall
<1>12. new \in SessionCall
  BY <1>1, <1>4 DEF SessionCall
<1> HIDE DEF new
<1>13. Carries(new)
  BY <1>1, <1>4, <1>10, <1>11 DEF Carries, SessionsGiven
<1>14. sessionCalls'[c] = new
  BY <1>7 DEF SessionInv, SessionShapes
<1>15. ~disturbed' /\ c \in Heard /\ Agrees(c) => Agrees(c)'
  BY <1>1, <1>3, <1>8, <1>10, <1>11, <1>14 DEF Agrees
<1>16. sessionStore' \in [Browser!Ids -> Browser!Sessions \cup {None}]
  BY <1>3 DEF SessionInv, SessionShapes
<1> QED BY <1>1, <1>3, <1>7, <1>9, <1>10, <1>12, <1>13, <1>15, <1>16, ServerKeeps

\* setSession and deleteSession, which throw when the store does.
LEMMA WriteKeeps ==
  ASSUME SessionsGiven, SessionInv, NEW c \in Requests, Browser!Write(c) \/ Browser!Delete(c)
  PROVE  SessionInv'
<1> DEFINE q == sessionCalls[c]
<1>1. /\ q \in SessionCall /\ q # Browser!Free /\ q.at \in {"write", "delete"} /\ q.id \in Browser!Ids
      /\ q.kind \in {"update", "clear"} /\ (q.at = "write" <=> q.kind = "update")
      /\ q.at = "write" => q.session \in Browser!Sessions
  <2>1. q # Browser!Free /\ q.at \in {"write", "delete"}
    BY BusyCall DEF Browser!Write, Browser!Delete, SessionInv
  <2>2. q \in SessionCall /\ Carries(q)
    BY <2>1, BusyCall DEF SessionInv, CallsCarry
  <2> QED BY <2>1, <2>2 DEF SessionCall, Carries
<1>2. UNCHANGED <<savedId, session, sessionId, sessionLoading, initialized, disturbed>>
  BY DEF Browser!Write, Browser!Delete
<1>3. disturbed' \in BOOLEAN /\ (disturbed => disturbed')
  BY <1>2 DEF SessionInv, SessionShapes
<1>4. c \in Heard /\ sessionId # None => q.id = sessionId
  BY DEF SessionInv, OnePage
<1>5. q.id # None /\ q.id \in Browser!Ids \cup {None} /\ None \in Browser!Sessions \cup {None}
  BY <1>1 DEF SessionsGiven
<1> DEFINE wrote == IF q.at = "write" THEN q.session ELSE None
<1>6. CASE /\ sessionStore' = [sessionStore EXCEPT ![q.id] = wrote]
           /\ Browser!Answer(c, q.id, TRUE, None)
  <2>1. sessionCalls' = [sessionCalls EXCEPT ![c] =
          IF @.heard THEN [@ EXCEPT !.at = "answer", !.id = q.id, !.ok = TRUE, !.session = None] ELSE Browser!Free]
    BY <1>6 DEF Browser!Answer
  <2>2. /\ sessionStore' \in [Browser!Ids -> Browser!Sessions \cup {None}]
        /\ sessionStore'[q.id] = wrote
    BY <1>1, <1>6 DEF SessionInv, SessionShapes
  <2>3. c \in Heard /\ Agrees(c) /\ sessionId # None =>
          sessionStore'[sessionId] \in {IF q.kind = "update" THEN Browser!Merged(session, q.updates) ELSE session, None}
    BY <1>1, <1>4, <2>2 DEF Agrees
  <2>4. TRUE \in BOOLEAN
    OBVIOUS
  <2> HIDE DEF wrote
  <2> QED BY <1>1, <1>2, <1>3, <1>5, <2>1, <2>2, <2>3, <2>4, AnswerIs, ZenonT(40)
<1>7. CASE sessionStore' = sessionStore /\ Browser!Answer(c, q.id, FALSE, None)
  <2>1. sessionCalls' = [sessionCalls EXCEPT ![c] =
          IF @.heard THEN [@ EXCEPT !.at = "answer", !.id = q.id, !.ok = FALSE, !.session = None] ELSE Browser!Free]
    BY <1>7 DEF Browser!Answer
  <2>2. sessionStore' \in [Browser!Ids -> Browser!Sessions \cup {None}]
    BY <1>7 DEF SessionInv, SessionShapes
  <2>3. Agrees(c) /\ sessionId # None => sessionStore'[sessionId] \in {session, None}
    BY <1>1, <1>7 DEF Agrees
  <2>4. FALSE \in BOOLEAN
    OBVIOUS
  <2> QED BY <1>1, <1>2, <1>3, <1>5, <2>1, <2>2, <2>3, <2>4, AnswerIs
<1> QED BY <1>1, <1>6, <1>7 DEF Browser!Write, Browser!Delete

\* A new session is saved.
LEMMA SaveKeeps ==
  ASSUME SessionsGiven, SessionInv, NEW c \in Requests, Browser!Save(c)
  PROVE  SessionInv'
<1> DEFINE q == sessionCalls[c]
<1>1. q \in SessionCall /\ q # Browser!Free /\ q.kind = "create" /\ q.id \in Browser!Ids \cup {None}
  <2>1. q # Browser!Free /\ q.at = "save"
    BY BusyCall DEF Browser!Save, SessionInv
  <2>2. q \in SessionCall /\ Carries(q)
    BY <2>1, BusyCall DEF SessionInv, CallsCarry
  <2> QED BY <2>1, <2>2 DEF SessionCall, Carries
<1>2. UNCHANGED <<savedId, session, sessionId, sessionLoading, initialized, disturbed>>
  BY DEF Browser!Save
<1>3. disturbed' \in BOOLEAN /\ (disturbed => disturbed')
  BY <1>2 DEF SessionInv, SessionShapes
<1>4. c \in Heard => sessionId = None
  BY <1>1 DEF SessionInv, OnePage
<1>5. Browser!NewSession \in Browser!Sessions
  BY SessionsAre
<1>6. CASE /\ nextId \in Browser!Ids
           /\ sessionStore' = [sessionStore EXCEPT ![nextId] = Browser!NewSession]
           /\ Browser!Answer(c, nextId, TRUE, Browser!NewSession)
  <2>1. sessionCalls' = [sessionCalls EXCEPT ![c] =
          IF @.heard THEN [@ EXCEPT !.at = "answer", !.id = nextId, !.ok = TRUE, !.session = Browser!NewSession]
          ELSE Browser!Free]
    BY <1>6 DEF Browser!Answer
  <2>2. /\ sessionStore' \in [Browser!Ids -> Browser!Sessions \cup {None}]
        /\ sessionStore'[nextId] = Browser!NewSession
    BY <1>5, <1>6 DEF SessionInv, SessionShapes
  <2>3. TRUE \in BOOLEAN /\ nextId # None /\ Browser!NewSession # None
    BY <1>5, <1>6 DEF SessionsGiven
  <2> QED BY <1>1, <1>2, <1>3, <1>4, <1>5, <1>6, <2>1, <2>2, <2>3, AnswerIs
<1>7. CASE sessionStore' = sessionStore /\ Browser!Answer(c, q.id, FALSE, None)
  <2>1. sessionCalls' = [sessionCalls EXCEPT ![c] =
          IF @.heard THEN [@ EXCEPT !.at = "answer", !.id = q.id, !.ok = FALSE, !.session = None] ELSE Browser!Free]
    BY <1>7 DEF Browser!Answer
  <2>2. sessionStore' \in [Browser!Ids -> Browser!Sessions \cup {None}]
    BY <1>7 DEF SessionInv, SessionShapes
  <2>3. FALSE \in BOOLEAN /\ None \in Browser!Sessions \cup {None}
    OBVIOUS
  <2> QED BY <1>1, <1>2, <1>3, <1>4, <2>1, <2>2, <2>3, AnswerIs
<1> QED BY <1>6, <1>7 DEF Browser!Save

\* The page's use of an answer keeps the invariant if it starts no session but by the
\* call it started with, and what it shows agrees with the store after.
LEMMA PageKeeps ==
  ASSUME SessionsGiven, SessionInv, NEW c \in Requests, sessionCalls[c].at = "answer",
         sessionCalls' = [sessionCalls EXCEPT ![c] = Browser!Free],
         UNCHANGED <<sessionStore, initialized, disturbed>>,
         session' \in Browser!Sessions \cup {None},
         sessionId' \in Browser!Ids \cup {None}, savedId' \in Browser!Ids \cup {None},
         sessionId' # None => session' # None /\ savedId' = sessionId',
         Heard = {c} \/ sessionId' \in {sessionId, None},
         \/ sessionLoading' = FALSE
         \/ sessionLoading' = sessionLoading /\ sessionCalls[c].kind \in {"update", "clear"},
         Agrees(c) /\ sessionId' # None => sessionStore[sessionId'] \in {session', None}
  PROVE  SessionInv'
<1>1. /\ sessionCalls'[c] = Browser!Free
      /\ \A d \in Requests : d # c => sessionCalls'[d] = sessionCalls[d]
      /\ sessionCalls' \in [Requests -> SessionCall \cup {Browser!Free}]
  BY DEF SessionInv, SessionShapes
<1>2. SessionShapes'
  BY <1>1 DEF SessionInv, SessionShapes
<1>3. CallsCarry'
  BY <1>1 DEF SessionInv, CallsCarry
<1>4. c \in Heard /\ Heard' = Heard \ {c} /\ initialized
  <2>1. sessionCalls[c] # Browser!Free
    BY BusyCall DEF SessionInv
  <2>2. c \in Heard
    BY <2>1 DEF SessionInv, CallsCarry, Carries, Heard
  <2>3. c \notin Heard' /\ \A d \in Requests : d # c => (d \in Heard' <=> d \in Heard)
    BY <1>1 DEF Heard
  <2>4. Heard \subseteq Requests /\ Heard' \subseteq Requests
    BY DEF Heard
  <2> QED BY <2>2, <2>3, <2>4 DEF SessionInv, OnePage
<1>5. \A d \in Heard' : d \in Requests /\ d \in Heard /\ d # c /\ sessionCalls'[d] = sessionCalls[d]
  BY <1>1, <1>4 DEF Heard
<1>6. \A d \in Heard' : sessionCalls'[d].kind \notin {"init", "create"}
  BY <1>4, <1>5 DEF SessionInv, OnePage
<1>7. OnePage'
  BY <1>4, <1>5, <1>6 DEF SessionInv, OnePage
<1>8. SessionLoads'
  <2> SUFFICES ASSUME sessionLoading' PROVE \E d \in Heard' : sessionCalls'[d].kind \in {"init", "create", "refresh"}
    BY DEF SessionLoads
  <2>1. sessionLoading /\ sessionCalls[c].kind \in {"update", "clear"}
    OBVIOUS
  <2>2. PICK d \in Heard : sessionCalls[d].kind \in {"init", "create", "refresh"}
    BY <2>1 DEF SessionInv, SessionLoads
  <2>3. d \in Heard'
    BY <1>4, <2>1, <2>2
  <2> QED BY <1>5, <2>2, <2>3
<1>9. Calm'
  <2> SUFFICES ASSUME ~disturbed' PROVE Calm'
    BY DEF Calm
  <2>1. c \in Browser!Busy
    BY BusyCall DEF SessionInv, Browser!Busy
  <2>2. Browser!Busy = {c} /\ Agrees(c)
    BY <2>1 DEF SessionInv, Calm
  <2>3. Browser!Busy' = {}
    BY <1>1, <2>2 DEF Browser!Busy
  <2> QED BY <2>2, <2>3 DEF Calm
<1> QED BY <1>2, <1>3, <1>7, <1>8, <1>9 DEF SessionInv

\* The answers.
LEMMA AnswersKeep ==
  ASSUME SessionsGiven, SessionInv, NEW c \in Requests,
         \/ Browser!Initialized(c) \/ Browser!Created(c) \/ Browser!Updated(c)
         \/ Browser!Refreshed(c) \/ Browser!Cleared(c)
  PROVE  SessionInv'
<1> DEFINE q == sessionCalls[c]
<1>1. q \in SessionCall /\ q # Browser!Free /\ q.at = "answer" /\ Carries(q) /\ q.heard /\ c \in Heard
  <2>1. q # Browser!Free /\ q.at = "answer"
    BY BusyCall DEF Browser!Initialized, Browser!Created, Browser!Updated, Browser!Refreshed,
      Browser!Cleared, Browser!Ends, SessionInv
  <2>2. q \in SessionCall /\ Carries(q)
    BY <2>1, BusyCall DEF SessionInv, CallsCarry
  <2> QED BY <2>1, <2>2 DEF Carries, Heard
<1>2. /\ session \in Browser!Sessions \cup {None}
      /\ sessionId \in Browser!Ids \cup {None} /\ savedId \in Browser!Ids \cup {None}
      /\ q.id \in Browser!Ids \cup {None} /\ q.session \in Browser!Sessions \cup {None}
      /\ q.updates \in SessionUpdates \cup {<<>>}
  BY <1>1 DEF SessionInv, SessionShapes, SessionCall
<1>3. sessionId # None => session # None /\ savedId = sessionId /\ q.id = sessionId
  BY <1>1 DEF SessionInv, OnePage
<1>4. q.kind \in {"init", "create"} =>
        sessionId = None /\ Heard = {c} /\ (q.kind = "init" => q.id = savedId)
  BY <1>1 DEF SessionInv, OnePage
<1>5. q.ok /\ q.kind \in {"init", "create", "refresh"} => q.id # None /\ q.session # None
  BY <1>1 DEF Carries
<1>6. CASE Browser!Initialized(c) /\ q.ok
  <2>1. /\ q.kind = "init" /\ sessionCalls' = [sessionCalls EXCEPT ![c] = Browser!Free]
        /\ session' = q.session /\ sessionId' = q.id /\ sessionLoading' = FALSE /\ savedId' = savedId
        /\ UNCHANGED <<sessionStore, initialized, disturbed>>
    BY <1>6 DEF Browser!Initialized, Browser!Ends
  <2>2. Agrees(c) => sessionStore[q.id] \in {q.session, None}
    BY <1>1, <1>6, <2>1 DEF Agrees
  <2> QED BY <1>1, <1>2, <1>4, <1>5, <1>6, <2>1, <2>2, PageKeeps
<1>7. CASE Browser!Initialized(c) /\ ~q.ok
  <2> DEFINE new == [q EXCEPT !.kind = "create", !.at = "save"]
  <2>1. /\ q.kind = "init" /\ sessionCalls' = [sessionCalls EXCEPT ![c] = new]
        /\ UNCHANGED <<sessionStore, savedId, session, sessionId, sessionLoading, initialized, disturbed>>
    BY <1>7 DEF Browser!Initialized
  <2>2. /\ new.kind = "create" /\ new.at = "save" /\ new.id = q.id /\ new.heard = q.heard
        /\ new.ok = q.ok /\ new.session = q.session
    BY <1>1 DEF SessionCall
  <2>3. new \in SessionCall
    BY <1>1 DEF SessionCall, Kinds
  <2> HIDE DEF new
  <2>4. Carries(new)
    BY <2>2 DEF Carries
  <2>5. sessionCalls'[c] = new
    BY <2>1 DEF SessionInv, SessionShapes
  <2>6. Agrees(c)'
    BY <1>4, <2>1, <2>2, <2>5 DEF Agrees
  <2>7. sessionStore' \in [Browser!Ids -> Browser!Sessions \cup {None}] /\ disturbed' \in BOOLEAN
    BY <2>1 DEF SessionInv, SessionShapes
  <2> QED BY <1>1, <2>1, <2>2, <2>3, <2>4, <2>6, <2>7, ServerKeeps
<1>8. CASE Browser!Created(c)
  <2>1. /\ q.kind = "create" /\ sessionCalls' = [sessionCalls EXCEPT ![c] = Browser!Free]
        /\ sessionLoading' = FALSE
        /\ \/ q.ok /\ session' = q.session /\ sessionId' = q.id /\ savedId' = q.id
           \/ ~q.ok /\ UNCHANGED <<session, sessionId, savedId>>
        /\ UNCHANGED <<sessionStore, initialized, disturbed>>
    BY <1>8 DEF Browser!Created, Browser!Ends
  <2>2. Agrees(c) /\ q.ok => sessionStore[q.id] \in {q.session, None}
    BY <1>1, <2>1 DEF Agrees
  <2> QED BY <1>1, <1>2, <1>4, <1>5, <2>1, <2>2, PageKeeps
<1>9. CASE Browser!Updated(c)
  <2>1. /\ q.kind = "update" /\ sessionCalls' = [sessionCalls EXCEPT ![c] = Browser!Free]
        /\ session' = IF q.ok /\ session # None THEN Browser!Merged(session, q.updates) ELSE session
        /\ UNCHANGED <<sessionStore, initialized, disturbed, sessionId, savedId, sessionLoading>>
    BY <1>9 DEF Browser!Updated, Browser!Ends
  <2>2. session' \in Browser!Sessions \cup {None} /\ (session # None => session' # None)
    BY <1>2, <2>1, SessionsAre DEF SessionsGiven
  <2>3. Agrees(c) /\ sessionId # None => sessionStore[sessionId] \in {session', None}
    BY <1>1, <1>3, <2>1 DEF Agrees
  <2> QED BY <1>1, <1>2, <1>3, <2>1, <2>2, <2>3, PageKeeps
<1>10. CASE Browser!Refreshed(c)
  <2>1. /\ q.kind = "refresh" /\ sessionCalls' = [sessionCalls EXCEPT ![c] = Browser!Free]
        /\ session' = IF q.ok THEN q.session ELSE session
        /\ sessionLoading' = FALSE
        /\ UNCHANGED <<sessionStore, initialized, disturbed, sessionId, savedId>>
    BY <1>10 DEF Browser!Refreshed, Browser!Ends
  <2>2. Agrees(c) /\ sessionId # None => sessionStore[sessionId] \in {session', None}
    BY <1>1, <2>1 DEF Agrees
  <2> QED BY <1>1, <1>2, <1>3, <1>5, <2>1, <2>2, PageKeeps
<1>11. CASE Browser!Cleared(c)
  <2>1. /\ q.kind = "clear" /\ sessionCalls' = [sessionCalls EXCEPT ![c] = Browser!Free]
        /\ \/ session' = None /\ sessionId' = None /\ savedId' = None
           \/ UNCHANGED <<session, sessionId, savedId>>
        /\ UNCHANGED <<sessionStore, initialized, disturbed, sessionLoading>>
    BY <1>11 DEF Browser!Cleared, Browser!Ends
  <2>2. Agrees(c) /\ sessionId # None => sessionStore[sessionId] \in {session, None}
    BY <1>1, <2>1 DEF Agrees
  <2> QED BY <1>1, <1>2, <1>3, <2>1, <2>2, PageKeeps
<1> QED BY <1>6, <1>7, <1>8, <1>9, <1>10, <1>11

\* A call that is sent is about the session that is shown, or the first of its page.
LEMMA SendKeeps ==
  ASSUME SessionsGiven, SessionInv, NEW c \in Requests, NEW kind \in Kinds,
         NEW id \in Browser!Ids \cup {None}, NEW u \in SessionUpdates \cup {<<>>},
         Browser!Send(c, kind, id, u),
         UNCHANGED <<sessionStore, savedId, session, sessionId>>,
         initialized' = TRUE, sessionLoading' \in BOOLEAN,
         sessionLoading' => sessionLoading \/ kind \in {"init", "create", "refresh"},
         kind = "create" <=> id = None,
         \/ ~initialized /\ kind \in {"init", "create"} /\ id = savedId
         \/ sessionId # None /\ id = sessionId /\ kind \notin {"init", "create"}
  PROVE  SessionInv'
<1> DEFINE new == [kind |-> kind, at |-> IF id = None THEN "save" ELSE "get", id |-> id,
                   updates |-> u, session |-> None, ok |-> FALSE, heard |-> TRUE]
<1>1. /\ sessionCalls[c] = Browser!Free /\ sessionCalls' = [sessionCalls EXCEPT ![c] = new]
      /\ disturbed' = (disturbed \/ Browser!Busy # {})
  BY DEF Browser!Send
<1>2. new \in SessionCall /\ new # Browser!Free
  BY DEF SessionCall, Browser!Free
<1>3. /\ new.kind = kind /\ new.at \in {"save", "get"} /\ (new.at = "save" <=> id = None)
      /\ new.id = id /\ new.heard
  OBVIOUS
<1> HIDE DEF new
<1>4. /\ sessionCalls'[c] = new
      /\ \A d \in Requests : d # c => sessionCalls'[d] = sessionCalls[d]
      /\ sessionCalls' \in [Requests -> SessionCall \cup {Browser!Free}]
  BY <1>1, <1>2 DEF SessionInv, SessionShapes
<1>5. SessionShapes'
  BY <1>1, <1>4 DEF SessionInv, SessionShapes
<1>6. CallsCarry'
  BY <1>3, <1>4 DEF SessionInv, CallsCarry, Carries
<1>7. c \notin Heard /\ Heard' = Heard \cup {c}
  <2>1. c \notin Heard /\ c \in Heard'
    BY <1>1, <1>2, <1>3, <1>4 DEF Heard
  <2>2. \A d \in Requests : d # c => (d \in Heard' <=> d \in Heard)
    BY <1>4 DEF Heard
  <2>3. Heard \subseteq Requests /\ Heard' \subseteq Requests
    BY DEF Heard
  <2> QED BY <2>1, <2>2, <2>3
<1>8. \A d \in Heard : d # c /\ sessionCalls'[d] = sessionCalls[d]
  BY <1>4, <1>7 DEF Heard
<1>9. OnePage'
  <2>1. CASE ~initialized
    <3>1. Heard = {} /\ sessionId = None
      BY <2>1 DEF SessionInv, OnePage
    <3> QED BY <1>3, <1>4, <1>7, <2>1, <3>1 DEF OnePage
  <2>2. CASE sessionId # None
    <3>1. \A d \in Heard : sessionCalls[d].kind \notin {"init", "create"} /\ sessionCalls[d].id = sessionId
      BY <2>2 DEF SessionInv, OnePage
    <3>2. kind \notin {"init", "create"} /\ id = sessionId /\ session # None /\ savedId = sessionId
      BY <2>2 DEF SessionInv, OnePage
    <3> QED BY <1>3, <1>4, <1>7, <1>8, <2>2, <3>1, <3>2 DEF OnePage
  <2> QED BY <2>1, <2>2
<1>10. SessionLoads'
  BY <1>3, <1>4, <1>7, <1>8 DEF SessionInv, SessionLoads
<1>11. Calm'
  <2> SUFFICES ASSUME ~disturbed' PROVE Calm'
    BY DEF Calm
  <2>1. ~disturbed /\ Browser!Busy = {}
    BY <1>1
  <2>2. Browser!Busy' = {c}
    BY <1>2, <1>4, <2>1 DEF Browser!Busy
  <2>3. sessionId # None => sessionStore[sessionId] \in {session, None}
    BY <2>1 DEF SessionInv, Calm
  <2>4. Agrees(c)'
    BY <1>3, <1>4, <2>3 DEF Agrees
  <2> QED BY <1>7, <2>2, <2>4 DEF Calm
<1> QED BY <1>5, <1>6, <1>9, <1>10, <1>11 DEF SessionInv

\* The page's calls.
LEMMA CallsKeep ==
  ASSUME SessionsGiven, SessionInv, NEW c \in Requests,
         \/ Browser!Load(c) \/ Browser!RefreshSession(c) \/ Browser!ClearSession(c)
         \/ \E u \in SessionUpdates : Browser!UpdateSession(c, u)
  PROVE  SessionInv'
<1>1. /\ sessionId \in Browser!Ids \cup {None} /\ savedId \in Browser!Ids \cup {None}
      /\ sessionLoading \in BOOLEAN /\ <<>> \in SessionUpdates \cup {<<>>}
      /\ sessionId # None => initialized = TRUE
  BY DEF SessionInv, SessionShapes, OnePage
<1>2. CASE Browser!Load(c)
  <2> DEFINE kind == IF savedId # None THEN "init" ELSE "create"
  <2>1. /\ ~initialized /\ initialized' = TRUE /\ sessionLoading' = TRUE
        /\ Browser!Send(c, kind, savedId, <<>>)
        /\ UNCHANGED <<sessionStore, savedId, session, sessionId>>
    BY <1>2 DEF Browser!Load
  <2>2. kind \in Kinds /\ kind \in {"init", "create"} /\ (kind = "create" <=> savedId = None)
    BY DEF Kinds
  <2> HIDE DEF kind
  <2> QED BY <1>1, <2>1, <2>2, SendKeeps
<1>3. CASE Browser!RefreshSession(c)
  <2>1. /\ sessionId # None /\ Browser!Send(c, "refresh", sessionId, <<>>)
        /\ sessionLoading' = TRUE /\ "refresh" \in Kinds
        /\ UNCHANGED <<sessionStore, savedId, session, sessionId, initialized>>
    BY <1>3 DEF Browser!RefreshSession, Browser!Shown, Kinds
  <2> QED BY <1>1, <2>1, SendKeeps
<1>4. CASE Browser!ClearSession(c)
  <2>1. /\ sessionId # None /\ Browser!Send(c, "clear", sessionId, <<>>) /\ "clear" \in Kinds
        /\ UNCHANGED <<sessionStore, savedId, session, sessionId, initialized, sessionLoading>>
    BY <1>4 DEF Browser!ClearSession, Kinds
  <2> QED BY <1>1, <2>1, SendKeeps
<1>5. ASSUME NEW u \in SessionUpdates, Browser!UpdateSession(c, u) PROVE SessionInv'
  <2>1. /\ sessionId # None /\ Browser!Send(c, "update", sessionId, u) /\ "update" \in Kinds
        /\ u \in SessionUpdates \cup {<<>>}
        /\ UNCHANGED <<sessionStore, savedId, session, sessionId, initialized, sessionLoading>>
    BY <1>5 DEF Browser!UpdateSession, Browser!Shown, Kinds
  <2> QED BY <1>1, <2>1, SendKeeps
<1> QED BY <1>2, <1>3, <1>4, <1>5

\* A session that expires agrees with every page.
LEMMA ExpireKeeps ==
  ASSUME SessionsGiven, SessionInv, NEW i \in Browser!Ids, Browser!Expire(i)
  PROVE  SessionInv'
<1>1. /\ sessionStore' = [sessionStore EXCEPT ![i] = None]
      /\ UNCHANGED <<savedId, session, sessionId, sessionLoading, initialized, sessionCalls, disturbed>>
  BY DEF Browser!Expire
<1>2. SessionShapes' /\ CallsCarry' /\ OnePage' /\ SessionLoads' /\ Heard' = Heard /\ Browser!Busy' = Browser!Busy
  BY <1>1 DEF SessionInv, SessionShapes, CallsCarry, OnePage, SessionLoads, Heard, Browser!Busy
<1>3. \A j \in Browser!Ids : sessionStore'[j] \in {sessionStore[j], None}
  BY <1>1 DEF SessionInv, SessionShapes
<1>4. ASSUME NEW c \in Browser!Busy, Agrees(c) PROVE Agrees(c)'
  <2> DEFINE q == sessionCalls[c]
  <2>1. q \in SessionCall /\ Carries(q)
    BY BusyCall DEF SessionInv, CallsCarry, Browser!Busy
  <2>2. q.kind \in {"init", "create"} /\ q.at = "answer" /\ q.ok => q.id \in Browser!Ids
    BY <2>1 DEF Carries, SessionCall
  <2>3. sessionId # None => sessionId \in Browser!Ids
    BY DEF SessionInv, SessionShapes
  <2> QED BY <1>1, <1>3, <1>4, <2>2, <2>3 DEF Agrees
<1>5. Calm'
  <2>1. sessionId # None => sessionId \in Browser!Ids
    BY DEF SessionInv, SessionShapes
  <2> QED BY <1>1, <1>2, <1>3, <1>4, <2>1 DEF SessionInv, Calm
<1> QED BY <1>2, <1>5 DEF SessionInv

\* A page that is left hears nothing more.
LEMMA SessionLeaveKeeps ==
  ASSUME SessionsGiven, SessionInv, Browser!Leave
  PROVE  SessionInv'
<1>1. /\ sessionCalls' = [c \in Requests |->
           IF sessionCalls[c].at \in {"free", "answer"} THEN Browser!Free ELSE [sessionCalls[c] EXCEPT !.heard = FALSE]]
      /\ session' = None /\ sessionId' = None /\ sessionLoading' = FALSE /\ initialized' = FALSE
      /\ disturbed' = (Browser!Busy # {})
      /\ UNCHANGED <<sessionStore, savedId>>
  BY DEF Browser!Leave
<1>2. ASSUME NEW c \in Requests
      PROVE  \/ sessionCalls'[c] = Browser!Free
             \/ /\ sessionCalls'[c] \in SessionCall /\ ~sessionCalls'[c].heard /\ Carries(sessionCalls'[c])
                /\ c \in Browser!Busy
  <2>1. CASE sessionCalls[c].at \in {"free", "answer"}
    BY <1>1, <2>1
  <2>2. CASE sessionCalls[c].at \notin {"free", "answer"}
    <3> DEFINE q == sessionCalls[c]
               new == [q EXCEPT !.heard = FALSE]
    <3>1. q \in SessionCall /\ Carries(q) /\ c \in Browser!Busy
      BY <2>2, BusyCall DEF SessionInv, CallsCarry, Browser!Busy
    <3>2. /\ new \in SessionCall /\ ~new.heard /\ new.at = q.at /\ new.kind = q.kind /\ new.id = q.id
          /\ new.session = q.session /\ new.ok = q.ok
      BY <3>1 DEF SessionCall
    <3>3. sessionCalls'[c] = new
      BY <1>1, <2>2
    <3> HIDE DEF new
    <3>4. Carries(new)
      BY <2>2, <3>1, <3>2 DEF Carries
    <3> QED BY <3>1, <3>2, <3>3, <3>4
  <2> QED BY <2>1, <2>2
<1>3. Heard' = {}
  BY <1>2 DEF Heard
<1>4. SessionShapes'
  <2>1. sessionCalls' = [c \in Requests |-> sessionCalls'[c]]
    BY <1>1
  <2>2. sessionCalls' \in [Requests -> SessionCall \cup {Browser!Free}]
    BY <1>2, <2>1
  <2> QED BY <1>1, <2>2 DEF SessionInv, SessionShapes
<1>5. CallsCarry' /\ OnePage' /\ SessionLoads'
  BY <1>1, <1>2, <1>3 DEF CallsCarry, OnePage, SessionLoads
<1>6. Calm'
  <2>1. ~disturbed' => Browser!Busy' = {}
    BY <1>1, <1>2 DEF Browser!Busy
  <2> QED BY <1>1, <2>1 DEF Calm
<1> QED BY <1>4, <1>5, <1>6 DEF SessionInv

\* Every step keeps the invariant.
LEMMA SessionStep ==
  ASSUME SessionsGiven
  PROVE  SessionInv /\ [Browser!Next]_(Browser!vars) => SessionInv'
<1> SUFFICES ASSUME SessionInv, [Browser!Next]_(Browser!vars) PROVE SessionInv'
  OBVIOUS
<1>1. ASSUME NEW c \in Requests,
             \/ Browser!Load(c) \/ Browser!RefreshSession(c) \/ Browser!ClearSession(c)
             \/ \E u \in SessionUpdates : Browser!UpdateSession(c, u)
      PROVE  SessionInv'
  BY <1>1, CallsKeep
<1>2. ASSUME NEW c \in Requests, Browser!Get(c) \/ Browser!Read(c) \/ Browser!Save(c)
      PROVE  SessionInv'
  BY <1>2, GetKeeps, ReadKeeps, SaveKeeps
<1>3. ASSUME NEW c \in Requests, Browser!Write(c) \/ Browser!Delete(c) PROVE SessionInv'
  BY <1>3, WriteKeeps
<1>4. ASSUME NEW c \in Requests,
             \/ Browser!Initialized(c) \/ Browser!Created(c) \/ Browser!Updated(c)
             \/ Browser!Refreshed(c) \/ Browser!Cleared(c)
      PROVE  SessionInv'
  BY <1>4, AnswersKeep
<1>5. CASE (\E i \in Browser!Ids : Browser!Expire(i)) \/ Browser!Leave
  BY <1>5, ExpireKeeps, SessionLeaveKeeps
<1>6. CASE UNCHANGED Browser!vars
  <2>1. UNCHANGED <<sessionStore, savedId, session, sessionId, sessionLoading, initialized, sessionCalls, disturbed>>
    BY <1>6 DEF Browser!vars
  <2>2. Heard' = Heard /\ Browser!Busy' = Browser!Busy /\ \A c : Agrees(c)' <=> Agrees(c)
    BY <2>1 DEF Heard, Browser!Busy, Agrees
  <2> QED BY <2>1, <2>2 DEF SessionInv, SessionShapes, CallsCarry, OnePage, SessionLoads, Calm
<1> QED BY <1>1, <1>2, <1>3, <1>4, <1>5, <1>6 DEF Browser!Next

\* At the start nothing is under way.
LEMMA SessionStarts == ASSUME SessionsGiven PROVE Browser!Init => SessionInv
<1> SUFFICES ASSUME Browser!Init PROVE SessionInv
  OBVIOUS
<1>1. SessionShapes
  BY DEF Browser!Init, SessionShapes
<1>2. Heard = {} /\ Browser!Busy = {} /\ \A c \in Requests : sessionCalls[c] = Browser!Free
  BY DEF Browser!Init, Heard, Browser!Busy
<1> QED BY <1>1, <1>2 DEF Browser!Init, SessionInv, CallsCarry, OnePage, SessionLoads, Calm

\* The invariant is what is promised.
LEMMA SessionPromises ==
  ASSUME SessionsGiven
  PROVE  SessionInv => Browser!ShownIsSaved /\ Browser!LoadingEnds
<1> SUFFICES ASSUME SessionInv PROVE Browser!ShownIsSaved /\ Browser!LoadingEnds
  OBVIOUS
<1>1. Browser!ShownIsSaved
  BY DEF SessionInv, Calm, OnePage, Browser!ShownIsSaved
<1>2. Browser!LoadingEnds
  BY BusyCall DEF SessionInv, SessionLoads, Heard, Browser!LoadingEnds
<1> QED BY <1>1, <1>2

\* The session moves by its own steps.
LEMMA SessionMoves ==
  part = "session" /\ [MCNext]_all => [Browser!Next]_(Browser!vars)
  BY DEF MCNext, MCPlatforms, all, rest1, Browser!vars

-----------------------------------------------------------------------------
(* The composition.                                                            *)

\* In app/components/hooks/useSession.ts, whenever nothing is under way, what a page
\* shows is the session that is saved, unless its calls have overlapped or the session
\* was lost half way, and its loading ends: for any number of calls, sessions, updates
\* and failures of the store.
THEOREM ShownIsSavedComposed ==
  ASSUME SessionsGiven
  PROVE  MCSpec => []ShownIsSaved
<1> DEFINE Inv == part = "session" => SessionInv
<1>1. MCInit => Inv
  BY SessionStarts DEF MCInit, MCPlatforms
<1>2. Inv /\ [MCNext]_all => Inv'
  BY PartStays, SessionMoves, SessionStep
<1>3. Inv => ShownIsSaved
  BY SessionPromises DEF ShownIsSaved
<1> QED BY <1>1, <1>2, <1>3, PTL DEF MCSpec

\* The other hooks show the answer to what was asked last, are loading only while
\* something is under way, report each error and poll as rarely as the limits
\* demand, for any number of components, requests, platforms, queries and tools
\* (useAuthStatus.ts, useDataFetching.ts, useToolQueries.ts, useRateLimit.ts).
THEOREM HooksFollowTheirRequestsComposed ==
  ASSUME LoginsGiven, PagesNone, PollsGiven, QueriesGiven
  PROVE  MCSpec => []HooksFollowTheirRequests
<1> DEFINE Inv == /\ part = "auth status" => LoginsInv
                  /\ part = "pages" => PagesInv
                  /\ part = "polls" => PollsInv
                  /\ part = "queries" => QueriesInv
<1>1. MCInit => Inv
  BY LoginsStart, PagesStarts, PollsStart, QueriesStart DEF MCInit, MCPlatforms
<1>2. Inv /\ [MCNext]_all => Inv'
  BY PartStays, LoginsMove, LoginsStep, PagesMove, PagesStep, PollsMove, PollsStep,
    QueriesMove, QueriesStep
<1>3. Inv => HooksFollowTheirRequests
  BY LoginsPromise, PagesPromises, PollsPromise, QueriesPromise DEF HooksFollowTheirRequests
<1> QED BY <1>1, <1>2, <1>3, PTL DEF MCSpec

-----------------------------------------------------------------------------
(* The types of the hooks' variables.                                         *)

\* The flags of a hook that shows one answer.
PageFlags == error \in BOOLEAN /\ pageLoading \in BOOLEAN

\* They stay flags.
LEMMA PageFlagsStep ==
  PageFlags /\ [Pages!Next]_(Pages!vars) => PageFlags'
<1> SUFFICES ASSUME PageFlags, [Pages!Next]_(Pages!vars) PROVE PageFlags'
  OBVIOUS
<1>1. CASE Pages!Refresh \/ Pages!ChangeKey \/ Pages!Enable
  BY <1>1, Zenon DEF PageFlags, Pages!Refresh, Pages!ChangeKey, Pages!Enable, Pages!Fetch
<1>2. CASE Pages!Disable \/ Pages!Cancel
  BY <1>2, Zenon DEF PageFlags, Pages!Disable, Pages!Cancel
<1>3. ASSUME NEW c \in Requests, Pages!Arrives(c) \/ Pages!Unsupported(c) \/ Pages!Fails(c)
      PROVE  PageFlags'
  <2>1. pageLoading' = FALSE /\ error' \in BOOLEAN
    BY <1>3, Zenon DEF PageFlags, Pages!Arrives, Pages!Unsupported, Pages!Fails, Pages!Ends
  <2> QED
    BY <2>1 DEF PageFlags
<1>4. CASE UNCHANGED Pages!vars
  BY <1>4 DEF PageFlags, Pages!vars
<1> QED
  BY <1>1, <1>2, <1>3, <1>4 DEF Pages!Next

\* What is shown, and what is under way, has a key and a number.
LEMMA PagesTypes ==
  ASSUME PagesNone
  PROVE  PagesInv /\ PageFlags => Pages!TypeOK
<1> SUFFICES ASSUME PagesInv, PageFlags PROVE Pages!TypeOK
  OBVIOUS
<1>1. fetches \in Nat /\ shown \in PageAnswer \cup {None}
      /\ pageCalls \in [Requests -> PageCall \cup {Pages!Free}] /\ Numbered
  BY DEF PagesInv, PageShapes
<1>2. shown # None => shown.key \in PageKeys /\ shown.nr \in 1..fetches
  BY <1>1 DEF PageAnswer, Numbered
<1>3. \A c \in Pages!Busy : pageCalls[c].nr \in 1..fetches
  BY <1>1 DEF PageCall, Pages!Busy, Numbered
<1> QED
  BY <1>2, <1>3 DEF PageFlags, Pages!TypeOK

\* Queries are fetched or not, and reports are bounded.
QueriesTyped ==
  /\ fetching \in [DOMAIN QueryTools -> BOOLEAN]
  /\ \A i \in DOMAIN QueryTools : sent[i] \in 0..MaxReports

\* They stay so: only a new message is reported.
LEMMA QueriesTypedStep ==
  ASSUME MaxReports \in Nat
  PROVE  QueriesInv /\ QueriesTyped /\ [Queries!Next]_(Queries!vars) => QueriesTyped'
<1> SUFFICES ASSUME QueriesInv, QueriesTyped, [Queries!Next]_(Queries!vars) PROVE QueriesTyped'
  OBVIOUS
<1>1. ASSUME NEW S, Queries!Refetch(S)
      PROVE  QueriesTyped'
  BY <1>1 DEF Queries!Refetch, Queries!Queries, QueriesTyped
<1>2. ASSUME NEW i \in DOMAIN QueryTools, Queries!FetchEnds(i)
      PROVE  QueriesTyped'
  <2>1. fetching' \in [DOMAIN QueryTools -> BOOLEAN]
    BY <1>2 DEF Queries!FetchEnds, QueriesTyped
  <2>2. PICK message \in Messages \cup {None} :
          (sent[i] < MaxReports \/ message \in {None, failed[i]}) /\ Queries!ReportWidgetError(i, message)
    BY <1>2 DEF Queries!FetchEnds
  <2>3. sent \in [DOMAIN QueryTools -> Nat] /\ reported = failed
    BY DEF QueriesInv
  <2>4. (sent' = [sent EXCEPT ![i] = @ + 1] /\ sent[i] < MaxReports)
        \/ \E x \in {0, sent[i]} : sent' = [sent EXCEPT ![i] = x]
    BY <2>2, <2>3 DEF Queries!ReportWidgetError
  <2>5. \A j \in DOMAIN QueryTools : sent'[j] \in 0..MaxReports
    BY <2>3, <2>4 DEF QueriesTyped
  <2> QED
    BY <2>1, <2>5 DEF QueriesTyped
<1>3. CASE UNCHANGED Queries!vars
  BY <1>3 DEF Queries!vars, QueriesTyped
<1> QED
  BY <1>1, <1>2, <1>3 DEF Queries!Next, Queries!RefreshAllData, Queries!RefreshToolData, Queries!Queries

\* The types follow.
LEMMA QueriesTypes == QueriesInv /\ QueriesTyped => Queries!TypeOK
<1> SUFFICES ASSUME QueriesInv, QueriesTyped PROVE Queries!TypeOK
  OBVIOUS
<1>1. sent \in [DOMAIN QueryTools -> 0..MaxReports]
  BY DEF QueriesInv, QueriesTyped
<1> QED
  BY <1>1 DEF QueriesInv, QueriesTyped, Queries!TypeOK, Queries!Queries

\* A platform is loading or not, or nothing is known of it.
PollFlags == pollLoading \in [PolledPlatforms -> BOOLEAN \cup {None}]

\* It stays so.
LEMMA PollFlagsStep ==
  PollFlags /\ [Polls!Next]_(Polls!vars) => PollFlags'
<1> SUFFICES ASSUME PollFlags, [Polls!Next]_(Polls!vars) PROVE PollFlags'
  OBVIOUS
<1>1. ASSUME Polls!RefreshAll PROVE PollFlags'
  BY <1>1 DEF Polls!RefreshAll, PollFlags
<1>2. CASE Polls!NewTools
  BY <1>1, <1>2 DEF Polls!NewTools
<1>3. CASE Polls!EnabledChanges
  <2>1. Polls!RefreshAll \/ pollLoading' = [p \in PolledPlatforms |-> None]
    BY <1>3 DEF Polls!EnabledChanges
  <2> QED
    BY <1>1, <2>1 DEF PollFlags
<1>4. CASE Polls!VisibilityChanges \/ Polls!ActivityChanges \/ UNCHANGED Polls!vars
  BY <1>4 DEF Polls!VisibilityChanges, Polls!ActivityChanges, Polls!vars, PollFlags
<1>5. ASSUME NEW c \in Requests, Polls!Arrives(c) PROVE PollFlags'
  <2>1. pollLoading' = [pollLoading EXCEPT ![pollCalls[c]] = FALSE]
    BY <1>5 DEF Polls!Arrives
  <2> QED
    BY <2>1 DEF PollFlags
<1> QED
  BY <1>2, <1>3, <1>4, <1>5 DEF Polls!Next

\* What a cache says was said in the past.
SaidBefore(c) == c # None => \A e \in Endpoints : c[e] # None => c[e].at \in 0..statusNow
StatusTimes ==
  /\ statusNow \in Nat /\ SaidBefore(statusStored)
  /\ \A h \in Requests : SaidBefore(statusCache[h])

\* The time of an answer is that at which it comes.
LEMMA StatusTimesStep ==
  ASSUME LoginsGiven, StatusNone
  PROVE  ForwardInv /\ StatusTimes /\ [Logins!Next]_(Logins!vars) => StatusTimes'
<1> SUFFICES ASSUME ForwardInv, StatusTimes, [Logins!Next]_(Logins!vars) PROVE StatusTimes'
  OBVIOUS
<1>1. statusCache = [h \in Requests |-> statusCache[h]] /\ statusNow \in Nat
  BY DEF ForwardInv, StatusesArePast, StatusTimes
<1>2. ASSUME statusNow' = statusNow,
             statusStored' \in {statusStored, None},
             statusCache' = [h \in Requests |-> statusCache'[h]],
             \A h \in Requests : statusCache'[h] \in {statusCache[h], statusStored, None}
      PROVE  StatusTimes'
  BY <1>2 DEF StatusTimes, SaidBefore
<1>3. ASSUME NEW h \in Requests, Logins!Refresh(h) PROVE StatusTimes'
  <2>1. statusStored' = None /\ statusCache' = [statusCache EXCEPT ![h] = None] /\ statusNow' = statusNow
    BY <1>3 DEF Logins!Refresh
  <2> QED
    BY <1>1, <1>2, <2>1
<1>4. ASSUME NEW h \in Requests, Logins!Mount(h) PROVE StatusTimes'
  <2>1. CASE Logins!Refresh(h)
    BY <1>3, <2>1
  <2>2. CASE ~Logins!Refresh(h)
    <3>1. statusStored' = statusStored /\ statusCache' = [statusCache EXCEPT ![h] = statusStored]
          /\ statusNow' = statusNow
      BY <1>4, <2>2 DEF Logins!Mount
    <3> QED
      BY <1>1, <1>2, <3>1
  <2> QED
    BY <2>1, <2>2
<1>5. ASSUME NEW h \in Requests, Logins!RefreshAuthStatus(h) \/ Logins!ClearCache(h) PROVE StatusTimes'
  <2>1. CASE Logins!RefreshAuthStatus(h)
    BY <1>3, <2>1 DEF Logins!RefreshAuthStatus
  <2>2. CASE Logins!ClearCache(h)
    <3>1. statusStored' = None /\ statusCache' = [statusCache EXCEPT ![h] = None] /\ statusNow' = statusNow
      BY <2>2 DEF Logins!ClearCache
    <3> QED
      BY <1>1, <1>2, <3>1
  <2> QED
    BY <1>5, <2>1, <2>2
<1>6. ASSUME NEW h \in Requests, NEW e \in Endpoints, Logins!Fetch(h, e) \/ Logins!FetchCached(h, e)
      PROVE  StatusTimes'
  <2>1. UNCHANGED <<statusNow, statusStored, statusCache>>
    BY <1>6 DEF Logins!Fetch, Logins!FetchCached
  <2> QED
    BY <1>1, <1>2, <2>1
<1>7. ASSUME NEW r \in PageRequests, Logins!Fails(r) PROVE StatusTimes'
  <2>1. UNCHANGED <<statusNow, statusStored, statusCache>>
    BY <1>7 DEF Logins!Fails, Logins!Done
  <2> QED
    BY <1>1, <1>2, <2>1
<1>8. ASSUME NEW r \in PageRequests, Logins!Arrives(r) PROVE StatusTimes'
  <2> DEFINE q == statusRequests[r]
             old == IF statusCache[q.by] = None THEN Logins!Empty ELSE statusCache[q.by]
             new == [old EXCEPT ![q.endpoint] = [data |-> q.data, at |-> statusNow]]
  <2>1. statusStored' = new /\ statusCache' = [statusCache EXCEPT ![q.by] = new] /\ statusNow' = statusNow
    BY <1>8 DEF Logins!Arrives, Logins!Done
  <2>2. q.by \in Requests /\ q.endpoint \in Endpoints
    BY <1>8, AskedBy DEF Logins!Arrives
  <2>3. old = [e \in Endpoints |-> old[e]]
    BY <2>2 DEF ForwardInv, StatusesArePast, IsStatusCache, Logins!Empty
  <2>4. \A e \in Endpoints : old[e] # None => old[e].at \in 0..statusNow
    BY <2>2 DEF StatusTimes, SaidBefore, Logins!Empty
  <2> HIDE DEF old
  <2>5. \A e \in Endpoints : new[e] # None => new[e].at \in 0..statusNow
    <3> DEFINE said == [data |-> q.data, at |-> statusNow]
    <3>1. said.at = statusNow /\ statusNow \in 0..statusNow
      BY <1>1
    <3> HIDE DEF said
    <3>2. new = [old EXCEPT ![q.endpoint] = said]
      BY DEF said
    <3>3. \A e \in Endpoints : new[e] = IF e = q.endpoint THEN said ELSE old[e]
      BY <2>2, <2>3, <3>2
    <3> QED
      BY <2>4, <3>1, <3>3
  <2> HIDE DEF new
  <2>6. ASSUME NEW h \in Requests PROVE SaidBefore(statusCache[h])'
    <3>1. statusCache'[h] = new \/ statusCache'[h] = statusCache[h]
      BY <1>1, <2>1
    <3> QED
      BY <2>1, <2>5, <3>1 DEF SaidBefore, StatusTimes
  <2> QED
    BY <1>1, <2>1, <2>5, <2>6 DEF StatusTimes, SaidBefore
<1>9. CASE Logins!Leave
  <2>1. statusNow' = statusNow /\ statusStored' = statusStored /\ statusCache' = [h \in Requests |-> None]
    BY <1>9 DEF Logins!Leave
  <2> QED
    BY <1>2, <2>1
<1>10. CASE Logins!Login \/ Logins!Tick \/ UNCHANGED Logins!vars
  <2>1. /\ statusNow' \in {statusNow, statusNow + 1}
        /\ UNCHANGED <<statusStored, statusCache>>
    BY <1>10 DEF Logins!Login, Logins!Tick, Logins!vars
  <2> QED
    BY <1>1, <2>1 DEF StatusTimes, SaidBefore
<1> QED
  BY <1>4, <1>5, <1>6, <1>7, <1>8, <1>9, <1>10 DEF Logins!Next

\* What is known of the logins is of the past, and so is when it was said.
LEMMA LoginsTypes ==
  ForwardInv /\ StatusTimes => Logins!TypeOK
<1> SUFFICES ASSUME ForwardInv, StatusTimes PROVE Logins!TypeOK
  OBVIOUS
<1>1. logins \in Nat /\ pending \in [Endpoints -> PageRequests \cup {None}]
  BY DEF ForwardInv, LoginsInv, LoginShapes
<1>2. \A x : IsStatus(x) => x \in 0..logins
  BY <1>1 DEF IsStatus
<1>3. ASSUME NEW c, IsStatusCache(c), SaidBefore(c) PROVE Logins!Cached(c)
  BY <1>2, <1>3 DEF IsStatusCache, SaidBefore, Logins!Cached
<1>4. Logins!Cached(statusStored) /\ \A h \in Requests : Logins!Cached(statusCache[h])
  BY <1>3 DEF ForwardInv, StatusesArePast, StatusTimes
<1>5. \A h \in Requests : statusShown[h] \in 0..logins \cup {None}
  BY <1>2 DEF ForwardInv, StatusesArePast
<1> QED
  BY <1>1, <1>4, <1>5 DEF Logins!TypeOK

\* The hooks of a page with what their types need.
HooksTyped ==
  /\ part = "auth status" => ForwardInv /\ StatusTimes
  /\ part = "session" => SessionInv
  /\ part = "pages" => PagesInv /\ PageFlags
  /\ part = "polls" => PollsInv /\ PollFlags
  /\ part = "queries" => QueriesInv /\ QueriesTyped

\* What their theorems assume, and that there may be reports.
HooksGiven ==
  /\ LoginsGiven /\ StatusNone /\ SessionsGiven /\ PagesNone /\ PollsGiven /\ QueriesGiven
  /\ MaxReports \in Nat

\* They start so,
LEMMA HooksTypedStart ==
  ASSUME HooksGiven, MCInit
  PROVE  HooksTyped
<1>1. Logins!Init => StatusTimes
  BY DEF Logins!Init, StatusTimes, SaidBefore
<1>2. Pages!Init => PageFlags
  BY DEF Pages!Init, PageFlags
<1>3. Polls!Init => PollFlags
  BY DEF Polls!Init, PollFlags
<1>4. Queries!Init => QueriesTyped
  BY DEF Queries!Init, Queries!Queries, QueriesTyped, HooksGiven
<1> QED
  BY <1>1, <1>2, <1>3, <1>4, ForwardStart, SessionStarts, PagesStarts, PollsStart, QueriesStart
  DEF MCInit, MCPlatforms, HooksTyped, HooksGiven

\* and stay so in every step of the composition.
LEMMA HooksTypedStep ==
  ASSUME HooksGiven, HooksTyped, [MCNext]_all
  PROVE  HooksTyped'
<1>1. part' = part
  BY PartStays
<1>2. CASE part = "auth status"
  BY <1>1, <1>2, ForwardStep, StatusTimesStep, LoginsMove DEF HooksTyped, HooksGiven
<1>3. CASE part = "session"
  BY <1>1, <1>3, SessionStep, SessionMoves DEF HooksTyped, HooksGiven
<1>4. CASE part = "pages"
  BY <1>1, <1>4, PagesStep, PageFlagsStep, PagesMove DEF HooksTyped, HooksGiven
<1>5. CASE part = "polls"
  BY <1>1, <1>5, PollsStep, PollFlagsStep, PollsMove DEF HooksTyped, HooksGiven
<1>6. CASE part = "queries"
  BY <1>1, <1>6, QueriesStep, QueriesTypedStep, QueriesMove DEF HooksTyped, HooksGiven
<1> QED
  BY <1>1, <1>2, <1>3, <1>4, <1>5, <1>6 DEF HooksTyped

\* Their types follow.
LEMMA HooksTypes ==
  ASSUME HooksGiven, HooksTyped
  PROVE  /\ part = "auth status" => Logins!TypeOK
         /\ part = "session" => Browser!TypeOK
         /\ part = "pages" => Pages!TypeOK
         /\ part = "polls" => Polls!TypeOK
         /\ part = "queries" => Queries!TypeOK
<1>1. SessionInv => Browser!TypeOK
  BY DEF SessionInv, SessionShapes, Browser!TypeOK
<1>2. PollsInv /\ PollFlags => Polls!TypeOK
  BY DEF PollsInv, PollFlags, Polls!TypeOK
<1> QED
  BY <1>1, <1>2, LoginsTypes, PagesTypes, QueriesTypes DEF HooksTyped, HooksGiven
=============================================================================
