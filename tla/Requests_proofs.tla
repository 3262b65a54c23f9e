---------------------------- MODULE Requests_proofs ----------------------------
(***************************************************************************)
(* Proofs about components that MCRequests composes, with their parameters *)
(* left open: for any number of requests, clients, keys, paths and rules.  *)
(* Each is first proved of the component by itself, an instance of its     *)
(* module, and then of the composition, where the component's steps are    *)
(* the only ones that touch its variables.                                 *)
(***************************************************************************)
EXTENDS Services_proofs, ToolGateway_proofs

-----------------------------------------------------------------------------
(* A component has the places v1, v2 ... of MCRequests for its variables; these *)
(* are the names that its module gives them.                                   *)

stateRows == v1
stateCalls == v2
stateLast == v3
stateFaults == v4

written == v1
cached == v2
cacheCalls == v3
raced == v4

clock == v1
windows == v2
kept == v3
refused == v4
fixedLog == v5
slidingLog == v6

time == v1
store == v2
status == v3
isConnecting == v4
client == v5
redisCalls == v6

reachable == v1
instances == v2
metrics == v3
made == v4
creations == v5
disposal == v6

batch == v1
options == v2
phase == v3
flight == v4
settled == v5
responses == v6
batchAnswer == v7
recorded == v8
elapsed == v9

USE DEF stateRows, stateCalls, stateLast, stateFaults, written, cached, cacheCalls, raced,
  clock, windows, kept, refused, fixedLog, slidingLog, time, store, status, isConnecting,
  client, redisCalls, reachable, instances, metrics, made, creations, disposal

-----------------------------------------------------------------------------
(* The application state (lib/database/app-state-repository.ts).              *)

\* null is not a value, nor a call, nor the record of one.
StateCall == [op : {"set", "delete"}, key : StateKeys, value : Values \cup {None}, at : {"asked", "updated"}]
StateLast == [call : Requests, value : Values, ended : BOOLEAN]
StateNone == None \notin Values /\ None \notin StateCall /\ None \notin StateLast

\* What the code carries from the update to the insert: a set keeps its value.
StateCallsOK ==
  /\ stateCalls \in [Requests -> StateCall \cup {None}]
  /\ \A c \in Requests :
       /\ stateCalls[c] # None /\ stateCalls[c].op = "set" => stateCalls[c].value \in Values
       /\ stateCalls[c] # None /\ stateCalls[c].at = "updated" => stateCalls[c].op = "set"

\* The set that reached a row last: the row has its value, or is not there before its
\* insert, and the call that is in the middle of it is the one that will end it.
LastOK ==
  /\ stateLast \in [StateKeys -> StateLast \cup {None}]
  /\ \A k \in StateKeys : stateLast[k] # None =>
       /\ stateRows[k] = stateLast[k].value \/ (stateRows[k] = None /\ ~stateLast[k].ended)
       /\ \A c \in Requests :
            stateCalls[c] # None /\ stateCalls[c].at = "updated" /\ stateCalls[c].key = k
              /\ stateLast[k].call = c => stateLast[k].value = stateCalls[c].value
StateInv == State!TypeOK /\ StateCallsOK /\ LastOK

\* The update of a set gives the row its value or finds none.
LEMMA UpdatesKeep ==
  ASSUME StateNone, StateInv, NEW c \in Requests, State!Updates(c)
  PROVE  StateInv'
<1> USE DEF StateInv
<1> DEFINE k == stateCalls[c].key
           v == stateCalls[c].value
           l == [call |-> c, value |-> v, ended |-> FALSE]
<1>1. /\ stateCalls[c] # None /\ stateCalls[c].op = "set" /\ k \in StateKeys /\ v \in Values
      /\ stateRows' = [stateRows EXCEPT ![k] = IF stateRows[k] = None THEN None ELSE v]
      /\ stateCalls' = [stateCalls EXCEPT ![c].at = "updated"]
      /\ stateLast' = [stateLast EXCEPT ![k] = l]
  BY DEF State!Updates, State!Updated, StateCallsOK, StateCall, State!TypeOK
<1>2. State!TypeOK'
  BY <1>1 DEF State!TypeOK
<1>3. StateCallsOK' /\ stateCalls' \in [Requests -> StateCall \cup {None}]
  BY <1>1 DEF StateNone, StateCallsOK, StateCall
<1>4. l \in StateLast /\ l # None
  <2>1. v \in Values /\ FALSE \in BOOLEAN
    BY <1>1
  <2> HIDE DEF v
  <2>2. l \in StateLast
    BY <2>1 DEF StateLast
  <2> QED BY <2>2 DEF StateNone
<1>5. /\ \A j \in StateKeys \ {k} : stateRows'[j] = stateRows[j] /\ stateLast'[j] = stateLast[j]
      /\ stateLast'[k] = l /\ stateRows'[k] \in {None, v}
  BY <1>1 DEF State!TypeOK, LastOK
<1>6. /\ \A d \in Requests \ {c} : stateCalls'[d] = stateCalls[d]
      /\ stateCalls'[c].key = k /\ stateCalls'[c].value = v
  BY <1>1 DEF StateCallsOK, StateCall
<1>7. stateLast' \in [StateKeys -> StateLast \cup {None}]
  BY <1>1, <1>4 DEF LastOK
<1>8. l.value = v /\ l.ended = FALSE /\ l.call = c
  OBVIOUS
<1> HIDE DEF k, v, l
<1>9. ASSUME NEW j \in StateKeys, stateLast'[j] # None
      PROVE  /\ stateRows'[j] = stateLast'[j].value \/ (stateRows'[j] = None /\ ~stateLast'[j].ended)
             /\ \A d \in Requests :
                  stateCalls'[d] # None /\ stateCalls'[d].at = "updated" /\ stateCalls'[d].key = j
                    /\ stateLast'[j].call = d => stateLast'[j].value = stateCalls'[d].value
  <2>1. CASE j = k
    BY <1>5, <1>6, <1>8, <2>1
  <2>2. CASE j # k
    BY <1>5, <1>6, <1>9, <2>2 DEF LastOK
  <2> QED BY <2>1, <2>2
<1> QED BY <1>2, <1>3, <1>7, <1>9 DEF LastOK

\* The insert of a set finds no row and gives it the value, or finds the value that
\* its own update, or another set, has put there.
LEMMA InsertsKeep ==
  ASSUME StateNone, StateInv, NEW c \in Requests, State!Inserts(c)
  PROVE  StateInv'
<1> USE DEF StateInv
<1> DEFINE k == stateCalls[c].key
           v == stateCalls[c].value
<1>1. /\ stateCalls[c] # None /\ stateCalls[c].at = "updated" /\ k \in StateKeys /\ v \in Values
      /\ stateRows' = [stateRows EXCEPT ![k] = IF stateRows[k] = None THEN v ELSE stateRows[k]]
      /\ stateCalls' = [stateCalls EXCEPT ![c] = None]
      /\ stateLast' = IF stateLast[k] # None /\ stateLast[k].call = c
                      THEN [stateLast EXCEPT ![k].ended = TRUE]
                      ELSE IF stateRows[k] = None THEN [stateLast EXCEPT ![k] = None] ELSE stateLast
  BY DEF State!Inserts, State!IsLast, StateCallsOK, StateCall, State!TypeOK
<1>2. State!TypeOK' /\ StateCallsOK'
  BY <1>1 DEF State!TypeOK, StateCallsOK
<1>3. stateLast' \in [StateKeys -> StateLast \cup {None}]
  BY <1>1 DEF LastOK, StateLast
<1>4. ASSUME NEW j \in StateKeys, stateLast'[j] # None
      PROVE  /\ stateRows'[j] = stateLast'[j].value \/ (stateRows'[j] = None /\ ~stateLast'[j].ended)
             /\ \A d \in Requests :
                  stateCalls'[d] # None /\ stateCalls'[d].at = "updated" /\ stateCalls'[d].key = j
                    /\ stateLast'[j].call = d => stateLast'[j].value = stateCalls'[d].value
  <2>1. CASE stateLast[k] # None /\ stateLast[k].call = c
    <3>1. CASE j = k
      <4>1. stateLast[k].value = v /\ stateLast'[k].value = stateLast[k].value
            /\ stateLast'[k].call = c
        BY <1>1, <2>1 DEF LastOK, StateLast
      <4>2. stateRows'[k] = v
        BY <1>1, <2>1, <4>1 DEF State!TypeOK, LastOK
      <4>3. stateCalls'[c] = None
        BY <1>1 DEF StateCallsOK
      <4> QED BY <3>1, <4>1, <4>2, <4>3
    <3>2. CASE j # k
      BY <1>1, <1>4, <2>1, <3>2 DEF LastOK, State!TypeOK, StateCallsOK
    <3> QED BY <3>1, <3>2
  <2>2. CASE ~(stateLast[k] # None /\ stateLast[k].call = c) /\ stateRows[k] = None
    <3>1. j # k /\ stateLast'[j] = stateLast[j] /\ stateRows'[j] = stateRows[j]
      BY <1>1, <1>4, <2>2 DEF LastOK, State!TypeOK
    <3> QED BY <1>1, <1>4, <3>1 DEF LastOK, StateCallsOK
  <2>3. CASE ~(stateLast[k] # None /\ stateLast[k].call = c) /\ stateRows[k] # None
    <3>1. stateLast'[j] = stateLast[j] /\ stateRows'[j] = stateRows[j]
      BY <1>1, <2>3 DEF State!TypeOK
    <3>2. \A d \in Requests : stateCalls'[d] = stateCalls[d] \/ stateCalls'[d] = None
      BY <1>1 DEF StateCallsOK
    <3> QED BY <1>4, <3>1, <3>2 DEF LastOK
  <2> QED BY <2>1, <2>2, <2>3
<1> QED BY <1>2, <1>3, <1>4 DEF LastOK

\* Every statement keeps the row with the set that reached it last.
LEMMA StateStep ==
  ASSUME StateNone, StateInv, [State!Next]_(State!vars)
  PROVE  StateInv'
<1> USE DEF StateInv
<1>1. ASSUME NEW c \in Requests, NEW k \in StateKeys, NEW v \in Values, State!Begin(c, "set", k, v)
      PROVE  StateInv'
  BY <1>1 DEF StateNone, State!Begin, State!TypeOK, StateCallsOK, StateCall, LastOK
<1>2. ASSUME NEW c \in Requests, NEW k \in StateKeys, State!Begin(c, "delete", k, None)
      PROVE  StateInv'
  BY <1>2 DEF StateNone, State!Begin, State!TypeOK, StateCallsOK, StateCall, LastOK
<1>3. ASSUME NEW c \in Requests, State!DeleteState(c)
      PROVE  StateInv'
  BY <1>3 DEF State!DeleteState, State!TypeOK, StateCallsOK, StateCall, LastOK
<1>4. ASSUME NEW c \in Requests, State!Fails(c)
      PROVE  StateInv'
  BY <1>4 DEF State!Fails, State!TypeOK, StateCallsOK, LastOK
<1>5. CASE UNCHANGED State!vars
  BY <1>5 DEF State!vars, State!TypeOK, StateCallsOK, LastOK
<1> QED BY <1>1, <1>2, <1>3, <1>4, <1>5, UpdatesKeep, InsertsKeep DEF State!Next

\* At the start nothing is stored and nothing is asked.
LEMMA StateStarts == State!Init => StateInv
  BY DEF State!Init, StateInv, State!TypeOK, StateCallsOK, LastOK

\* The invariant is more than the promise.
LEMMA StatePromise == StateInv => State!SetsStand
  BY DEF StateInv, LastOK, State!SetsStand

\* In lib/database/app-state-repository.ts what a setState wrote stands once it has
\* ended, by an answer or by throwing, until another call's statement reaches the row,
\* however the updates, inserts and deletes of any number of calls interleave or fail.
THEOREM SetsStandAlways ==
  ASSUME StateNone
  PROVE  State!Spec => []State!SetsStand
<1>1. State!Init => StateInv
  BY StateStarts
<1>2. StateInv /\ [State!Next]_(State!vars) => StateInv'
  BY StateStep
<1> QED BY <1>1, <1>2, StatePromise, PTL DEF State!Spec

\* The application state moves by its own steps.
LEMMA StateMoves ==
  part = "app state" /\ [MCNext]_all => [State!Next]_(State!vars)
  BY DEF MCNext, MCPlatforms, all, rest1, State!vars

\* The same of the composition.
THEOREM SetsStandComposed ==
  ASSUME StateNone
  PROVE  MCSpec => []SetsStand
<1> DEFINE Inv == part = "app state" => StateInv
<1>1. MCInit => Inv
  BY StateStarts DEF MCInit, MCPlatforms
<1>2. Inv /\ [MCNext]_all => Inv'
  BY PartStays, StateMoves, StateStep
<1>3. Inv => SetsStand
  BY StatePromise DEF SetsStand
<1> QED BY <1>1, <1>2, <1>3, PTL DEF MCSpec

-----------------------------------------------------------------------------
(* Cache invalidation (lib/api/middleware/cache-invalidation-middleware.ts).   *)

CacheCall == [op : {"get", "write", "tags"}, path : Paths \cup {None}, answer : Nat, keys : SUBSET Paths]

\* null is neither an answer nor a request.
CacheNone == None \notin Nat /\ None \notin CacheCall /\ MaxWrites \in Nat

\* A request that answers or writes names a path, and no answer has seen a write
\* that has not happened.
CacheCallsOK ==
  /\ cacheCalls \in [Requests -> CacheCall \cup {None}]
  /\ \A c \in Requests : Invalidation!Doing(c, "get") \/ Invalidation!Doing(c, "write") =>
       cacheCalls[c].path \in Paths /\ cacheCalls[c].answer <= written[cacheCalls[c].path]
CacheShapes == cached \in [Paths -> Nat \cup {None}]
CacheTypes == Invalidation!TypeOK /\ CacheShapes /\ CacheCallsOK
CacheInv == CacheTypes /\ Invalidation!StaleOnlyAfterARace

-----------------------------------------------------------------------------
\* What is dropped is dropped, and the rest stays as it was.
LEMMA DropsOnly ==
  ASSUME CacheTypes, NEW ps, Invalidation!Drop(ps), UNCHANGED written
  PROVE  /\ CacheShapes'
         /\ Invalidation!TypeOK'
         /\ \A p \in Paths : cached'[p] # None =>
              p \notin ps /\ cached'[p] = cached[p] /\ (p \in raced => p \in raced')
BY DEF CacheTypes, Invalidation!TypeOK, CacheShapes, Invalidation!Drop, Invalidation!Held

\* A path whose own key one of its rules is sure to delete is dropped by its write,
\* whatever its other rules do.
LEMMA CoveredIsDropped ==
  ASSUME NEW p \in Invalidation!Covered, cached[p] # None
  PROVE  p \in Invalidation!Invalidated(p)
<1>1. PICK r \in Rules : p \in r.fires /\ p \in r.hits /\ (r.pattern = "string" \/ ~r.related)
  BY DEF Invalidation!Covered
<1>2. p \in Invalidation!Held \cap r.hits
  BY <1>1 DEF Invalidation!Covered, Invalidation!Held
<1>3. p \in Invalidation!Selected(r)
  BY <1>1, <1>2 DEF Invalidation!Selected
<1> QED BY <1>1, <1>3 DEF Invalidation!Invalidated

\* Every step keeps the shapes.
LEMMA TypesStep ==
  ASSUME CacheNone, CacheTypes, [Invalidation!Next]_(Invalidation!vars)
  PROVE  CacheTypes'
<1> USE DEF CacheNone
<1>1. ASSUME NEW c \in Requests, NEW p \in Paths, Invalidation!Answers(c, p) PROVE CacheTypes'
  BY <1>1 DEF Invalidation!Answers, CacheTypes, Invalidation!TypeOK, CacheShapes,
    CacheCallsOK, CacheCall, Invalidation!Doing, Invalidation!Held
<1>2. ASSUME NEW c \in Requests, NEW p \in Paths, Invalidation!Writes(c, p) PROVE CacheTypes'
  <2>1. Invalidation!TypeOK' /\ CacheShapes'
    BY <1>2 DEF Invalidation!Writes, CacheTypes, Invalidation!TypeOK, CacheShapes,
      Invalidation!Held
  <2>2. CacheCallsOK'
    BY <1>2 DEF Invalidation!Writes, CacheTypes, Invalidation!TypeOK, CacheCallsOK,
      CacheCall, Invalidation!Doing
  <2> QED BY <2>1, <2>2 DEF CacheTypes
<1>3. ASSUME NEW c \in Requests, NEW ts \in Tags, Invalidation!Tagged(c, ts) PROVE CacheTypes'
  BY <1>3 DEF Invalidation!Tagged, CacheTypes, Invalidation!TypeOK, CacheShapes,
    CacheCallsOK, CacheCall, Invalidation!Doing, Invalidation!Held
<1>4. ASSUME NEW c \in Requests, Invalidation!Stores(c) PROVE CacheTypes'
  <2>1. cacheCalls[c].path \in Paths /\ cacheCalls[c].answer \in 0..written[cacheCalls[c].path]
    BY <1>4 DEF Invalidation!Stores, CacheTypes, Invalidation!TypeOK, CacheCallsOK,
      CacheCall, Invalidation!Doing
  <2>2. Invalidation!TypeOK' /\ CacheShapes'
    BY <1>4, <2>1 DEF Invalidation!Stores, CacheTypes, Invalidation!TypeOK, CacheShapes,
      Invalidation!Held
  <2>3. CacheCallsOK'
    BY <1>4 DEF Invalidation!Stores, CacheTypes, CacheCallsOK, Invalidation!Doing
  <2> QED BY <2>2, <2>3 DEF CacheTypes
<1>5. ASSUME NEW c \in Requests, Invalidation!Invalidates(c) PROVE CacheTypes'
  BY <1>5, DropsOnly DEF Invalidation!Invalidates, CacheTypes, CacheCallsOK,
    Invalidation!Doing
<1>6. ASSUME NEW c \in Requests, Invalidation!TagsInvalidate(c) PROVE CacheTypes'
  BY <1>6, DropsOnly DEF Invalidation!TagsInvalidate, CacheTypes, CacheCallsOK,
    Invalidation!Doing
<1>7. CASE UNCHANGED Invalidation!vars
  BY <1>7 DEF Invalidation!vars, CacheTypes, Invalidation!TypeOK, CacheShapes,
    CacheCallsOK, Invalidation!Doing, Invalidation!Held
<1> QED BY <1>1, <1>2, <1>3, <1>4, <1>5, <1>6, <1>7 DEF Invalidation!Next

\* A path whose answer is stale and not the outcome of a race has a write on its
\* way, which only its own invalidation ends; and that drops the answer.
LEMMA StaleStep ==
  ASSUME CacheNone, CacheInv, [Invalidation!Next]_(Invalidation!vars)
  PROVE  Invalidation!StaleOnlyAfterARace'
<1> USE DEF CacheNone, CacheInv
<1> SUFFICES ASSUME NEW p \in Invalidation!Covered, cached'[p] # None, cached'[p] < written'[p], p \notin raced'
             PROVE  \E c \in Requests : Invalidation!Doing(c, "write")' /\ cacheCalls'[c].path = p
  BY DEF Invalidation!StaleOnlyAfterARace, Invalidation!Covered
<1>p. p \in Paths
  BY DEF Invalidation!Covered
<1>1. ASSUME NEW c \in Requests, NEW q \in Paths, Invalidation!Answers(c, q)
      PROVE  \E d \in Requests : Invalidation!Doing(d, "write")' /\ cacheCalls'[d].path = p
  BY <1>1 DEF Invalidation!Answers, CacheTypes, CacheCallsOK,
    Invalidation!StaleOnlyAfterARace, Invalidation!Doing
<1>2. ASSUME NEW c \in Requests, NEW q \in Paths, Invalidation!Writes(c, q)
      PROVE  \E d \in Requests : Invalidation!Doing(d, "write")' /\ cacheCalls'[d].path = p
  <2>1. CASE p = q
    BY <1>2, <2>1 DEF Invalidation!Writes, CacheTypes, CacheCallsOK, CacheCall,
      Invalidation!Doing
  <2>2. CASE p # q
    BY <1>2, <1>p, <2>2 DEF Invalidation!Writes, CacheTypes, Invalidation!TypeOK,
      CacheCallsOK, Invalidation!StaleOnlyAfterARace, Invalidation!Doing
  <2> QED BY <2>1, <2>2
<1>3. ASSUME NEW c \in Requests, NEW ts \in Tags, Invalidation!Tagged(c, ts)
      PROVE  \E d \in Requests : Invalidation!Doing(d, "write")' /\ cacheCalls'[d].path = p
  BY <1>3 DEF Invalidation!Tagged, CacheTypes, CacheCallsOK,
    Invalidation!StaleOnlyAfterARace, Invalidation!Doing
<1>4. ASSUME NEW c \in Requests, Invalidation!Stores(c)
      PROVE  \E d \in Requests : Invalidation!Doing(d, "write")' /\ cacheCalls'[d].path = p
  BY <1>4, <1>p DEF Invalidation!Stores, CacheTypes, CacheShapes, CacheCallsOK,
    Invalidation!StaleOnlyAfterARace, Invalidation!Doing
<1>5. ASSUME NEW c \in Requests, Invalidation!Invalidates(c)
      PROVE  \E d \in Requests : Invalidation!Doing(d, "write")' /\ cacheCalls'[d].path = p
  <2>1. p \notin Invalidation!Invalidated(cacheCalls[c].path) /\ cached[p] # None
        /\ cached[p] < written[p] /\ p \notin raced
    BY <1>5, <1>p, DropsOnly DEF Invalidation!Invalidates
  <2>2. cacheCalls[c].path # p
    BY <2>1, CoveredIsDropped
  <2> QED BY <1>5, <2>1, <2>2 DEF Invalidation!Invalidates, CacheTypes, CacheCallsOK,
    Invalidation!StaleOnlyAfterARace, Invalidation!Doing
<1>6. ASSUME NEW c \in Requests, Invalidation!TagsInvalidate(c)
      PROVE  \E d \in Requests : Invalidation!Doing(d, "write")' /\ cacheCalls'[d].path = p
  <2>1. cached[p] # None /\ cached[p] < written[p] /\ p \notin raced
    BY <1>6, <1>p, DropsOnly DEF Invalidation!TagsInvalidate
  <2> QED BY <1>6, <2>1 DEF Invalidation!TagsInvalidate, CacheTypes, CacheCallsOK,
    Invalidation!StaleOnlyAfterARace, Invalidation!Doing
<1>7. CASE UNCHANGED Invalidation!vars
  BY <1>7 DEF Invalidation!vars, Invalidation!StaleOnlyAfterARace, Invalidation!Doing
<1> QED BY <1>1, <1>2, <1>3, <1>4, <1>5, <1>6, <1>7 DEF Invalidation!Next

\* At the start nothing is written and nothing is cached.
LEMMA CacheStarts == ASSUME CacheNone PROVE Invalidation!Init => CacheInv
  BY DEF CacheNone, Invalidation!Init, CacheInv, CacheTypes, Invalidation!TypeOK,
    CacheShapes, CacheCallsOK, Invalidation!Held, Invalidation!Doing,
     Invalidation!StaleOnlyAfterARace, Invalidation!Covered

\* In lib/api/middleware/cache-invalidation-middleware.ts a path whose own key a
\* working rule deletes keeps a stale answer only while a write of it is on its way
\* to the invalidation, or when the answer was stored after a write had overtaken it,
\* whatever the other rules, throwing ones among them, and the tags are.
THEOREM StaleOnlyAfterARaceAlways ==
  ASSUME CacheNone
  PROVE  Invalidation!Spec => []Invalidation!StaleOnlyAfterARace
<1>1. Invalidation!Init => CacheInv
  BY CacheStarts
<1>2. CacheInv /\ [Invalidation!Next]_(Invalidation!vars) => CacheInv'
  BY TypesStep, StaleStep DEF CacheInv
<1>3. CacheInv => Invalidation!StaleOnlyAfterARace
  BY DEF CacheInv
<1> QED BY <1>1, <1>2, <1>3, PTL DEF Invalidation!Spec

\* The invalidation moves by its own steps.
LEMMA InvalidationMoves ==
  part = "invalidation" /\ [MCNext]_all => [Invalidation!Next]_(Invalidation!vars)
  BY DEF MCNext, MCPlatforms, all, rest1, Invalidation!vars

\* The same of the composition.
THEOREM StaleOnlyAfterARaceComposed ==
  ASSUME CacheNone
  PROVE  MCSpec => []StaleOnlyAfterARace
<1> DEFINE Inv == part = "invalidation" => CacheInv
<1>1. MCInit => Inv
  BY CacheStarts DEF MCInit, MCPlatforms
<1>2. Inv /\ [MCNext]_all => Inv'
  BY PartStays, InvalidationMoves, TypesStep, StaleStep DEF CacheInv
<1>3. Inv => StaleOnlyAfterARace
  BY DEF StaleOnlyAfterARace, CacheInv
<1> QED BY <1>1, <1>2, <1>3, PTL DEF MCSpec
-----------------------------------------------------------------------------
(* The limiters of authentication requests (lib/rate-limit-auth.ts and        *)
(* lib/rate-limit/index.ts).                                                  *)

\* The parameters are numbers, at least one request is allowed, and no entry is one.
LimiterNone ==
  /\ MaxAttempts \in Nat \ {0} /\ WindowMs \in Nat /\ MaxTime \in Nat
  /\ None \notin Int /\ None \notin [count : 1..MaxAttempts, reset : Int]

\* The times of a log, in order and none after t.
Ordered(log, t) ==
  /\ log \in Seq(Int)
  /\ \A i \in 1..Len(log) : log[i] <= t
  /\ \A i, j \in 1..Len(log) : i <= j => log[i] <= log[j]

\* No n + 1 requests of the log in a row lie within one window.
Spread(log, n) == \A i \in 1..Len(log) : i + n <= Len(log) => log[i + n] >= log[i] + WindowMs

\* The sliding log keeps the last of all the times it admitted, and all that the
\* next check needs.
SlidesAt(log, times, t) ==
  /\ Ordered(log, t) /\ Spread(log, MaxAttempts)
  /\ times \in Seq(Int) /\ Len(times) <= MaxAttempts /\ Len(times) <= Len(log)
  /\ \A i \in 1..Len(times) : times[i] = log[Len(log) - Len(times) + i]
  /\ \A i \in 1..(Len(log) - Len(times)) : log[i] <= t - WindowMs

Slides(c) == SlidesAt(slidingLog[c], kept[c], clock)

-----------------------------------------------------------------------------
\* The Cardinality of the component is that of the library.
LEMMA LimiterCardinality == \A S : Limiters!Cardinality(S) = Cardinality(S)
  BY DEF Limiters!Cardinality, Cardinality

\* Dropping what is at most until leaves a last piece of an ordered log.
LEMMA AfterDoes ==
  ASSUME NEW log \in Seq(Int), \A i, j \in 1..Len(log) : i <= j => log[i] <= log[j],
         NEW until \in Int
  PROVE  \E m \in 0..Len(log) :
           /\ Limiters!After(log, until) \in Seq(Int)
           /\ Len(Limiters!After(log, until)) = Len(log) - m
           /\ \A i \in 1..(Len(log) - m) : Limiters!After(log, until)[i] = log[m + i]
           /\ \A i \in 1..m : log[i] <= until
           /\ \A i \in (m + 1)..Len(log) : log[i] > until
<1> DEFINE old == {i \in DOMAIN log : log[i] <= until}
           m == Cardinality(old)
<1>1. old \in SUBSET (1..Len(log)) /\ Len(log) \in Nat
  OBVIOUS
<1>2. \A i \in old, j \in 1..Len(log) : j <= i => j \in old
  OBVIOUS
<1>3. m \in 0..Len(log) /\ old = 1..m
  BY <1>1, <1>2, FirstPiece
<1>4. Limiters!After(log, until) = SubSeq(log, m + 1, Len(log))
  BY LimiterCardinality DEF Limiters!After
<1> HIDE DEF m
<1>5. Limiters!After(log, until) = [i \in 1..(Len(log) - m) |-> log[i + m]]
  BY <1>3, <1>4
<1>6. \A i \in 1..m : log[i] <= until
  BY <1>3
<1>7. \A i \in (m + 1)..Len(log) : log[i] > until
  BY <1>3
<1>8. Limiters!After(log, until) \in Seq(Int) /\ Len(Limiters!After(log, until)) = Len(log) - m
  BY <1>3, <1>4
<1> QED BY <1>3, <1>5, <1>6, <1>7, <1>8

\* A log without n + 1 requests within one window in a row has at most n in any.
LEMMA AtMost ==
  ASSUME LimiterNone, NEW log, NEW last, Ordered(log, last), NEW n \in Nat, Spread(log, n),
         NEW t \in Int
  PROVE  /\ Limiters!Cardinality(Limiters!Within(log, t)) <= n
         /\ Limiters!Cardinality(Limiters!Within(log, t)) \in Nat
<1> DEFINE A == {i \in 1..Len(log) : log[i] <= t - WindowMs}
           B == {i \in 1..Len(log) : log[i] <= t}
           a == Cardinality(A)
           b == Cardinality(B)
<1> USE DEF LimiterNone, Ordered
<1>0. Len(log) \in Nat /\ DOMAIN log = 1..Len(log) /\ \A i \in 1..Len(log) : log[i] \in Int
  OBVIOUS
<1>1. a \in 0..Len(log) /\ A = 1..a
  <2>1. ASSUME NEW i \in A, NEW j \in 1..Len(log), j <= i
        PROVE  j \in A
    <3>1. i \in 1..Len(log) /\ log[i] <= t - WindowMs
      OBVIOUS
    <3>2. log[j] <= log[i] /\ log[i] \in Int /\ log[j] \in Int
      BY <1>0, <2>1, <3>1
    <3> QED BY <3>1, <3>2
  <2>2. A \in SUBSET (1..Len(log))
    OBVIOUS
  <2> HIDE DEF A
  <2> QED BY <1>0, <2>1, <2>2, FirstPiece
<1>2. b \in 0..Len(log) /\ B = 1..b
  <2>1. ASSUME NEW i \in B, NEW j \in 1..Len(log), j <= i
        PROVE  j \in B
    <3>1. i \in 1..Len(log) /\ log[i] <= t
      OBVIOUS
    <3>2. log[j] <= log[i] /\ log[i] \in Int /\ log[j] \in Int
      BY <1>0, <2>1, <3>1
    <3> QED BY <3>1, <3>2
  <2>2. B \in SUBSET (1..Len(log))
    OBVIOUS
  <2> HIDE DEF B
  <2> QED BY <1>0, <2>1, <2>2, FirstPiece
<1>3. Limiters!Within(log, t) = {i \in B : i \notin A}
  BY <1>0 DEF Limiters!Within
<1> HIDE DEF a, b, A, B
<1>4. Limiters!Within(log, t) = (a + 1)..b
  BY <1>1, <1>2, <1>3
<1>5. Cardinality((a + 1)..b) = IF a + 1 > b THEN 0 ELSE b - a
  BY <1>1, <1>2, FS_Interval
<1>6. b - a <= n
  <2> SUFFICES ASSUME b > a + n PROVE FALSE
    BY <1>0, <1>1, <1>2
  <2>1. (a + 1) \in B /\ (a + 1) \notin A /\ (a + 1 + n) \in B
    BY <1>1, <1>2, SMTT(30)
  <2>2. log[a + 1 + n] >= log[a + 1] + WindowMs
    BY <2>1, <1>0, <1>1 DEF Spread, B
  <2>3. log[a + 1] > t - WindowMs /\ log[a + 1 + n] <= t
    BY <2>1, <1>0 DEF A, B
  <2>4. (a + 1) \in 1..Len(log) /\ (a + 1 + n) \in 1..Len(log)
    BY <2>1 DEF B
  <2>5. log[a + 1] \in Int /\ log[a + 1 + n] \in Int
    BY <2>4, <1>0
  <2> QED BY <2>2, <2>3, <2>5
<1> QED BY <1>1, <1>2, <1>4, <1>5, <1>6, LimiterCardinality

Window == [count : 1..MaxAttempts, reset : Int]

\* Places of a log of fixed windows that opened one: each after the one before it was
\* over, at least one in any MaxAttempts requests in a row, and the last that of the
\* window the client has, if it has one.
Opened(log, window, places, t) ==
  /\ places \in SUBSET (1..Len(log))
  /\ \A o, p \in places : o < p => log[p] > log[o] + WindowMs
  /\ \A i \in 1..Len(log) : i + MaxAttempts <= Len(log) + 1 =>
       \E o \in places : i <= o /\ o < i + MaxAttempts
  /\ window # None => LET last == Len(log) - window.count + 1 IN
       /\ last \in places /\ \A o \in places : o <= last
       /\ window.reset = log[last] + WindowMs
  /\ window = None => \A o \in places : log[o] + WindowMs < t

FixesAt(log, window, t) ==
  /\ Ordered(log, t)
  /\ window \in Window \cup {None}
  /\ \E places : Opened(log, window, places, t)

Fixes(c) == FixesAt(fixedLog[c], windows[c], clock)

\* What a client was told: the window that refused it ends no later.
Told(c) ==
  refused[c] # None =>
    /\ refused[c] \in Int /\ refused[c] <= clock + WindowMs
    /\ windows[c] # None => windows[c].reset <= refused[c]

LimitersInv ==
  /\ clock \in 0..MaxTime
  /\ windows \in [Requests -> Window \cup {None}]
  /\ kept \in [Requests -> Seq(Int)]
  /\ refused \in [Requests -> Int \cup {None}]
  /\ fixedLog \in [Requests -> Seq(Int)] /\ slidingLog \in [Requests -> Seq(Int)]
  /\ \A c \in Requests : Slides(c) /\ Fixes(c) /\ Told(c)

\* Windows open further than WindowMs apart, so that of 2 * MaxAttempts requests in
\* a row two open one, and the first and the last are further apart.
LEMMA TwoWindows ==
  ASSUME LimiterNone, NEW log, NEW t, Ordered(log, t), NEW window, NEW places,
         Opened(log, window, places, t)
  PROVE  Spread(log, 2 * MaxAttempts - 1)
<1> SUFFICES ASSUME NEW i \in 1..Len(log), i + (2 * MaxAttempts - 1) <= Len(log)
             PROVE  log[i + (2 * MaxAttempts - 1)] >= log[i] + WindowMs
  BY DEF Spread
<1>0. /\ Len(log) \in Nat /\ \A j \in 1..Len(log) : log[j] \in Int
      /\ MaxAttempts \in Nat /\ MaxAttempts >= 1 /\ WindowMs \in Nat
  BY DEF LimiterNone, Ordered
<1>1. /\ \A o, p \in places : o < p => log[p] > log[o] + WindowMs
      /\ \A j \in 1..Len(log) : j + MaxAttempts <= Len(log) + 1 =>
           \E o \in places : j <= o /\ o < j + MaxAttempts
      /\ places \in SUBSET (1..Len(log))
  BY DEF Opened
<1> DEFINE end == i + (2 * MaxAttempts - 1)
<1>2. i \in 1..Len(log) /\ i \in Nat /\ i >= 1 /\ end \in Nat /\ end <= Len(log) /\ end = i + MaxAttempts + MaxAttempts - 1
      /\ i + MaxAttempts <= Len(log) + 1 /\ i + MaxAttempts \in 1..Len(log)
      /\ i + MaxAttempts + MaxAttempts <= Len(log) + 1
  BY <1>0
<1> HIDE DEF end
<1>3. PICK o \in places : i <= o /\ o < i + MaxAttempts
  BY <1>0, <1>1, <1>2
<1>4. PICK p \in places : i + MaxAttempts <= p /\ p < i + MaxAttempts + MaxAttempts
  BY <1>0, <1>1, <1>2
<1>5. o \in 1..Len(log) /\ p \in 1..Len(log) /\ o < p /\ i <= o /\ p <= end /\ end \in 1..Len(log)
  BY <1>0, <1>1, <1>2, <1>3, <1>4
<1>6. log[p] > log[o] + WindowMs
  BY <1>1, <1>5
<1>7. log[i] <= log[o] /\ log[p] <= log[end]
  BY <1>5 DEF Ordered
<1>8. log[i] \in Int /\ log[o] \in Int /\ log[p] \in Int /\ log[end] \in Int
  BY <1>0, <1>5
<1>9. log[end] >= log[i] + WindowMs
  BY <1>0, <1>6, <1>7, <1>8, SMTT(30)
<1> QED BY <1>9 DEF end

\* A request that is admitted comes last.
LEMMA AppendOrdered ==
  ASSUME NEW t \in Int, NEW log, Ordered(log, t)
  PROVE  /\ Ordered(Append(log, t), t)
         /\ Len(Append(log, t)) = Len(log) + 1
         /\ \A i \in 1..Len(log) : Append(log, t)[i] = log[i]
         /\ Append(log, t)[Len(log) + 1] = t
<1>1. log \in Seq(Int) /\ Append(log, t) \in Seq(Int)
  BY DEF Ordered
<1>2. /\ Len(Append(log, t)) = Len(log) + 1
      /\ \A i \in 1..Len(log) : Append(log, t)[i] = log[i]
      /\ Append(log, t)[Len(log) + 1] = t
      /\ Len(log) \in Nat
  BY <1>1
<1> QED BY <1>1, <1>2 DEF Ordered

\* Later, an ordered log is still one.
LEMMA LaterOrdered ==
  ASSUME NEW t \in Int, NEW u \in Int, t <= u, NEW log, Ordered(log, t)
  PROVE  Ordered(log, u)
<1>1. \A i \in 1..Len(log) : log[i] \in Int
  BY DEF Ordered
<1> QED BY <1>1 DEF Ordered

\* Later, what a sliding log has dropped is still no part of the last window.
LEMMA LaterSlides ==
  ASSUME LimiterNone, NEW t \in Int, NEW u \in Int, t <= u, NEW log, NEW times,
         SlidesAt(log, times, t)
  PROVE  SlidesAt(log, times, u)
<1>1. /\ Len(log) \in Nat /\ Len(times) \in Nat /\ Len(times) <= Len(log)
      /\ \A i \in 1..Len(log) : log[i] \in Int
  BY DEF SlidesAt, Ordered
<1>2. ASSUME NEW i \in 1..(Len(log) - Len(times)) PROVE log[i] <= u - WindowMs
  <2>1. log[i] <= t - WindowMs /\ log[i] \in Int
    BY <1>1 DEF SlidesAt
  <2> QED BY <2>1 DEF LimiterNone
<1> QED BY <1>2, LaterOrdered DEF SlidesAt

\* Later, the windows that were over are still over.
LEMMA LaterFixes ==
  ASSUME LimiterNone, NEW t \in Int, NEW u \in Int, t <= u, NEW log, NEW window,
         FixesAt(log, window, t)
  PROVE  FixesAt(log, window, u)
<1>1. PICK places : Opened(log, window, places, t)
  BY DEF FixesAt
<1>2. \A i \in 1..Len(log) : log[i] \in Int
  BY DEF FixesAt, Ordered
<1>3. ASSUME NEW o \in places, window = None PROVE log[o] + WindowMs < u
  <2>1. log[o] + WindowMs < t /\ log[o] \in Int
    BY <1>1, <1>2, <1>3 DEF Opened
  <2> QED BY <2>1 DEF LimiterNone
<1>4. Opened(log, window, places, u)
  BY <1>1, <1>3 DEF Opened
<1> QED BY <1>4, LaterOrdered DEF FixesAt

\* A check that admits adds its time to both logs of the sliding window.
LEMMA SlidingAdmits ==
  ASSUME LimiterNone, NEW t \in Int, NEW log, NEW times, SlidesAt(log, times, t),
         NEW valid \in Seq(Int), NEW m \in 0..Len(times), Len(valid) = Len(times) - m,
         \A i \in 1..(Len(times) - m) : valid[i] = times[m + i],
         \A i \in 1..m : times[i] <= t - WindowMs,
         Len(valid) < MaxAttempts
  PROVE  SlidesAt(Append(log, t), Append(valid, t), t)
<1> DEFINE n == Len(log)
           k == Len(times)
           M == MaxAttempts
           log2 == Append(log, t)
           new == Append(valid, t)
<1>1. /\ n \in Nat /\ k \in Nat /\ k <= n /\ m \in 0..k /\ M \in Nat /\ M >= 1 /\ k - m < M
      /\ WindowMs \in Nat /\ \A i \in 1..n : log[i] \in Int
  BY DEF SlidesAt, Ordered, LimiterNone
<1>2. /\ \A i \in 1..k : times[i] = log[n - k + i]
      /\ \A i \in 1..(n - k) : log[i] <= t - WindowMs
  BY DEF SlidesAt
<1>3. /\ Ordered(log2, t) /\ Len(log2) = n + 1 /\ log2[n + 1] = t
      /\ \A i \in 1..n : log2[i] = log[i]
  BY AppendOrdered DEF SlidesAt
<1>4. /\ new \in Seq(Int) /\ Len(new) = k - m + 1 /\ new[k - m + 1] = t
      /\ \A i \in 1..(k - m) : new[i] = times[m + i]
  <2>1. Len(valid) \in Nat
    OBVIOUS
  <2> QED BY <1>1, <2>1
<1>5. Spread(log, M)
  BY DEF SlidesAt
<1>6. \A i \in 1..m : times[i] <= t - WindowMs
  OBVIOUS
<1> HIDE DEF n, k, M, log2, new
<1>7. \A i \in 1..(n - k + m) : log[i] <= t - WindowMs
  <2> SUFFICES ASSUME NEW i \in 1..(n - k + m) PROVE log[i] <= t - WindowMs
    OBVIOUS
  <2>1. i \in Nat /\ i >= 1
    BY <1>1
  <2>2. CASE i <= n - k
    BY <1>1, <1>2, <2>1, <2>2
  <2>3. CASE i > n - k
    <3> DEFINE j == i - (n - k)
    <3>1. j \in 1..m /\ j \in 1..k /\ n - k + j = i
      BY <1>1, <2>1, <2>3
    <3> HIDE DEF j
    <3>2. times[j] <= t - WindowMs /\ times[j] = log[n - k + j]
      BY <1>2, <1>6, <3>1
    <3> QED BY <3>1, <3>2
  <2> QED BY <1>1, <2>1, <2>2, <2>3
<1>8. \A i \in 1..(k - m + 1) : new[i] = log2[n - k + m + i]
  <2> SUFFICES ASSUME NEW i \in 1..(k - m + 1) PROVE new[i] = log2[n - k + m + i]
    OBVIOUS
  <2>1. i \in Nat /\ i >= 1 /\ i <= k - m + 1
    BY <1>1
  <2>2. CASE i = k - m + 1
    <3>1. n - k + m + i = n + 1
      BY <1>1, <2>2
    <3> QED BY <1>3, <1>4, <2>2, <3>1
  <2>3. CASE i # k - m + 1
    <3>1. i \in 1..(k - m) /\ m + i \in 1..k /\ n - k + m + i \in 1..n /\ n - k + (m + i) = n - k + m + i
      BY <1>1, <2>1, <2>3
    <3>2. new[i] = times[m + i] /\ times[m + i] = log[n - k + (m + i)]
      BY <1>2, <1>4, <3>1
    <3> QED BY <1>3, <3>1, <3>2
  <2> QED BY <2>2, <2>3
<1>9. Spread(log2, M)
  <2> SUFFICES ASSUME NEW i \in 1..(n + 1), i + M <= n + 1
               PROVE  log2[i + M] >= log2[i] + WindowMs
    BY <1>3 DEF Spread
  <2>1. i \in 1..n /\ i \in Nat /\ i >= 1
    BY <1>1
  <2>2. log2[i] = log[i] /\ log[i] \in Int
    BY <1>1, <1>3, <2>1
  <2>3. CASE i + M <= n
    <3>1. i + M \in 1..n
      BY <1>1, <2>1, <2>3
    <3>2. log[i + M] >= log[i] + WindowMs
      BY <1>5, <2>1, <2>3 DEF Spread, n
    <3> QED BY <1>3, <2>2, <3>1, <3>2
  <2>4. CASE i + M > n
    <3>1. i + M = n + 1 /\ i \in 1..(n - k + m)
      BY <1>1, <2>1, <2>4
    <3>2. log2[i + M] = t /\ log[i] <= t - WindowMs
      BY <1>3, <1>7, <3>1
    <3> QED BY <1>1, <2>2, <3>2
  <2> QED BY <1>1, <2>1, <2>3, <2>4
<1>10. /\ Len(new) <= M /\ Len(new) <= Len(log2) /\ Len(log2) - Len(new) = n - k + m
  BY <1>1, <1>3, <1>4
<1>11. \A i \in 1..(n - k + m) : log2[i] <= t - WindowMs
  <2>1. \A i \in 1..(n - k + m) : i \in 1..n
    BY <1>1
  <2> QED BY <1>3, <1>7, <2>1
<1>12. SlidesAt(log2, new, t)
  BY <1>3, <1>4, <1>8, <1>9, <1>10, <1>11 DEF SlidesAt, M
<1> QED BY <1>12 DEF log2, new

\* The window that a client has ends a WindowMs after a request of it.
LEMMA WindowEnds ==
  ASSUME LimiterNone, NEW t \in Int, NEW log, NEW window, FixesAt(log, window, t), window # None
  PROVE  window.reset \in Int /\ window.reset <= t + WindowMs /\ window.count \in 1..MaxAttempts
<1>1. PICK places : Opened(log, window, places, t)
  BY DEF FixesAt
<1>2. window \in Window /\ \A i \in 1..Len(log) : log[i] \in Int /\ log[i] <= t
  BY DEF FixesAt, Ordered
<1>3. PICK last \in 1..Len(log) : window.reset = log[last] + WindowMs
  BY <1>1 DEF Opened
<1>4. window.reset \in Int /\ window.count \in 1..MaxAttempts
  BY <1>2 DEF Window
<1> QED BY <1>2, <1>3, <1>4 DEF LimiterNone

\* A window that is over is forgotten: so are, by then, all before it.
LEMMA Forgets ==
  ASSUME LimiterNone, NEW t \in Int, NEW log, NEW window, FixesAt(log, window, t), window # None,
         t > window.reset
  PROVE  FixesAt(log, None, t)
<1>1. PICK places : Opened(log, window, places, t)
  BY DEF FixesAt
<1>2. /\ \A i \in 1..Len(log) : log[i] \in Int
      /\ \A i, j \in 1..Len(log) : i <= j => log[i] <= log[j]
  BY DEF FixesAt, Ordered
<1> DEFINE last == Len(log) - window.count + 1
<1>3. last \in places /\ (\A o \in places : o <= last) /\ window.reset = log[last] + WindowMs
      /\ places \in SUBSET (1..Len(log))
  BY <1>1 DEF Opened
<1> HIDE DEF last
<1>4. ASSUME NEW o \in places PROVE log[o] + WindowMs < t
  <2>1. log[o] <= log[last] /\ log[o] \in Int /\ log[last] \in Int
    BY <1>2, <1>3
  <2>2. log[last] + WindowMs < t
    BY <1>3
  <2> QED BY <2>1, <2>2 DEF LimiterNone
<1>5. Opened(log, None, places, t)
  BY <1>1, <1>4 DEF Opened
<1> QED BY <1>5 DEF FixesAt

\* Without a window the next request opens one.
LEMMA Opens ==
  ASSUME LimiterNone, NEW t \in Int, NEW log, FixesAt(log, None, t)
  PROVE  FixesAt(Append(log, t), [count |-> 1, reset |-> t + WindowMs], t)
<1> DEFINE n == Len(log)
           M == MaxAttempts
           log2 == Append(log, t)
           window == [count |-> 1, reset |-> t + WindowMs]
<1>1. PICK places : Opened(log, None, places, t)
  BY DEF FixesAt
<1>2. /\ n \in Nat /\ M \in Nat /\ M >= 1 /\ WindowMs \in Nat
  BY DEF FixesAt, Ordered, LimiterNone
<1>3. /\ Ordered(log2, t) /\ Len(log2) = n + 1 /\ log2[n + 1] = t
      /\ \A i \in 1..n : log2[i] = log[i]
  <2>1. Ordered(log, t)
    BY DEF FixesAt
  <2> QED BY <2>1, AppendOrdered
<1>4. /\ places \in SUBSET (1..n)
      /\ \A o, p \in places : o < p => log[p] > log[o] + WindowMs
      /\ \A i \in 1..n : i + M <= n + 1 => \E o \in places : i <= o /\ o < i + M
      /\ \A o \in places : log[o] + WindowMs < t
  BY <1>1 DEF Opened
<1>5. window # None /\ window \in Window /\ window.count = 1 /\ window.reset = t + WindowMs
  BY <1>2 DEF Window, LimiterNone
<1> DEFINE new == places \cup {n + 1}
<1> HIDE DEF n, M, log2, window
<1>6. new \in SUBSET (1..(n + 1)) /\ \A o \in places : o < n + 1
  BY <1>2, <1>4
<1>7. ASSUME NEW o \in new, NEW p \in new, o < p PROVE log2[p] > log2[o] + WindowMs
  <2>1. o \in places /\ o \in 1..n /\ log2[o] = log[o]
    BY <1>2, <1>3, <1>4, <1>6, <1>7
  <2>2. CASE p \in places
    BY <1>3, <1>4, <1>7, <2>1, <2>2
  <2>3. CASE p = n + 1
    BY <1>3, <1>4, <2>1, <2>3
  <2> QED BY <2>2, <2>3
<1>8. ASSUME NEW i \in 1..(n + 1), i + M <= n + 1 + 1 PROVE \E o \in new : i <= o /\ o < i + M
  <2>1. CASE i + M <= n + 1
    <3>1. i \in 1..n
      BY <1>2, <2>1
    <3> QED BY <1>4, <2>1, <3>1
  <2>2. CASE i + M = n + 2
    <3>1. i <= n + 1 /\ n + 1 < i + M
      BY <1>2, <2>2
    <3> QED BY <3>1
  <2> QED BY <1>2, <1>8, <2>1, <2>2
<1>9. (n + 1) - window.count + 1 = n + 1
  BY <1>2, <1>5
<1>10. \A o \in new : o <= n + 1
  BY <1>2, <1>6
<1>11. Opened(log2, window, new, t)
  BY <1>3, <1>5, <1>6, <1>7, <1>8, <1>9, <1>10 DEF Opened, M
<1>12. FixesAt(log2, window, t)
  BY <1>3, <1>5, <1>11 DEF FixesAt
<1> QED BY <1>12 DEF log2, window

\* In a window with room the next request is counted.
LEMMA Counts ==
  ASSUME LimiterNone, NEW t \in Int, NEW log, NEW window, FixesAt(log, window, t), window # None,
         window.count < MaxAttempts
  PROVE  FixesAt(Append(log, t), [window EXCEPT !.count = @ + 1], t)
<1> DEFINE n == Len(log)
           M == MaxAttempts
           k == window.count
           log2 == Append(log, t)
           new == [window EXCEPT !.count = @ + 1]
<1>1. PICK places : Opened(log, window, places, t)
  BY DEF FixesAt
<1>2. /\ n \in Nat /\ M \in Nat /\ M >= 1 /\ WindowMs \in Nat /\ window \in Window
  BY DEF FixesAt, Ordered, LimiterNone
<1>3. /\ Ordered(log2, t) /\ Len(log2) = n + 1 /\ log2[n + 1] = t
      /\ \A i \in 1..n : log2[i] = log[i]
  <2>1. Ordered(log, t)
    BY DEF FixesAt
  <2> QED BY <2>1, AppendOrdered
<1>4. /\ places \in SUBSET (1..n)
      /\ \A o, p \in places : o < p => log[p] > log[o] + WindowMs
      /\ \A i \in 1..n : i + M <= n + 1 => \E o \in places : i <= o /\ o < i + M
      /\ n - k + 1 \in places /\ \A o \in places : o <= n - k + 1
      /\ window.reset = log[n - k + 1] + WindowMs
  BY <1>1 DEF Opened
<1>5. k \in 1..M /\ k < M
  BY <1>2 DEF Window
<1>6. new \in Window /\ new.count = k + 1 /\ new.reset = window.reset
  BY <1>2, <1>5 DEF Window
<1>7. new # None
  BY <1>6 DEF Window, LimiterNone
<1> HIDE DEF n, M, k, log2, new
<1>8. \A o \in places : o \in 1..n /\ o \in 1..(n + 1) /\ log2[o] = log[o]
  BY <1>2, <1>3, <1>4
<1>9. ASSUME NEW i \in 1..(n + 1), i + M <= n + 1 + 1 PROVE \E o \in places : i <= o /\ o < i + M
  <2>1. CASE i + M <= n + 1
    <3>1. i \in 1..n
      BY <1>2, <2>1
    <3> QED BY <1>4, <2>1, <3>1
  <2>2. CASE i + M = n + 2
    <3>1. i <= n - k + 1 /\ n - k + 1 < i + M
      BY <1>2, <1>5, <2>2
    <3> QED BY <1>4, <3>1
  <2> QED BY <1>2, <1>9, <2>1, <2>2
<1>10. (n + 1) - new.count + 1 = n - k + 1
  BY <1>2, <1>5, <1>6
<1>11. Opened(log2, new, places, t)
  BY <1>3, <1>4, <1>6, <1>7, <1>8, <1>9, <1>10 DEF Opened, M
<1>12. FixesAt(log2, new, t)
  BY <1>3, <1>6, <1>11 DEF FixesAt
<1> QED BY <1>12 DEF log2, new

\* A sweep of the expired windows forgets what is over.
LEMMA Sweeps ==
  ASSUME LimiterNone, LimitersInv, NEW d \in Requests
  PROVE  /\ FixesAt(fixedLog[d], Limiters!Cleaned[d], clock)
         /\ Limiters!Cleaned[d] # None => Limiters!Cleaned[d] = windows[d]
<1>1. clock \in Int /\ FixesAt(fixedLog[d], windows[d], clock)
  BY DEF LimitersInv, Fixes
<1>2. CASE windows[d] # None /\ clock > windows[d].reset
  <2>1. Limiters!Cleaned[d] = None
    BY <1>2 DEF Limiters!Cleaned
  <2>2. FixesAt(fixedLog[d], None, clock)
    BY <1>1, <1>2, Forgets
  <2> QED BY <2>1, <2>2
<1>3. CASE ~(windows[d] # None /\ clock > windows[d].reset)
  <2>1. Limiters!Cleaned[d] = windows[d]
    BY <1>3 DEF Limiters!Cleaned
  <2> QED BY <1>1, <2>1
<1> QED BY <1>2, <1>3

\* What a check by the fixed windows does to the client that it checks.
LEMMA FixedChecks ==
  ASSUME LimiterNone, LimitersInv, NEW c \in Requests, Limiters!Fixed(c)
  PROVE  FixesAt(fixedLog'[c], windows'[c], clock) /\ refused'[c] \in Int \cup {None} /\ Told(c)'
<1> DEFINE swept == Limiters!Cleaned[c]
           admits == swept = None \/ swept.count < MaxAttempts
<1>1. /\ clock \in Int /\ clock' = clock
      /\ FixesAt(fixedLog[c], windows[c], clock)
      /\ FixesAt(fixedLog[c], swept, clock)
      /\ swept # None => swept = windows[c]
  BY Sweeps DEF LimitersInv, Fixes, Limiters!Fixed
<1>2. /\ windows'[c] = IF swept = None THEN [count |-> 1, reset |-> clock + WindowMs]
                       ELSE IF admits THEN [swept EXCEPT !.count = @ + 1] ELSE swept
      /\ fixedLog'[c] = IF admits THEN Append(fixedLog[c], clock) ELSE fixedLog[c]
      /\ refused'[c] = IF admits THEN None ELSE windows[c].reset
  <2> DEFINE next == IF swept = None THEN [count |-> 1, reset |-> clock + WindowMs]
                     ELSE IF admits THEN [swept EXCEPT !.count = @ + 1] ELSE swept
  <2>1. windows' = IF swept = None
                   THEN [Limiters!Cleaned EXCEPT ![c] = [count |-> 1, reset |-> clock + WindowMs]]
                   ELSE IF admits THEN [Limiters!Cleaned EXCEPT ![c].count = @ + 1]
                   ELSE Limiters!Cleaned
    BY DEF Limiters!Fixed, Limiters!NewWindow
  <2>2. /\ fixedLog' = IF admits THEN [fixedLog EXCEPT ![c] = Append(@, clock)] ELSE fixedLog
        /\ refused' = [refused EXCEPT ![c] = IF admits THEN None ELSE windows[c].reset]
    BY DEF Limiters!Fixed
  <2>3. c \in DOMAIN Limiters!Cleaned /\ c \in DOMAIN fixedLog /\ c \in DOMAIN refused
    BY DEF Limiters!Cleaned, LimitersInv
  <2> HIDE DEF admits
  <2>4. windows'[c] = next
    BY <2>1, <2>3
  <2> HIDE DEF next
  <2>5. fixedLog'[c] = IF admits THEN Append(fixedLog[c], clock) ELSE fixedLog[c]
    BY <2>2, <2>3
  <2>6. refused'[c] = IF admits THEN None ELSE windows[c].reset
    BY <2>2, <2>3
  <2> QED BY <2>4, <2>5, <2>6 DEF next
<1> HIDE DEF swept
<1>3. CASE swept = None
  <2>1. FixesAt(Append(fixedLog[c], clock), [count |-> 1, reset |-> clock + WindowMs], clock)
    BY <1>1, <1>3, Opens
  <2> QED BY <1>2, <1>3, <2>1 DEF Told
<1>4. CASE swept # None /\ swept.count < MaxAttempts
  <2>1. FixesAt(Append(fixedLog[c], clock), [swept EXCEPT !.count = @ + 1], clock)
    BY <1>1, <1>4, Counts
  <2> QED BY <1>2, <1>4, <2>1 DEF Told
<1>5. CASE swept # None /\ ~(swept.count < MaxAttempts)
  <2>1. windows[c].reset \in Int /\ windows[c].reset <= clock + WindowMs
    BY <1>1, <1>5, WindowEnds
  <2>2. windows'[c] = windows[c] /\ refused'[c] = windows[c].reset /\ fixedLog'[c] = fixedLog[c]
    BY <1>1, <1>2, <1>5
  <2> QED BY <1>1, <2>1, <2>2 DEF Told
<1> QED BY <1>3, <1>4, <1>5

\* A check by the fixed windows keeps the invariant.
LEMMA FixedKeeps ==
  ASSUME LimiterNone, LimitersInv, NEW c \in Requests, Limiters!Fixed(c)
  PROVE  LimitersInv'
<1>1. /\ UNCHANGED <<clock, kept, slidingLog>>
      /\ \A d \in Requests : d # c =>
           /\ windows'[d] = Limiters!Cleaned[d]
           /\ fixedLog'[d] = fixedLog[d] /\ refused'[d] = refused[d]
  BY DEF Limiters!Fixed, Limiters!Cleaned, LimitersInv
<1>2. /\ DOMAIN windows' = Requests /\ windows' = [d \in Requests |-> windows'[d]]
      /\ fixedLog' = [d \in Requests |-> fixedLog'[d]]
      /\ refused' = [d \in Requests |-> refused'[d]]
  BY DEF Limiters!Fixed, Limiters!Cleaned, LimitersInv
<1>3. ASSUME NEW d \in Requests
      PROVE  /\ FixesAt(fixedLog'[d], windows'[d], clock) /\ Told(d)'
             /\ refused'[d] \in Int \cup {None}
  <2>1. CASE d = c
    BY <2>1, FixedChecks
  <2>2. CASE d # c
    <3>1. FixesAt(fixedLog'[d], windows'[d], clock) /\ (windows'[d] # None => windows'[d] = windows[d])
      BY <1>1, <2>2, Sweeps
    <3>2. refused'[d] = refused[d] /\ clock' = clock /\ Told(d) /\ refused[d] \in Int \cup {None}
      BY <1>1, <2>2 DEF LimitersInv
    <3> QED BY <3>1, <3>2 DEF Told
  <2> QED BY <2>1, <2>2
<1>4. \A d \in Requests : windows'[d] \in Window \cup {None} /\ fixedLog'[d] \in Seq(Int)
  BY <1>3 DEF FixesAt, Ordered
<1>5. /\ windows' \in [Requests -> Window \cup {None}] /\ fixedLog' \in [Requests -> Seq(Int)]
      /\ refused' \in [Requests -> Int \cup {None}]
  BY <1>2, <1>3, <1>4
<1>6. \A d \in Requests : Slides(d)'
  BY <1>1 DEF LimitersInv, Slides
<1>7. \A d \in Requests : Fixes(d)'
  BY <1>1, <1>3 DEF Fixes
<1> QED BY <1>1, <1>3, <1>5, <1>6, <1>7 DEF LimitersInv

\* A check by the sliding log keeps the invariant.
LEMMA SlidingKeeps ==
  ASSUME LimiterNone, LimitersInv, NEW c \in Requests, Limiters!Sliding(c)
  PROVE  LimitersInv'
<1> DEFINE valid == Limiters!Valid(c)
<1>1. UNCHANGED <<clock, windows, refused, fixedLog>>
  BY DEF Limiters!Sliding
<1>2. \A d \in Requests : Fixes(d)' /\ Told(d)'
  BY <1>1 DEF LimitersInv, Fixes, Told
<1>3. CASE Len(valid) >= MaxAttempts
  <2>1. UNCHANGED <<kept, slidingLog>>
    BY <1>3 DEF Limiters!Sliding
  <2>2. \A d \in Requests : Slides(d)'
    BY <1>1, <2>1 DEF LimitersInv, Slides
  <2> QED BY <1>1, <1>2, <2>1, <2>2 DEF LimitersInv
<1>4. CASE ~(Len(valid) >= MaxAttempts)
  <2>1. /\ kept' = [kept EXCEPT ![c] = Append(valid, clock)]
        /\ slidingLog' = [slidingLog EXCEPT ![c] = Append(@, clock)]
    BY <1>4 DEF Limiters!Sliding
  <2>2. /\ clock \in Int /\ clock - WindowMs \in Int /\ kept[c] \in Seq(Int)
        /\ SlidesAt(slidingLog[c], kept[c], clock)
    BY DEF LimitersInv, Slides, LimiterNone
  <2>3. \A i, j \in 1..Len(kept[c]) : i <= j => kept[c][i] <= kept[c][j]
    <3> DEFINE log == slidingLog[c]
               times == kept[c]
               gap == Len(log) - Len(times)
    <3>1. /\ log \in Seq(Int) /\ times \in Seq(Int) /\ Len(times) <= Len(log)
          /\ \A i \in 1..Len(times) : times[i] = log[gap + i]
          /\ \A i, j \in 1..Len(log) : i <= j => log[i] <= log[j]
      BY <2>2 DEF SlidesAt, Ordered
    <3> DEFINE n == Len(log)
               k == Len(times)
    <3>4. n \in Nat /\ k \in Nat /\ k <= n /\ gap = n - k
      BY <3>1
    <3> HIDE DEF n, k
    <3>2. gap \in Nat /\ \A i \in 1..k : gap + i \in 1..n
      BY <3>4
    <3> USE DEF n, k
    <3> HIDE DEF log, times, gap
    <3>3. \A i, j \in 1..Len(times) : i <= j => times[i] <= times[j]
      <4> SUFFICES ASSUME NEW i \in 1..Len(times), NEW j \in 1..Len(times), i <= j
                   PROVE  times[i] <= times[j]
        OBVIOUS
      <4>1. gap + i <= gap + j
        BY <3>2
      <4> QED BY <3>1, <3>2, <4>1
    <3> QED BY <3>3 DEF times
  <2>4. PICK m \in 0..Len(kept[c]) :
          /\ valid \in Seq(Int) /\ Len(valid) = Len(kept[c]) - m
          /\ \A i \in 1..(Len(kept[c]) - m) : valid[i] = kept[c][m + i]
          /\ \A i \in 1..m : kept[c][i] <= clock - WindowMs
    BY <2>2, <2>3, AfterDoes DEF Limiters!Valid
  <2>5. Len(valid) < MaxAttempts
    <3>1. Len(valid) \in Nat
      BY <2>4
    <3> QED BY <1>4, <3>1 DEF LimiterNone
  <2> HIDE DEF valid
  <2>6. SlidesAt(Append(slidingLog[c], clock), Append(valid, clock), clock)
    BY <2>2, <2>4, <2>5, SlidingAdmits
  <2>7. Append(slidingLog[c], clock) \in Seq(Int) /\ Append(valid, clock) \in Seq(Int)
    BY <2>2, <2>4 DEF LimitersInv
  <2>8. kept' \in [Requests -> Seq(Int)] /\ slidingLog' \in [Requests -> Seq(Int)]
    BY <2>1, <2>7 DEF LimitersInv
  <2>9. ASSUME NEW d \in Requests PROVE Slides(d)'
    <3>1. CASE d = c
      <4>1. slidingLog'[d] = Append(slidingLog[c], clock) /\ kept'[d] = Append(valid, clock)
        BY <2>1, <3>1 DEF LimitersInv
      <4> QED BY <1>1, <2>6, <4>1 DEF Slides
    <3>2. CASE d # c
      <4>1. slidingLog'[d] = slidingLog[d] /\ kept'[d] = kept[d] /\ Slides(d)
        BY <2>1, <3>2 DEF LimitersInv
      <4> QED BY <1>1, <4>1 DEF Slides
    <3> QED BY <3>1, <3>2
  <2> QED BY <1>1, <1>2, <2>8, <2>9 DEF LimitersInv
<1> QED BY <1>3, <1>4

\* So does the passing of time.
LEMMA TickKeeps ==
  ASSUME LimiterNone, LimitersInv, Limiters!Tick
  PROVE  LimitersInv'
<1>1. /\ clock \in Int /\ clock' \in Int /\ clock <= clock' /\ clock' \in 0..MaxTime
      /\ WindowMs \in Nat
      /\ UNCHANGED <<windows, kept, refused, fixedLog, slidingLog>>
  BY DEF Limiters!Tick, LimitersInv, LimiterNone
<1>2. ASSUME NEW d \in Requests PROVE Slides(d)'
  <2>1. SlidesAt(slidingLog[d], kept[d], clock)
    BY DEF LimitersInv, Slides
  <2>2. SlidesAt(slidingLog[d], kept[d], clock')
    BY <1>1, <2>1, LaterSlides
  <2> QED BY <1>1, <2>2 DEF Slides
<1>3. ASSUME NEW d \in Requests PROVE Fixes(d)'
  <2>1. FixesAt(fixedLog[d], windows[d], clock)
    BY DEF LimitersInv, Fixes
  <2>2. FixesAt(fixedLog[d], windows[d], clock')
    BY <1>1, <2>1, LaterFixes
  <2> QED BY <1>1, <2>2 DEF Fixes
<1>4. ASSUME NEW d \in Requests PROVE Told(d)'
  BY <1>1 DEF LimitersInv, Told
<1> QED BY <1>1, <1>2, <1>3, <1>4 DEF LimitersInv

\* Every step of the limiters does.
LEMMA LimitersStep ==
  ASSUME LimiterNone, LimitersInv, [Limiters!Next]_(Limiters!vars)
  PROVE  LimitersInv'
<1>1. CASE UNCHANGED Limiters!vars
  BY <1>1 DEF Limiters!vars, LimitersInv, Slides, Fixes, Told
<1> QED BY <1>1, TickKeeps, FixedKeeps, SlidingKeeps DEF Limiters!Next

\* At the start no request was made.
LEMMA LimitersStart == ASSUME LimiterNone PROVE Limiters!Init => LimitersInv
<1> SUFFICES ASSUME Limiters!Init PROVE LimitersInv
  OBVIOUS
<1>1. /\ clock = 0 /\ windows = [c \in Requests |-> None] /\ kept = [c \in Requests |-> <<>>]
      /\ refused = [c \in Requests |-> None]
      /\ fixedLog = [c \in Requests |-> <<>>] /\ slidingLog = [c \in Requests |-> <<>>]
  BY DEF Limiters!Init
<1>2. Ordered(<<>>, 0) /\ \A n \in Nat : Spread(<<>>, n)
  BY DEF Ordered, Spread
<1>3. SlidesAt(<<>>, <<>>, 0)
  BY <1>2 DEF SlidesAt, LimiterNone
<1>4. Opened(<<>>, None, {}, 0)
  BY DEF Opened, LimiterNone
<1>5. FixesAt(<<>>, None, 0)
  BY <1>2, <1>4 DEF FixesAt
<1>6. \A c \in Requests : Slides(c) /\ Fixes(c) /\ Told(c)
  BY <1>1, <1>3, <1>5 DEF Slides, Fixes, Told
<1> QED BY <1>1, <1>6 DEF LimitersInv, LimiterNone

\* The invariant says what the limiters promise.
LEMMA LimitersPromise ==
  ASSUME LimiterNone, LimitersInv
  PROVE  Limiters!AdmittedPerWindow /\ Limiters!RefusedUntilReset
<1>1. ASSUME NEW c \in Requests, NEW t \in 0..clock
      PROVE  /\ Limiters!Cardinality(Limiters!Within(slidingLog[c], t)) <= MaxAttempts
             /\ Limiters!Cardinality(Limiters!Within(fixedLog[c], t)) < 2 * MaxAttempts
  <2>1. t \in Int /\ MaxAttempts \in Nat /\ 2 * MaxAttempts - 1 \in Nat
    BY DEF LimiterNone
  <2>2. Ordered(slidingLog[c], clock) /\ Spread(slidingLog[c], MaxAttempts)
    BY DEF LimitersInv, Slides, SlidesAt
  <2>3. PICK places : Opened(fixedLog[c], windows[c], places, clock)
    BY DEF LimitersInv, Fixes, FixesAt
  <2>4. Ordered(fixedLog[c], clock)
    BY DEF LimitersInv, Fixes, FixesAt
  <2>5. Spread(fixedLog[c], 2 * MaxAttempts - 1)
    BY <2>3, <2>4, TwoWindows
  <2>6. Limiters!Cardinality(Limiters!Within(slidingLog[c], t)) <= MaxAttempts
    BY <2>1, <2>2, AtMost
  <2> DEFINE n == 2 * MaxAttempts - 1
             held == Limiters!Cardinality(Limiters!Within(fixedLog[c], t))
  <2>7. n \in Nat /\ Spread(fixedLog[c], n)
    BY <2>1, <2>5
  <2> HIDE DEF n
  <2>8. held <= n /\ held \in Nat
    BY <2>1, <2>4, <2>7, AtMost
  <2> HIDE DEF held
  <2>9. held < 2 * MaxAttempts
    BY <2>1, <2>8 DEF n
  <2> QED BY <2>6, <2>9 DEF held
<1>2. ASSUME NEW c \in Requests, refused[c] # None
      PROVE  /\ refused[c] <= clock + WindowMs
             /\ clock > refused[c] => Limiters!Cleaned[c] = None
  <2>1. refused[c] \in Int /\ refused[c] <= clock + WindowMs /\ clock \in Int
        /\ (windows[c] # None => windows[c].reset <= refused[c])
    BY <1>2 DEF LimitersInv, Told
  <2>2. ASSUME clock > refused[c], windows[c] # None PROVE Limiters!Cleaned[c] = None
    <3>1. windows[c].reset \in Int
      BY <2>2, WindowEnds DEF LimitersInv, Fixes
    <3>2. clock > windows[c].reset
      BY <2>1, <2>2, <3>1
    <3> QED BY <2>2, <3>2 DEF Limiters!Cleaned
  <2>3. windows[c] = None => Limiters!Cleaned[c] = None
    BY DEF Limiters!Cleaned
  <2> QED BY <2>1, <2>2, <2>3
<1> QED BY <1>1, <1>2 DEF Limiters!AdmittedPerWindow, Limiters!RefusedUntilReset

\* In lib/rate-limit-auth.ts and lib/rate-limit/index.ts, for any number of clients:
\* the sliding log admits at most MaxAttempts requests of a client in any window,
\* wherever it starts, and the fixed windows fewer than twice as many; and a refusal
\* by the fixed windows ends at the time it names.
THEOREM AdmittedPerWindowAlways ==
  ASSUME LimiterNone
  PROVE  Limiters!Spec => [](Limiters!AdmittedPerWindow /\ Limiters!RefusedUntilReset)
<1>1. Limiters!Init => LimitersInv
  BY LimitersStart
<1>2. LimitersInv /\ [Limiters!Next]_(Limiters!vars) => LimitersInv'
  BY LimitersStep
<1>3. LimitersInv => Limiters!AdmittedPerWindow /\ Limiters!RefusedUntilReset
  BY LimitersPromise
<1> QED BY <1>1, <1>2, <1>3, PTL DEF Limiters!Spec

\* The limiters move by their own steps.
LEMMA LimitersMove ==
  part \in {"fixed windows", "sliding log"} /\ [MCNext]_all => [Limiters!Next]_(Limiters!vars)
  BY DEF MCNext, MCPlatforms, all, rest1, Limiters!vars

\* The same of the composition.
THEOREM AdmittedPerWindowComposed ==
  ASSUME LimiterNone
  PROVE  MCSpec => []AdmittedPerWindow
<1> DEFINE Inv == part \in {"fixed windows", "sliding log"} => LimitersInv
<1>1. MCInit => Inv
  BY LimitersStart DEF MCInit, MCPlatforms
<1>2. Inv /\ [MCNext]_all => Inv'
  BY PartStays, LimitersMove, LimitersStep
<1>3. Inv => AdmittedPerWindow
  BY LimitersPromise DEF AdmittedPerWindow
<1> QED BY <1>1, <1>2, <1>3, PTL DEF MCSpec

-----------------------------------------------------------------------------
(* The Redis cache (lib/cache/redis-cache.ts, lib/cache/redis-client.ts).      *)

RedisEntry == [expiresAt : Nat, dropAt : Nat]
RedisOps == {"set", "get", "getMultiple", "delete"}
RedisSteps == {"connect", "runs", "reply"}

\* A call, whatever its keys and the reply it has got.
IsRedisCall(q) ==
  \E op \in RedisOps, ttl \in Nat, end \in Nat, step \in RedisSteps : \E ks, reply :
    q = [op |-> op, keys |-> ks, ttl |-> ttl, expiresAt |-> end, reply |-> reply, step |-> step]

\* null is neither an entry nor a call, and times are numbers.
RedisNone ==
  /\ None \notin RedisEntry /\ \A q : IsRedisCall(q) => q # None
  /\ Ttls \in SUBSET Nat /\ Second \in Nat \ {0}

\* The expiry a call carries is at most its time to live away.
RedisCallOK(q) == IsRedisCall(q) /\ q.expiresAt <= time + q.ttl

\* Keys that are there are not dropped before their entries expire.
StoreOK(s) ==
  /\ s \in [RedisKeys -> RedisEntry \cup {None}]
  /\ \A k \in RedisKeys : s[k] # None => s[k].dropAt >= s[k].expiresAt

RedisCallsOK(cs) ==
  /\ cs = [c \in Requests |-> cs[c]]
  /\ \A c \in Requests : cs[c] # None => RedisCallOK(cs[c])

RedisInv ==
  /\ time \in Nat /\ StoreOK(store) /\ RedisCallsOK(redisCalls)
  /\ Redis!ConnectingMeansConnecting

\* Whole seconds are rounded up.
LEMMA RoundedUp ==
  ASSUME NEW ttl \in Nat, NEW second \in Nat \ {0}
  PROVE  /\ (ttl + second - 1) \div second \in Nat
         /\ ((ttl + second - 1) \div second) * second >= ttl
<1> DEFINE n == ttl + second - 1
           whole == n \div second
           rest == n % second
<1>1. n \in Nat /\ second \in Nat /\ second > 0
  OBVIOUS
<1>2. whole \in Int /\ rest \in 0..(second - 1) /\ n = second * whole + rest
  BY <1>1
<1>3. whole * second = n - rest
  BY <1>2
<1>4. whole >= 0
  BY <1>1
<1> QED BY <1>1, <1>2, <1>3, <1>4

\* Nothing that is written is dropped before it expires.
LEMMA WrittenLasts ==
  ASSUME RedisNone, time \in Nat, NEW ttl \in Nat, NEW end \in Nat, end <= time + ttl
  PROVE  /\ Redis!Written(ttl, end) \in RedisEntry
         /\ Redis!Written(ttl, end) # None
         /\ Redis!Written(ttl, end).dropAt >= Redis!Written(ttl, end).expiresAt
<1> DEFINE n == Redis!Seconds(ttl) * Second
<1>1. n \in Nat /\ n >= ttl
  BY RoundedUp DEF RedisNone, Redis!Seconds
<1>2. Redis!Written(ttl, end) = [expiresAt |-> end, dropAt |-> time + n]
  BY DEF Redis!Written
<1> HIDE DEF n
<1>3. time + n \in Nat /\ time + n >= end
  BY <1>1
<1>4. Redis!Written(ttl, end) \in RedisEntry
  BY <1>2, <1>3 DEF RedisEntry
<1> QED BY <1>2, <1>3, <1>4 DEF RedisNone

\* A call that is sent carries an expiry as far away as its time to live.
LEMMA SentIsOK ==
  ASSUME RedisNone, time \in Nat, NEW q, RedisCallOK(q)
  PROVE  RedisCallOK(Redis!Sent(q)) /\ Redis!Sent(q) # None
<1> PICK op \in RedisOps, ttl \in Nat, end \in Nat, step \in RedisSteps : \E ks, reply :
      q = [op |-> op, keys |-> ks, ttl |-> ttl, expiresAt |-> end, reply |-> reply, step |-> step]
  BY DEF RedisCallOK, IsRedisCall
<1> PICK ks, reply :
      q = [op |-> op, keys |-> ks, ttl |-> ttl, expiresAt |-> end, reply |-> reply, step |-> step]
  OBVIOUS
<1> DEFINE message == Redis!Sent(q)
           last == IF op = "set" THEN time + ttl ELSE end
<1>1. message = [op |-> op, keys |-> ks, ttl |-> ttl, expiresAt |-> last, reply |-> reply,
              step |-> "runs"]
  BY DEF Redis!Sent
<1>2. last \in Nat /\ last <= time + ttl
  BY DEF RedisCallOK
<1> HIDE DEF last, message
<1>3. IsRedisCall(message)
  BY <1>1, <1>2 DEF IsRedisCall, RedisSteps
<1>4. message.expiresAt = last /\ message.ttl = ttl
  BY <1>1
<1> QED BY <1>2, <1>3, <1>4 DEF RedisCallOK, RedisNone, message

\* So does one that waits, and one that goes back to a step.
LEMMA AtStepIsOK ==
  ASSUME RedisNone, time \in Nat, NEW q, RedisCallOK(q), NEW step \in RedisSteps
  PROVE  LET there == [q EXCEPT !.step = step] IN RedisCallOK(there) /\ there # None
<1> PICK op \in RedisOps, ttl \in Nat, end \in Nat, old \in RedisSteps : \E ks, reply :
      q = [op |-> op, keys |-> ks, ttl |-> ttl, expiresAt |-> end, reply |-> reply, step |-> old]
  BY DEF RedisCallOK, IsRedisCall
<1> PICK ks, reply :
      q = [op |-> op, keys |-> ks, ttl |-> ttl, expiresAt |-> end, reply |-> reply, step |-> old]
  OBVIOUS
<1> DEFINE there == [q EXCEPT !.step = step]
<1>1. there = [op |-> op, keys |-> ks, ttl |-> ttl, expiresAt |-> end, reply |-> reply, step |-> step]
  OBVIOUS
<1> HIDE DEF there
<1>2. IsRedisCall(there)
  BY <1>1 DEF IsRedisCall
<1>3. there.expiresAt = end /\ there.ttl = ttl
  BY <1>1
<1>4. RedisCallOK(there) /\ there # None
  BY <1>2, <1>3 DEF RedisCallOK, RedisNone
<1> QED BY <1>4 DEF there

\* Every operation begins with a call that carries no expiry yet.
LEMMA BeginsKeeps ==
  ASSUME RedisNone, RedisInv, NEW c \in Requests, NEW op \in RedisOps, NEW ks,
         NEW ttl \in Nat, Redis!Begins(c, Redis!Call(op, ks, ttl))
  PROVE  RedisInv'
<1> DEFINE q == Redis!Call(op, ks, ttl)
           waits == [q EXCEPT !.step = "connect"]
<1>1. q = [op |-> op, keys |-> ks, ttl |-> ttl, expiresAt |-> 0, reply |-> None, step |-> "runs"]
  BY DEF Redis!Call
<1> HIDE DEF q
<1>2. IsRedisCall(q) /\ q.expiresAt = 0 /\ q.ttl = ttl
  BY <1>1, 0 \in Nat, "runs" \in RedisSteps DEF IsRedisCall, RedisSteps
<1>3. RedisCallOK(q)
  BY <1>2 DEF RedisCallOK, RedisInv
<1>4. RedisCallOK(Redis!Sent(q))
  BY <1>3, SentIsOK DEF RedisInv
<1>5. RedisCallOK(waits)
  BY <1>3, AtStepIsOK DEF RedisInv, RedisSteps
<1>6. PICK new : RedisCallOK(new) /\ redisCalls' = [redisCalls EXCEPT ![c] = new]
  BY <1>4, <1>5 DEF Redis!Begins, q
<1>7. time' = time /\ store' = store
  BY DEF Redis!Begins
<1>8. Redis!ConnectingMeansConnecting'
  BY DEF Redis!Begins, RedisInv, Redis!ConnectingMeansConnecting
<1>9. RedisCallsOK(redisCalls')
  BY <1>6 DEF RedisInv, RedisCallsOK
<1>10. RedisCallsOK(redisCalls)'
  BY <1>9, <1>7 DEF RedisCallsOK, RedisCallOK
<1> QED BY <1>7, <1>8, <1>10 DEF RedisInv, StoreOK

\* What becomes of the connection: nobody takes an ended attempt for one under way.
LEMMA ConnectionKeeps ==
  ASSUME RedisNone, RedisInv,
         \/ Redis!Ready \/ Redis!ConnectFails \/ Redis!Reconnects \/ Redis!Disconnect
         \/ \E cs \in SUBSET Redis!At("reply") : Redis!Lost(cs)
  PROVE  RedisInv'
<1>1. time' = time /\ store' = store /\ Redis!ConnectingMeansConnecting'
  BY DEF RedisInv, Redis!ConnectingMeansConnecting, Redis!Ready, Redis!ConnectFails,
    Redis!Reconnects, Redis!Disconnect, Redis!Lost, Redis!Closed
<1>2. RedisCallsOK(redisCalls')
  <2>1. CASE Redis!Ready
    <3>1. \A c \in Redis!At("connect") : c \in Requests /\ RedisCallOK(Redis!Sent(redisCalls[c]))
      BY SentIsOK DEF Redis!At, RedisInv, RedisCallsOK
    <3> QED BY <2>1, <3>1 DEF Redis!Ready, RedisInv, RedisCallsOK
  <2>2. CASE Redis!ConnectFails \/ Redis!Disconnect
    BY <2>2 DEF Redis!ConnectFails, Redis!Disconnect, Redis!Fail, RedisInv, RedisCallsOK
  <2>3. CASE Redis!Reconnects
    BY <2>3 DEF Redis!Reconnects, RedisInv, RedisCallsOK
  <2>4. ASSUME NEW cs \in SUBSET Redis!At("reply"), Redis!Lost(cs)
        PROVE  RedisCallsOK(redisCalls')
    <3> DEFINE Again(c) == [redisCalls[c] EXCEPT !.step = "runs"]
    <3>1. \A c \in cs : c \in Requests /\ RedisCallOK(Again(c))
      BY AtStepIsOK DEF Redis!At, RedisInv, RedisCallsOK, RedisSteps
    <3>2. redisCalls' = [c \in Requests |-> IF c \in cs THEN Again(c) ELSE redisCalls[c]]
      BY <2>4 DEF Redis!Lost
    <3> HIDE DEF Again
    <3> QED BY <3>1, <3>2 DEF RedisInv, RedisCallsOK
  <2> QED BY <2>1, <2>2, <2>3, <2>4
<1>3. RedisCallsOK(redisCalls)'
  BY <1>1, <1>2 DEF RedisCallsOK, RedisCallOK
<1> QED BY <1>1, <1>3 DEF RedisInv, StoreOK

\* Redis executes a command: what a set writes lasts.
LEMMA RunsKeeps ==
  ASSUME RedisNone, RedisInv, NEW c \in Requests, Redis!Runs(c)
  PROVE  RedisInv'
<1> DEFINE q == redisCalls[c]
           reply == IF q.op = "get" THEN [k \in q.keys |-> store[k]] ELSE q.reply
           done == [q EXCEPT !.step = "reply", !.reply = reply]
<1>1. q # None /\ RedisCallOK(q)
  BY DEF Redis!Runs, Redis!At, RedisInv, RedisCallsOK
<1>2. PICK op \in RedisOps, ttl \in Nat, end \in Nat, step \in RedisSteps : \E ks, old :
        q = [op |-> op, keys |-> ks, ttl |-> ttl, expiresAt |-> end, reply |-> old, step |-> step]
  BY <1>1 DEF RedisCallOK, IsRedisCall
<1>3. PICK ks, old :
        q = [op |-> op, keys |-> ks, ttl |-> ttl, expiresAt |-> end, reply |-> old, step |-> step]
  BY <1>2
<1>4. time' = time /\ status' = status /\ isConnecting' = isConnecting
  BY DEF Redis!Runs
<1>5. redisCalls' = [redisCalls EXCEPT ![c] = done]
  BY DEF Redis!Runs
<1>6. /\ Redis!Written(ttl, end) \in RedisEntry
      /\ Redis!Written(ttl, end).dropAt >= Redis!Written(ttl, end).expiresAt
  BY <1>1, <1>3, WrittenLasts DEF RedisCallOK, RedisInv
<1>7. store' = [k \in RedisKeys |->
                 IF k \notin q.keys \/ q.op \in {"get", "getMultiple"} THEN store[k]
                 ELSE IF q.op = "set" THEN Redis!Written(ttl, end) ELSE None]
  BY <1>3 DEF Redis!Runs
<1> HIDE DEF q
<1>8. StoreOK(store')
  BY <1>6, <1>7 DEF StoreOK, RedisInv
<1> HIDE DEF reply
<1>9. done = [op |-> op, keys |-> ks, ttl |-> ttl, expiresAt |-> end, reply |-> reply, step |-> "reply"]
  <2> DEFINE half == [q EXCEPT !.step = "reply"]
  <2>1. half = [op |-> op, keys |-> ks, ttl |-> ttl, expiresAt |-> end, reply |-> old, step |-> "reply"]
    BY <1>3
  <2>2. done = [half EXCEPT !.reply = reply]
    BY <1>3
  <2> HIDE DEF done, half
  <2> QED BY <2>1, <2>2
<1> HIDE DEF done
<1>10. IsRedisCall(done) /\ done.expiresAt = end /\ done.ttl = ttl
  BY <1>9, "reply" \in RedisSteps DEF IsRedisCall, RedisSteps
<1>11. RedisCallOK(done)
  BY <1>1, <1>3, <1>10 DEF RedisCallOK
<1>12. RedisCallsOK(redisCalls')
  BY <1>5, <1>11 DEF RedisInv, RedisCallsOK
<1>13. RedisCallsOK(redisCalls)'
  BY <1>4, <1>12 DEF RedisCallsOK, RedisCallOK
<1> QED BY <1>4, <1>8, <1>13 DEF RedisInv, StoreOK, Redis!ConnectingMeansConnecting

\* A reply ends a call or makes it a delete.
LEMMA ReturnsKeeps ==
  ASSUME RedisNone, RedisInv, NEW c \in Requests, Redis!Returns(c) \/ Redis!CommandFails(c)
  PROVE  RedisInv'
<1>1. \A ks : RedisCallOK(Redis!Call("delete", ks, 0))
  <2> TAKE ks
  <2> DEFINE q == Redis!Call("delete", ks, 0)
  <2>1. q = [op |-> "delete", keys |-> ks, ttl |-> 0, expiresAt |-> 0, reply |-> None, step |-> "runs"]
    BY DEF Redis!Call
  <2> HIDE DEF q
  <2>2. IsRedisCall(q) /\ q.expiresAt = 0 /\ q.ttl = 0
    BY <2>1, 0 \in Nat, "runs" \in RedisSteps, "delete" \in RedisOps
    DEF IsRedisCall, RedisSteps, RedisOps
  <2>3. RedisCallOK(q)
    BY <2>2 DEF RedisCallOK, RedisInv
  <2> QED BY <2>3 DEF q
<1>2. /\ time' = time /\ store' = store /\ status' = status /\ isConnecting' = isConnecting
  BY DEF Redis!Returns, Redis!CommandFails
<1>3. RedisCallsOK(redisCalls')
  <2>1. CASE Redis!CommandFails(c)
    BY <2>1 DEF Redis!CommandFails, Redis!Fail, RedisInv, RedisCallsOK
  <2>2. CASE Redis!Returns(c)
    <3>1. PICK ks : \/ redisCalls' = [redisCalls EXCEPT ![c] = None]
                    \/ redisCalls' = [redisCalls EXCEPT ![c] = Redis!Call("delete", ks, 0)]
      BY <2>2 DEF Redis!Returns
    <3> QED BY <3>1, <1>1 DEF RedisInv, RedisCallsOK
  <2> QED BY <2>1, <2>2
<1>4. RedisCallsOK(redisCalls)'
  BY <1>2, <1>3 DEF RedisCallsOK, RedisCallOK
<1> QED BY <1>2, <1>4 DEF RedisInv, StoreOK, Redis!ConnectingMeansConnecting

\* Time only takes keys away.
LEMMA RedisTicks ==
  ASSUME RedisNone, RedisInv, Redis!Tick
  PROVE  RedisInv'
<1>1. time' = time + 1 /\ time' \in Nat
  BY DEF Redis!Tick, RedisInv
<1>2. StoreOK(store')
  BY DEF Redis!Tick, RedisInv, StoreOK
<1>3. ASSUME NEW q, RedisCallOK(q)
      PROVE  RedisCallOK(q)'
  <2>1. q.ttl \in Nat /\ q.expiresAt \in Nat
    BY <1>3 DEF RedisCallOK, IsRedisCall
  <2> QED BY <1>1, <1>3, <2>1 DEF RedisCallOK, RedisInv
<1>4. RedisCallsOK(redisCalls)'
  BY <1>3 DEF RedisCallsOK, RedisInv, Redis!Tick
<1> QED BY <1>1, <1>2, <1>4 DEF RedisInv, Redis!Tick, Redis!ConnectingMeansConnecting, StoreOK

\* Every step keeps the invariant.
LEMMA RedisStep ==
  ASSUME RedisNone
  PROVE  RedisInv /\ [Redis!Next]_(Redis!vars) => RedisInv'
<1> SUFFICES ASSUME RedisInv, [Redis!Next]_(Redis!vars) PROVE RedisInv'
  OBVIOUS
<1>1. ASSUME NEW c \in Requests,
             \/ \E k \in RedisKeys : Redis!Get(c, k) \/ Redis!Delete(c, k)
             \/ \E k \in RedisKeys, t \in Ttls : Redis!Set(c, k, t)
             \/ \E t \in Ttls : Redis!SetMultiple(c, RedisKeys, t)
             \/ Redis!GetMultiple(c, RedisKeys) \/ Redis!Clear(c)
      PROVE  RedisInv'
  <2>1. \E op \in RedisOps, ttl \in Nat : \E ks : Redis!Begins(c, Redis!Call(op, ks, ttl))
    BY <1>1, 0 \in Nat DEF Redis!Get, Redis!Delete, Redis!Set, Redis!SetMultiple, Redis!GetMultiple,
      Redis!Clear, RedisNone, RedisOps
  <2> QED BY <2>1, BeginsKeeps
<1>2. CASE \E c \in Requests : Redis!Runs(c) \/ Redis!Returns(c) \/ Redis!CommandFails(c)
  BY <1>2, RunsKeeps, ReturnsKeeps
<1>3. CASE \/ \E cs \in SUBSET Redis!At("reply") : Redis!Lost(cs)
           \/ Redis!Ready \/ Redis!ConnectFails \/ Redis!Reconnects \/ Redis!Disconnect
  BY <1>3, ConnectionKeeps
<1>4. CASE Redis!Tick
  BY <1>4, RedisTicks
<1>5. CASE UNCHANGED Redis!vars
  BY <1>5 DEF Redis!vars, RedisInv, StoreOK, RedisCallsOK, RedisCallOK, Redis!ConnectingMeansConnecting
<1> QED BY <1>1, <1>2, <1>3, <1>4, <1>5 DEF Redis!Next

\* At the start Redis is empty and there is no connection.
LEMMA RedisStarts == ASSUME RedisNone PROVE Redis!Init => RedisInv
  BY DEF Redis!Init, RedisInv, StoreOK, RedisCallsOK, Redis!ConnectingMeansConnecting

\* The invariant is what is promised.
LEMMA RedisPromises == RedisInv => Redis!NeverDroppedEarly /\ Redis!ConnectingMeansConnecting
  BY DEF RedisInv, StoreOK, Redis!NeverDroppedEarly, Redis!Held

\* The Redis cache moves by its own steps.
LEMMA RedisMoves ==
  part = "redis" /\ [MCNext]_all => [Redis!Next]_(Redis!vars)
  BY DEF MCNext, MCPlatforms, all, rest1, Redis!vars

\* In lib/cache/redis-cache.ts and redis-client.ts Redis drops no key before the expiry
\* its entry names, however commands wait, are lost or run twice, and the flag that makes
\* connect return at once is set only while an attempt is under way.
THEOREM RedisCachesLastAlways ==
  ASSUME RedisNone
  PROVE  Redis!Spec => [](Redis!NeverDroppedEarly /\ Redis!ConnectingMeansConnecting)
<1>1. Redis!Init => RedisInv
  BY RedisStarts
<1>2. RedisInv /\ [Redis!Next]_(Redis!vars) => RedisInv'
  BY RedisStep
<1>3. RedisInv => Redis!NeverDroppedEarly /\ Redis!ConnectingMeansConnecting
  BY RedisPromises
<1> QED BY <1>1, <1>2, <1>3, PTL DEF Redis!Spec

-----------------------------------------------------------------------------
(* The cache factory (lib/cache/cache-factory.ts).                             *)

Creation == [config : CacheConfigs, cache : Caches, step : {"connect", "metrics"}]

\* null is no cache, no state of one, no pending call and no disposal.
FactoryNone ==
  /\ None \notin Caches /\ None \notin Creation /\ None \notin {"memory", "redis", "closed"}
  /\ None \notin SUBSET Caches

FactoryShapes ==
  /\ instances \in [CacheConfigs -> Caches \cup {None}]
  /\ made \in [Caches -> {"memory", "redis", "closed", None}]
  /\ creations \in [Requests -> Creation \cup {None}]
  /\ disposal \in (SUBSET Caches) \cup {None}

\* The call waits for Redis, with a cache of its own.
Connecting(c) == creations[c] # None /\ creations[c].step = "connect"

\* What is listed was made; it is closed only during a disposal, which holds no
\* cache that is not made.
Listing ==
  \A g \in CacheConfigs : instances[g] # None =>
    /\ made[instances[g]] # None
    /\ made[instances[g]] = "closed" => disposal # None
    /\ \A h \in CacheConfigs : instances[g] = instances[h] => g = h

\* A cache that is being connected is open, listed nowhere, waited for by no
\* disposal and by no other call.
Waiting ==
  \A c \in Requests : Connecting(c) =>
    /\ made[creations[c].cache] = "redis"
    /\ \A g \in CacheConfigs : instances[g] # creations[c].cache
    /\ disposal # None => creations[c].cache \notin disposal
    /\ \A d \in Requests : Connecting(d) /\ creations[d].cache = creations[c].cache => d = c

Disposing == disposal # None => \A x \in disposal : made[x] # None

FactoryInv == FactoryShapes /\ Listing /\ Waiting /\ Disposing

\* A disposal holds caches.
LEMMA DisposalHolds ==
  FactoryInv /\ disposal # None => disposal \in SUBSET Caches /\ \A x \in disposal : x \in Caches
  BY DEF FactoryInv, FactoryShapes

\* A new cache was not made before, so nobody has it.
LEMMA NewIsNew ==
  ASSUME FactoryNone, FactoryInv, NEW x \in Caches, Factory!New(x)
  PROVE  /\ made[x] = None
         /\ \A g \in CacheConfigs : instances[g] # x
         /\ \A c \in Requests : Connecting(c) => creations[c].cache # x
         /\ disposal # None => x \notin disposal
<1>1. made[x] = None
  BY DEF Factory!New, Factory!Unmade
<1> QED BY <1>1 DEF FactoryNone, FactoryInv, Listing, Waiting, Disposing

\* Listing a cache nobody has, or the one the call was connecting.
LEMMA StoreKeeps ==
  ASSUME FactoryNone, FactoryInv, NEW c \in Requests, NEW g \in CacheConfigs, NEW x \in Caches,
         Factory!Store(c, g, x), disposal' = disposal,
         \/ Connecting(c) /\ creations[c].cache = x /\ made' = made
         \/ Factory!New(x) /\ made' = [made EXCEPT ![x] = "memory"]
  PROVE  FactoryInv'
<1> DEFINE new == [config |-> g, cache |-> x, step |-> "metrics"]
<1>1. new \in Creation /\ new # None
  BY DEF Creation, FactoryNone
<1>2. creations' = [creations EXCEPT ![c] = new] /\ instances' = [instances EXCEPT ![g] = x]
  BY DEF Factory!Store
<1>3. /\ made'[x] \in {"memory", "redis"}
      /\ \A y \in Caches : y # x => made'[y] = made[y]
      /\ made' \in [Caches -> {"memory", "redis", "closed", None}]
      /\ \A h \in CacheConfigs : instances[h] # x
      /\ \A d \in Requests : d # c /\ Connecting(d) => creations[d].cache # x
  BY NewIsNew DEF FactoryInv, FactoryShapes, Waiting
<1>4. new.step = "metrics"
  OBVIOUS
<1> HIDE DEF new
<1>5. FactoryShapes'
  BY <1>1, <1>2, <1>3 DEF FactoryInv, FactoryShapes
<1>6. \A d \in Requests : Connecting(d)' => d # c /\ Connecting(d) /\ creations'[d] = creations[d]
  BY <1>1, <1>2, <1>4 DEF Connecting, FactoryInv, FactoryShapes
<1>7. \A d \in Requests : Connecting(d) => creations[d].cache \in Caches
  BY DEF Connecting, FactoryInv, FactoryShapes, Creation
<1>8. Waiting'
  BY <1>2, <1>3, <1>6, <1>7 DEF Waiting, FactoryInv, FactoryShapes
<1>9. Listing'
  BY <1>2, <1>3 DEF Listing, FactoryInv, FactoryShapes, FactoryNone
<1>10. Disposing'
  BY <1>3, DisposalHolds DEF Disposing, FactoryInv, FactoryNone
<1> QED BY <1>5, <1>8, <1>9, <1>10 DEF FactoryInv

\* A call begins to connect a cache nobody has.
LEMMA ConnectsKeeps ==
  ASSUME FactoryNone, FactoryInv, NEW c \in Requests, NEW g \in CacheConfigs, Factory!Connects(c, g)
  PROVE  FactoryInv'
<1>1. PICK x \in Caches : /\ Factory!New(x)
                          /\ made' = [made EXCEPT ![x] = "redis"]
                          /\ creations' = [creations EXCEPT ![c] =
                               [config |-> g, cache |-> x, step |-> "connect"]]
  BY DEF Factory!Connects
<1> DEFINE new == [config |-> g, cache |-> x, step |-> "connect"]
<1>2. new \in Creation /\ new # None /\ new.cache = x
  BY DEF Creation, FactoryNone
<1>3. creations' = [creations EXCEPT ![c] = new] /\ instances' = instances /\ disposal' = disposal
  BY <1>1 DEF Factory!Connects
<1> HIDE DEF new
<1>4. FactoryShapes'
  BY <1>1, <1>2, <1>3 DEF FactoryInv, FactoryShapes
<1>5. \A d \in Requests : Connecting(d)' => d = c \/ (Connecting(d) /\ creations'[d] = creations[d])
  BY <1>3 DEF Connecting, FactoryInv, FactoryShapes
<1>6. creations'[c] = new /\ made'[x] = "redis"
  BY <1>1, <1>3 DEF FactoryInv, FactoryShapes
<1>7. \A d \in Requests : Connecting(d) => creations[d].cache \in Caches
  BY DEF Connecting, FactoryInv, FactoryShapes, Creation
<1>8. Waiting'
  BY <1>1, <1>2, <1>3, <1>5, <1>6, <1>7, NewIsNew DEF Waiting, FactoryInv, FactoryShapes
<1>9. Listing' /\ Disposing'
  BY <1>1, <1>3, NewIsNew DEF Listing, Disposing, FactoryInv, FactoryShapes, FactoryNone
<1> QED BY <1>4, <1>8, <1>9 DEF FactoryInv

\* A call ends, and nothing else changes.
LEMMA CreationEnds ==
  ASSUME FactoryNone, FactoryInv, NEW c \in Requests,
         creations' = [creations EXCEPT ![c] = None], UNCHANGED <<instances, made, disposal>>
  PROVE  FactoryInv'
<1>1. \A d \in Requests : Connecting(d)' => Connecting(d) /\ creations'[d] = creations[d]
  BY DEF Connecting, FactoryInv, FactoryShapes
<1> QED BY <1>1 DEF FactoryInv, FactoryShapes, Listing, Waiting, Disposing

\* The disposal: it waits for listed caches, closes what it waits for, and forgets
\* what is listed when it ends.
LEMMA DisposalKeeps ==
  ASSUME FactoryNone, FactoryInv,
         \/ Factory!ClearInstances \/ Factory!DisposeAll \/ Factory!DisposeReturns
         \/ \E x \in Caches : Factory!Disconnects(x)
  PROVE  FactoryInv'
<1>0. creations' = creations /\ \A c \in Requests : Connecting(c)' <=> Connecting(c)
  BY DEF Factory!ClearInstances, Factory!DisposeAll, Factory!DisposeReturns, Factory!Disconnects,
    Connecting
<1>1. CASE Factory!ClearInstances \/ Factory!DisposeReturns
  <2>1. /\ made' = made /\ instances' = [g \in CacheConfigs |-> None]
        /\ disposal' = disposal \/ disposal' = None
    BY <1>1 DEF Factory!ClearInstances, Factory!DisposeReturns, Factory!Forget
  <2>2. \A c \in Requests : Connecting(c) => creations[c].cache \in Caches
    BY DEF Connecting, FactoryInv, FactoryShapes, Creation
  <2>3. FactoryShapes'
    BY <1>0, <2>1 DEF FactoryInv, FactoryShapes
  <2>4. Listing'
    BY <2>1 DEF Listing
  <2>5. Waiting'
    BY <1>0, <2>1, <2>2 DEF FactoryInv, Waiting, FactoryNone
  <2>6. Disposing'
    BY <2>1 DEF FactoryInv, Disposing
  <2> QED BY <2>3, <2>4, <2>5, <2>6 DEF FactoryInv
<1>2. CASE Factory!DisposeAll
  <2>1. /\ made' = made /\ instances' = instances
        /\ disposal' \in SUBSET Caches /\ \A x \in disposal' : \E g \in CacheConfigs : x = instances[g] /\ x # None
    BY <1>2 DEF Factory!DisposeAll, FactoryInv, FactoryShapes
  <2> QED BY <1>0, <2>1 DEF FactoryInv, FactoryShapes, Listing, Waiting, Disposing, FactoryNone
<1>3. ASSUME NEW x \in Caches, Factory!Disconnects(x)
      PROVE  FactoryInv'
  <2>1. /\ disposal # None /\ x \in disposal /\ instances' = instances
        /\ made' = [made EXCEPT ![x] = "closed"] /\ disposal' = disposal \ {x}
        /\ disposal' \in SUBSET Caches
    BY <1>3, DisposalHolds DEF Factory!Disconnects
  <2>2. \A c \in Requests : Connecting(c) => creations[c].cache \in Caches /\ creations[c].cache # x
    BY <2>1 DEF Connecting, FactoryInv, FactoryShapes, Creation, Waiting
  <2>3. FactoryShapes'
    BY <1>0, <2>1 DEF FactoryInv, FactoryShapes
  <2>4. disposal' # None
    BY <2>1 DEF FactoryNone
  <2>5. Listing'
    <3>1. \A g \in CacheConfigs : instances[g] # None => instances[g] \in Caches
      BY DEF FactoryInv, FactoryShapes
    <3>2. \A y \in Caches : made[y] # None => made'[y] # None
      BY <2>1 DEF FactoryInv, FactoryShapes, FactoryNone
    <3> QED BY <2>1, <2>4, <3>1, <3>2 DEF FactoryInv, Listing
  <2>6. Waiting'
    BY <1>0, <2>1, <2>2 DEF FactoryInv, FactoryShapes, Waiting
  <2>7. Disposing'
    BY <2>1, DisposalHolds DEF FactoryInv, FactoryShapes, Disposing
  <2> QED BY <2>3, <2>5, <2>6, <2>7 DEF FactoryInv
<1> QED BY <1>1, <1>2, <1>3

\* Every step keeps the invariant.
LEMMA FactoryStep ==
  ASSUME FactoryNone
  PROVE  FactoryInv /\ [Factory!Next]_(Factory!vars) => FactoryInv'
<1> SUFFICES ASSUME FactoryInv, [Factory!Next]_(Factory!vars) PROVE FactoryInv'
  OBVIOUS
<1>1. ASSUME NEW c \in Requests, NEW g \in CacheConfigs, Factory!CreatesInMemory(c, g)
      PROVE  FactoryInv'
  BY <1>1, StoreKeeps DEF Factory!CreatesInMemory
<1>2. ASSUME NEW c \in Requests, NEW g \in CacheConfigs, Factory!Connects(c, g)
      PROVE  FactoryInv'
  BY <1>2, ConnectsKeeps
<1>3. ASSUME NEW c \in Requests, Factory!ConnectReturns(c) \/ Factory!ConnectFails(c)
      PROVE  FactoryInv'
  <2>1. creations[c] \in Creation /\ Connecting(c)
    BY <1>3 DEF Factory!ConnectReturns, Factory!ConnectFails, FactoryInv, FactoryShapes, Connecting
  <2>2. creations[c].config \in CacheConfigs /\ creations[c].cache \in Caches
    BY <2>1 DEF Creation
  <2>3. CASE Factory!ConnectReturns(c)
    BY <2>1, <2>2, <2>3, StoreKeeps DEF Factory!ConnectReturns
  <2>4. CASE Factory!ConnectFails(c)
    BY <2>2, <2>4, StoreKeeps, CreationEnds DEF Factory!ConnectFails
  <2> QED BY <1>3, <2>3, <2>4
<1>4. ASSUME NEW c \in Requests, Factory!MetricsRead(c)
      PROVE  FactoryInv'
  BY <1>4, CreationEnds DEF Factory!MetricsRead
<1>5. CASE \/ Factory!ClearInstances \/ Factory!DisposeAll \/ Factory!DisposeReturns
           \/ \E x \in Caches : Factory!Disconnects(x)
  BY <1>5, DisposalKeeps
<1>6. CASE Factory!RedisComesOrGoes \/ UNCHANGED Factory!vars
  BY <1>6 DEF Factory!RedisComesOrGoes, Factory!vars, FactoryInv, FactoryShapes, Listing, Waiting,
    Disposing, Connecting
<1> QED BY <1>1, <1>2, <1>3, <1>4, <1>5, <1>6 DEF Factory!Next

\* The factory moves by its own steps.
LEMMA FactoryMoves ==
  part = "factory" /\ [MCNext]_all => [Factory!Next]_(Factory!vars)
  BY DEF MCNext, MCPlatforms, all, rest1, Factory!vars

\* At the start nothing is made.
LEMMA FactoryStarts == ASSUME FactoryNone PROVE Factory!Init => FactoryInv
<1> SUFFICES ASSUME Factory!Init PROVE FactoryInv
  OBVIOUS
<1>1. FactoryShapes
  BY DEF Factory!Init, FactoryShapes
<1>2. \A c \in Requests : ~Connecting(c)
  BY DEF Factory!Init, Connecting
<1> QED BY <1>1, <1>2 DEF Factory!Init, FactoryInv, Listing, Waiting, Disposing

\* The invariant is what is promised.
LEMMA FactoryPromises == FactoryInv => Factory!ListedCachesAreOpen
  BY DEF FactoryInv, Listing, Factory!ListedCachesAreOpen

\* In lib/cache/cache-factory.ts a closed cache is listed only until the disposal that
\* closed it returns, and no two configurations share a cache, however creations and
\* disposals overlap and Redis comes and goes.
THEOREM ListedCachesAreOpenAlways ==
  ASSUME FactoryNone
  PROVE  Factory!Spec => []Factory!ListedCachesAreOpen
<1>1. Factory!Init => FactoryInv
  BY FactoryStarts
<1>2. FactoryInv /\ [Factory!Next]_(Factory!vars) => FactoryInv'
  BY FactoryStep
<1>3. FactoryInv => Factory!ListedCachesAreOpen
  BY FactoryPromises
<1> QED BY <1>1, <1>2, <1>3, PTL DEF Factory!Spec

\* The same of the composition: what a cache in Redis holds and what the factory lists
\* last as long as they were asked to (lib/cache/).
THEOREM CachesLastComposed ==
  ASSUME RedisNone, FactoryNone
  PROVE  MCSpec => []CachesLastAsLongAsAsked
<1> DEFINE Inv == /\ part = "redis" => RedisInv
                  /\ part = "factory" => FactoryInv
<1>1. MCInit => Inv
  BY RedisStarts, FactoryStarts DEF MCInit, MCPlatforms
<1>2. Inv /\ [MCNext]_all => Inv'
  BY PartStays, RedisMoves, RedisStep, FactoryMoves, FactoryStep
<1>3. Inv => CachesLastAsLongAsAsked
  BY RedisPromises, FactoryPromises DEF CachesLastAsLongAsAsked
<1> QED BY <1>1, <1>2, <1>3, PTL DEF MCSpec

-----------------------------------------------------------------------------
(* The batches of requests (lib/api/batching/batching-middleware.ts), the        *)
(* instance Batches. The names of its variables are opened where they are        *)
(* needed only.                                                               *)

\* Timeouts are numbers.
TimeoutsAreNumbers == BatchTimeouts \in SUBSET Nat /\ DefaultTimeout \in Nat

\* The timeouts of a batch's requests, and of its first n together.
TimeoutsOf(b) == [i \in DOMAIN b |-> IF b[i].timeout = 0 THEN DefaultTimeout ELSE b[i].timeout]
UpTo(b, n) == (CHOOSE f : Summing(f, TimeoutsOf(b), DOMAIN b))[1..n]

\* The function whose values those are.
LEMMA TimeoutsSum ==
  ASSUME TimeoutsAreNumbers, NEW b \in Seq(Batches!SentRequests)
  PROVE  /\ DOMAIN b = 1..Len(b) /\ Len(b) \in Nat /\ IsFiniteSet(DOMAIN b)
         /\ TimeoutsOf(b) \in [DOMAIN b -> Nat]
         /\ Summing(CHOOSE f : Summing(f, TimeoutsOf(b), DOMAIN b), TimeoutsOf(b), DOMAIN b)
<1>1. DOMAIN b = 1..Len(b) /\ Len(b) \in Nat
  OBVIOUS
<1>2. IsFiniteSet(DOMAIN b)
  BY <1>1, FS_Interval
<1>3. TimeoutsOf(b) \in [DOMAIN b -> Nat]
  <2>1. ASSUME NEW i \in DOMAIN b PROVE b[i].timeout \in Nat
    <3>1. b[i] \in Batches!SentRequests
      BY <1>1
    <3> DEFINE x == b[i].timeout
    <3>2. x \in BatchTimeouts \cup {0}
      BY <3>1 DEF Batches!SentRequests
    <3> HIDE DEF x
    <3>3. x \in Nat
      BY <3>2 DEF TimeoutsAreNumbers
    <3> QED
      BY <3>3 DEF x
  <2> QED
    BY <2>1 DEF TimeoutsOf, TimeoutsAreNumbers
<1>4. \E f : Summing(f, TimeoutsOf(b), DOMAIN b)
  BY <1>2, <1>3, SumExists
<1> QED
  BY <1>1, <1>2, <1>3, <1>4

\* Every member of a set can be summed first.
SumsApart(f, g, S) ==
  /\ f[{}] = 0 /\ f \in [SUBSET S -> Nat]
  /\ \A s \in SUBSET S : \A x \in s : f[s] = g[x] + f[s \ {x}]

\* The same of the numbers from 1 to m, the last one first.
SumsInTurn(f, g, m) ==
  /\ f[1..0] = 0
  /\ \A n \in 0..m : f[1..n] \in Nat
  /\ \A n \in 1..m : f[1..n] = g[n] + f[1..(n - 1)]

\* A sum can be taken up at any of its members.
LEMMA SumApart ==
  ASSUME NEW S, IsFiniteSet(S), NEW g \in [S -> Nat], NEW f, Summing(f, g, S)
  PROVE  SumsApart(f, g, S)
<1>1. ASSUME NEW s \in SUBSET S, NEW x \in s PROVE f[s] = g[x] + f[s \ {x}]
  BY SumOne
<1> QED
  BY <1>1, SumEmpty, SumIsNat DEF SumsApart

\* The sums of the first values.
LEMMA SumsUp ==
  ASSUME NEW m \in Nat, NEW f, NEW g, SumsApart(f, g, 1..m)
  PROVE  SumsInTurn(f, g, m)
<1>1. f[1..0] = 0
  <2>1. 1..0 = {}
    OBVIOUS
  <2>2. f[{}] = 0
    BY DEF SumsApart
  <2> QED
    BY <2>1, <2>2, Zenon
<1>3. \A n \in 0..m : f[1..n] \in Nat
  <2>1. \A n \in 0..m : 1..n \in SUBSET (1..m)
    OBVIOUS
  <2> QED
    BY <2>1 DEF SumsApart
<1>4. ASSUME NEW n \in 1..m PROVE f[1..n] = g[n] + f[1..(n - 1)]
  <2> DEFINE s == 1..n
             t == 1..(n - 1)
  <2>1. s \in SUBSET (1..m) /\ n \in s /\ s \ {n} = t
    OBVIOUS
  <2> HIDE DEF s, t
  <2>2. f[s] = g[n] + f[s \ {n}]
    BY <2>1 DEF SumsApart
  <2>3. f[s] = g[n] + f[t]
    BY <2>1, <2>2
  <2> QED
    BY <2>3 DEF s, t
<1> QED
  BY <1>1, <1>3, <1>4, Zenon DEF SumsInTurn

\* One more request, one more timeout.
LEMMA OneMoreTimeout ==
  ASSUME TimeoutsAreNumbers, NEW b \in Seq(Batches!SentRequests)
  PROVE  /\ UpTo(b, 0) = 0
         /\ \A n \in 0..Len(b) : UpTo(b, n) \in Nat
         /\ \A n \in 1..Len(b) : UpTo(b, n) = TimeoutsOf(b)[n] + UpTo(b, n - 1)
<1> DEFINE S == DOMAIN b
           m == Len(b)
           g == TimeoutsOf(b)
           f == CHOOSE h : Summing(h, TimeoutsOf(b), DOMAIN b)
<1>1. m \in Nat /\ S = 1..m /\ g \in [S -> Nat] /\ Summing(f, g, S)
  BY TimeoutsSum
<1>2. \A n : UpTo(b, n) = f[1..n]
  BY DEF UpTo
<1>11. IsFiniteSet(S)
  BY TimeoutsSum
<1> HIDE DEF S, g, f, m
<1>12. SumsApart(f, g, S)
  BY <1>1, <1>11, SumApart
<1>13. SumsApart(f, g, 1..m) /\ m \in Nat
  BY <1>1, <1>12
<1>14. SumsInTurn(f, g, m)
  BY <1>13, SumsUp
<1>3. /\ f[1..0] = 0
      /\ \A n \in 0..m : f[1..n] \in Nat
      /\ \A n \in 1..m : f[1..n] = g[n] + f[1..(n - 1)]
  BY <1>14 DEF SumsInTurn
<1>4. UpTo(b, 0) = 0 /\ \A n \in 0..m : UpTo(b, n) \in Nat
  BY <1>2, <1>3
<1>5. ASSUME NEW n \in 1..m PROVE UpTo(b, n) = g[n] + UpTo(b, n - 1)
  BY <1>2, <1>3, Zenon
<1> QED
  BY <1>4, <1>5 DEF g, m

\* A sequence's fold is a sum.
LEMMA FoldIsSum ==
  ASSUME NEW s, IsFiniteSet(DOMAIN s), s \in [DOMAIN s -> Nat]
  PROVE  \E f : Summing(f, s, DOMAIN s) /\ Batches!FoldSeq(LAMBDA x, y : x + y, 0, s) = f[DOMAIN s]
<1> DEFINE S == DOMAIN s
           Def(f) == [t \in SUBSET S |-> IF t = {} THEN 0
                        ELSE s[CHOOSE x \in t : TRUE] + f[t \ {CHOOSE x \in t : TRUE}]]
           iter == CHOOSE f : f = Def(f)
<1>1. \A f : Summing(f, s, S) <=> f = Def(f)
  BY DEF Summing, Chosen
<1>2. \E f : f = Def(f)
  <2>1. PICK f : Summing(f, s, S)
    BY SumExists
  <2> HIDE DEF Def
  <2>2. f = Def(f)
    BY <1>1, <2>1
  <2> QED
    BY <2>2, Zenon
<1>3. iter = Def(iter)
  <2> HIDE DEF Def
  <2> QED
    BY <1>2
<1>4. Summing(iter, s, S)
  <2> HIDE DEF iter, Def
  <2> QED
    BY <1>1, <1>3
<1>5. Batches!FoldSeq(LAMBDA x, y : x + y, 0, s) = iter[S]
  BY Zenon DEF Batches!FoldSeq, Batches!FoldFunction, Batches!FoldFunctionOnSet, Batches!MapThenFoldSet
<1> QED
  BY <1>4, <1>5

\* The same, said at once.
Restricts(h, g, A, S) ==
  /\ g \in [S -> Nat] /\ h \in [S -> Nat] /\ A \in SUBSET S
  /\ \A x \in S : h[x] = IF x \in A THEN g[x] ELSE 0

\* So a sum of what is restricted is the sum over those that are left.
LEMMA RestrictedSum ==
  ASSUME NEW S, IsFiniteSet(S), NEW g, NEW A, NEW h, Restricts(h, g, A, S),
         NEW f, Summing(f, g, S), NEW e, Summing(e, h, S)
  PROVE  e[S] = f[A]
BY SumRestricted DEF Restricts

\* The time the model allows: the timeouts of the first n requests.
SpentOn(b, n) == [i \in DOMAIN b |-> IF i \in 1..n THEN TimeoutsOf(b)[i] ELSE 0]

\* The model adds up the same timeouts.
LEMMA SpentIs ==
  ASSUME TimeoutsAreNumbers, NEW b \in Seq(Batches!SentRequests), NEW n \in 0..Len(b)
  PROVE  Batches!FoldSeq(LAMBDA x, y : x + y, 0, SpentOn(b, n)) = UpTo(b, n)
<1> DEFINE S == DOMAIN b
           A == 1..n
           g == TimeoutsOf(b)
           f == CHOOSE h : Summing(h, TimeoutsOf(b), DOMAIN b)
           h == SpentOn(b, n)
<1>1. S = 1..Len(b) /\ Len(b) \in Nat
  OBVIOUS
<1>2. IsFiniteSet(S) /\ g \in [S -> Nat] /\ Summing(f, g, S)
  BY TimeoutsSum
<1>3. UpTo(b, n) = f[A]
  BY DEF UpTo
<1>4. DOMAIN h = S /\ h = [x \in S |-> h[x]] /\ \A x \in S : h[x] = IF x \in A THEN g[x] ELSE 0
  BY DEF SpentOn
<1>5. A \in SUBSET S
  BY <1>1
<1> HIDE DEF f, S, g, A, h
<1>6. h \in [S -> Nat]
  <2>1. \A x \in S : h[x] \in Nat
    BY <1>2, <1>4
  <2> QED
    BY <1>4, <2>1
<1>7. PICK e : Summing(e, h, S) /\ Batches!FoldSeq(LAMBDA x, y : x + y, 0, h) = e[S]
  BY <1>2, <1>4, <1>6, FoldIsSum
<1>8. Restricts(h, g, A, S)
  BY <1>2, <1>4, <1>5, <1>6 DEF Restricts
<1>9. e[S] = f[A]
  <2>1. IsFiniteSet(S) /\ Summing(f, g, S) /\ Summing(e, h, S)
    BY <1>2, <1>7
  <2> QED
    BY <1>8, <2>1, RestrictedSum
<1> QED
  BY <1>3, <1>7, <1>9 DEF h

\* The statuses of the responses.
BatchStatuses == {200, 302, 404, 500}

\* A response has one of four statuses.
HaveStatuses(f, m) == \A j \in 1..m : f[j] \in BatchStatuses

\* Each is a success or an error, and not both.
CountedOnce(f, m) ==
  LET failing == {j \in 1..m : f[j] >= 400}
      successes == {j \in 1..m : Batches!SuccessStatus(f[j])} IN
  /\ Cardinality(successes) + Cardinality(failing) = m
  /\ failing # {} <=> Cardinality(failing) > 0

\* Those with a success and those with an error are all that there are.
LEMMA CountsAddUp ==
  ASSUME NEW m \in Nat, NEW f, HaveStatuses(f, m)
  PROVE  CountedOnce(f, m)
<1> DEFINE failing == {j \in 1..m : f[j] >= 400}
           successes == {j \in 1..m : Batches!SuccessStatus(f[j])}
<1>1. failing \cap successes = {} /\ failing \cup successes = 1..m
  BY DEF Batches!SuccessStatus, HaveStatuses, BatchStatuses
<1>2. IsFiniteSet(1..m) /\ Cardinality(1..m) = m
  BY FS_Interval
<1> HIDE DEF failing, successes
<1>3. IsFiniteSet(failing) /\ IsFiniteSet(successes)
  BY <1>1, <1>2, FS_Subset
<1>4. Cardinality(failing) \in Nat /\ Cardinality(successes) \in Nat
      /\ (failing = {} <=> Cardinality(failing) = 0)
  BY <1>3, FS_CardinalityType, FS_EmptySet
<1>5. Cardinality(failing \cup successes) = Cardinality(failing) + Cardinality(successes)
  BY <1>1, <1>3, FS_Union, FS_EmptySet, <1>4
<1>6. Cardinality(successes) + Cardinality(failing) = m
  <2>1. Cardinality(failing \cup successes) = m
    BY <1>1, <1>2
  <2> DEFINE c == Cardinality(failing)
             d == Cardinality(successes)
  <2>2. c \in Nat /\ d \in Nat /\ c + d = m
    BY <1>4, <1>5, <2>1
  <2> HIDE DEF c, d
  <2>3. d + c = m
    BY <2>2
  <2> QED
    BY <2>3 DEF c, d
<1>7. failing # {} <=> Cardinality(failing) > 0
  BY <1>4
<1> QED
  BY <1>6, <1>7 DEF failing, successes, CountedOnce

\* Every response has one of the statuses.
StatusesOK == \A i \in DOMAIN settled : settled[i] \in BatchStatuses

\* The first m requests were answered, and in sequence those before the last without an
\* error, unless errors are to be passed over.
FirstOnes(m) == responses = [i \in 1..m |-> i] /\ DOMAIN settled = 1..m
NoErrorIn(m) == ~options.continueOnError => \A i \in 1..m : settled[i] < 400

\* All at once: what is not answered is awaited, from the start, and not too long.
Together ==
  /\ responses = <<>>
  /\ DOMAIN flight # {} /\ DOMAIN flight \subseteq DOMAIN batch
  /\ DOMAIN settled = DOMAIN batch \ DOMAIN flight
  /\ \A i \in DOMAIN flight : flight[i] = TimeoutsOf(batch)[i] /\ elapsed <= flight[i]

\* One after another: the k-th is awaited, and no longer than the timeouts up to its own.
InTurn(k) ==
  /\ FirstOnes(k - 1) /\ NoErrorIn(k - 1)
  /\ DOMAIN flight = {k} /\ flight[k] \in Nat
  /\ flight[k] <= UpTo(batch, k) /\ elapsed <= flight[k]

\* The answer accounts for the first m.
Accounts(m) ==
  /\ FirstOnes(m)
  /\ \/ m = Len(batch)
     \/ ~options.parallelExecution /\ ~options.continueOnError /\ settled[m] >= 400
  /\ ~options.parallelExecution => NoErrorIn(m - 1)
  /\ batchAnswer.success + batchAnswer.errors = m
  /\ batchAnswer.hasErrors = (batchAnswer.errors > 0)
  /\ IF options.parallelExecution THEN \E i \in DOMAIN batch : elapsed <= TimeoutsOf(batch)[i]
     ELSE elapsed <= UpTo(batch, m)

\* Nothing was sent.
Untouched == flight = <<>> /\ settled = <<>> /\ responses = <<>>

\* A batch and where it stands.
BatchInv ==
  /\ batch \in Seq(Batches!SentRequests)
  /\ phase \in {"received", "running", "recording", "answered"}
  /\ recorded \in {"none", "COMPLETED", "lost"}
  /\ elapsed \in Nat /\ StatusesOK
  /\ phase = "received" => Untouched /\ elapsed = 0 /\ batchAnswer = [code |-> 0]
  /\ phase = "running" => /\ batchAnswer = [code |-> 0]
                          /\ options.parallelExecution => Together
                          /\ ~options.parallelExecution => \E k \in DOMAIN batch : InTurn(k)
  /\ phase \in {"recording", "answered"} =>
       \/ Untouched /\ batchAnswer.code # 200
       \/ DOMAIN flight = {} /\ \E m \in DOMAIN batch : Accounts(m)

\* The initial states: a batch as it comes.
LEMMA BatchInit ==
  ASSUME MaxBatch \in Nat, Batches!Init
  PROVE  BatchInv
<1>1. batch \in Seq(Batches!SentRequests)
  <2>1. PICK n \in 0..MaxBatch : batch \in [1..n -> Batches!SentRequests]
    BY DEF Batches!Init, batch
  <2> QED
    BY <2>1
<1>2. /\ phase = "received" /\ Untouched /\ elapsed = 0 /\ batchAnswer = [code |-> 0]
      /\ recorded = "none"
  BY DEF Batches!Init, phase, Untouched, flight, settled, responses, elapsed, batchAnswer, recorded,
         Batches!NoAnswer
<1>3. StatusesOK
  BY <1>2 DEF StatusesOK, Untouched
<1> QED
  BY <1>1, <1>2, <1>3 DEF BatchInv

\* A batch refused before it runs.
LEMMA RefuseStep ==
  ASSUME BatchInv, Batches!Refuse
  PROVE  BatchInv'
<1>1. /\ phase = "received" /\ phase' \in {"answered", "recording"}
      /\ \E code \in {500, 400} : batchAnswer' = [code |-> code]
      /\ UNCHANGED <<batch, options, flight, settled, responses, recorded, elapsed>>
  BY DEF Batches!Refuse, Batches!Answers, phase, batchAnswer, batch, options, flight, settled,
         responses, recorded, elapsed
<1>2. batchAnswer'.code # 200
  BY <1>1
<1>3. Untouched' /\ StatusesOK'
  BY <1>1 DEF BatchInv, Untouched, StatusesOK
<1> QED
  BY <1>1, <1>2, <1>3 DEF BatchInv

\* The job that stands for the batch.
LEMMA BatchRecordStep ==
  ASSUME BatchInv, Batches!Record
  PROVE  BatchInv'
<1>1. /\ phase = "recording" /\ phase' = "answered" /\ recorded' \in {"COMPLETED", "lost"}
      /\ UNCHANGED <<batch, options, flight, settled, responses, batchAnswer, elapsed>>
  BY DEF Batches!Record, phase, batchAnswer, batch, options, flight, settled,
         responses, recorded, elapsed
<1>2. Untouched' <=> Untouched
  BY <1>1 DEF Untouched
<1>3. \A m : Accounts(m)' <=> Accounts(m)
  BY <1>1 DEF Accounts, FirstOnes, NoErrorIn
<1>4. StatusesOK'
  BY <1>1 DEF BatchInv, StatusesOK
<1> QED
  BY <1>1, <1>2, <1>3, <1>4 DEF BatchInv

\* Time passes until the first deadline.
LEMMA BatchTickStep ==
  ASSUME TimeoutsAreNumbers, BatchInv, Batches!Tick
  PROVE  BatchInv'
<1>1. /\ phase = "running" /\ \A i \in DOMAIN flight : elapsed < flight[i]
      /\ elapsed' = elapsed + 1 /\ elapsed \in Nat
      /\ UNCHANGED <<batch, options, phase, flight, settled, responses, batchAnswer, recorded>>
  BY DEF BatchInv, Batches!Tick, phase, batchAnswer, batch, options, flight, settled,
         responses, recorded, elapsed
<1>2. Together => Together'
  <2> SUFFICES ASSUME Together PROVE Together'
    OBVIOUS
  <2>1. \A i \in DOMAIN batch : TimeoutsOf(batch)[i] \in Nat
    BY TimeoutsSum DEF BatchInv
  <2>2. ASSUME NEW i \in DOMAIN flight PROVE flight[i] = TimeoutsOf(batch)[i] /\ elapsed + 1 <= flight[i]
    <3>1. flight[i] = TimeoutsOf(batch)[i] /\ flight[i] \in Nat
      BY <2>1 DEF Together
    <3>2. elapsed < flight[i]
      BY <1>1
    <3> QED
      BY <1>1, <3>1, <3>2
  <2> QED
    BY <1>1, <2>2 DEF Together
<1>3. ASSUME NEW k \in DOMAIN batch, InTurn(k) PROVE InTurn(k)'
  <2>1. flight[k] \in Nat /\ elapsed < flight[k]
    BY <1>1, <1>3 DEF InTurn
  <2>2. elapsed + 1 <= flight[k]
    BY <1>1, <2>1
  <2> QED
    BY <1>1, <1>3, <2>2 DEF InTurn, FirstOnes, NoErrorIn
<1>4. StatusesOK'
  BY <1>1 DEF BatchInv, StatusesOK
<1> QED
  BY <1>1, <1>2, <1>3, <1>4 DEF BatchInv

\* The requests leave, all or the first.
LEMMA ExecuteStep ==
  ASSUME TimeoutsAreNumbers, BatchInv, Batches!Execute
  PROVE  BatchInv'
<1>1. /\ phase = "received" /\ phase' = "running" /\ batch # <<>>
      /\ flight' = [i \in IF options.parallelExecution THEN DOMAIN batch ELSE {1} |-> Batches!Deadline(i)]
      /\ UNCHANGED <<batch, options, settled, responses, batchAnswer, recorded, elapsed>>
  BY DEF Batches!Execute, Batches!FirstForm, Batches!Indices, phase, batchAnswer, batch, options,
         flight, settled, responses, recorded, elapsed
<1>2. Untouched /\ elapsed = 0 /\ batchAnswer = [code |-> 0] /\ batch \in Seq(Batches!SentRequests)
  BY <1>1 DEF BatchInv
<1>3. /\ DOMAIN batch = 1..Len(batch) /\ Len(batch) \in Nat /\ 1 \in DOMAIN batch
      /\ TimeoutsOf(batch) \in [DOMAIN batch -> Nat]
  <2>1. Len(batch) # 0
    BY <1>1, <1>2
  <2>2. /\ DOMAIN batch = 1..Len(batch) /\ Len(batch) \in Nat
        /\ TimeoutsOf(batch) \in [DOMAIN batch -> Nat]
    BY <1>2, TimeoutsSum
  <2>3. 1 \in 1..Len(batch)
    BY <2>1, <2>2
  <2> QED
    BY <2>2, <2>3
<1>4. \A i \in DOMAIN batch : Batches!Deadline(i) = TimeoutsOf(batch)[i]
  <2>1. \A i \in DOMAIN batch : Batches!Deadline(i) = 0 + TimeoutsOf(batch)[i]
    BY <1>2 DEF Batches!Deadline, TimeoutsOf, batch, elapsed
  <2> QED
    BY <1>3, <2>1
<1>5. CASE options.parallelExecution
  <2>1. DOMAIN flight' = DOMAIN batch /\ \A i \in DOMAIN batch : flight'[i] = TimeoutsOf(batch)[i]
    BY <1>1, <1>4, <1>5
  <2>2. \A i \in DOMAIN batch : 0 <= TimeoutsOf(batch)[i]
    BY <1>3
  <2>3. Together'
    <3>1. responses' = <<>> /\ settled' = <<>> /\ elapsed' = 0 /\ batch' = batch
      BY <1>1, <1>2 DEF Untouched
    <3>2. DOMAIN settled' = {} /\ DOMAIN flight' # {}
      BY <1>3, <2>1, <3>1
    <3>3. \A i \in DOMAIN flight' : flight'[i] = TimeoutsOf(batch')[i] /\ elapsed' <= flight'[i]
      BY <2>1, <2>2, <3>1
    <3> QED
      BY <2>1, <3>1, <3>2, <3>3 DEF Together
  <2> QED
    BY <1>1, <1>2, <1>5, <2>3 DEF BatchInv, StatusesOK
<1>6. CASE ~options.parallelExecution
  <2>1. DOMAIN flight' = {1} /\ flight'[1] = TimeoutsOf(batch)[1] /\ flight'[1] \in Nat
    BY <1>1, <1>3, <1>4, <1>6
  <2>2. UpTo(batch, 1) = flight'[1]
    <3>1. 1 \in 1..Len(batch)
      BY <1>3
    <3>2. UpTo(batch, 1) = TimeoutsOf(batch)[1] + UpTo(batch, 1 - 1) /\ UpTo(batch, 0) = 0
      BY <1>2, <3>1, OneMoreTimeout
    <3> QED
      BY <2>1, <3>2
  <2>3. InTurn(1)'
    <3>1. 1..(1 - 1) = {}
      OBVIOUS
    <3>2. FirstOnes(1 - 1)' /\ NoErrorIn(1 - 1)'
      BY <1>1, <1>2, <3>1 DEF FirstOnes, NoErrorIn, Untouched
    <3>3. UpTo(batch', 1) = flight'[1]
      BY <1>1, <2>2
    <3> QED
      BY <1>1, <1>2, <2>1, <3>2, <3>3 DEF InTurn
  <2> QED
    BY <1>1, <1>2, <1>3, <1>6, <2>3 DEF BatchInv, StatusesOK
<1> QED
  BY <1>5, <1>6

\* What a response changes: it is there, and is awaited no longer.
LEMMA SettledIs ==
  ASSUME NEW i \in DOMAIN batch, NEW got \in BatchStatuses, Batches!Settle(i, got),
         StatusesOK
  PROVE  /\ DOMAIN settled' = DOMAIN settled \cup {i} /\ settled'[i] = got
         /\ \A j \in DOMAIN settled \ {i} : settled'[j] = settled[j]
         /\ StatusesOK'
<1>1. settled' = [j \in DOMAIN settled \cup {i} |-> IF j = i THEN got ELSE settled[j]]
  BY DEF Batches!Settle, Batches!With, settled
<1> QED
  BY <1>1 DEF StatusesOK

\* In sequence the next request is sent, after an error only when errors are passed over.
Goes(i, got) ==
  ~options.parallelExecution /\ i < Len(batch) /\ (got < 400 \/ options.continueOnError)

\* A response after which nothing more is sent leaves one fewer awaited.
LEMMA LeftIs ==
  ASSUME NEW i, NEW got, Batches!Settle(i, got), ~Goes(i, got)
  PROVE  /\ DOMAIN flight' = DOMAIN flight \ {i}
         /\ \A j \in DOMAIN flight \ {i} : flight'[j] = flight[j]
<1>1. flight' = [j \in DOMAIN flight \ {i} |-> flight[j]]
  BY DEF Batches!Settle, Batches!Leaves, Batches!Without, settled, flight, options, batch, Goes
<1> QED
  BY <1>1

\* The next request leaves.
LEMMA NextLeaves ==
  ASSUME NEW i \in Nat, NEW got, Batches!Settle(i, got), DOMAIN flight = {i}, Goes(i, got)
  PROVE  /\ DOMAIN flight' = {i + 1}
         /\ flight'[i + 1] = Batches!Deadline(i + 1)
<1>1. flight' = Batches!With(Batches!Without(flight, i), i + 1, Batches!Deadline(i + 1))
  BY DEF Batches!Settle, Batches!Leaves, flight, options, batch, Goes
<1>2. DOMAIN Batches!Without(flight, i) = {}
  BY DEF Batches!Without
<1>3. flight' = [j \in DOMAIN Batches!Without(flight, i) \cup {i + 1} |->
                   IF j = i + 1 THEN Batches!Deadline(i + 1) ELSE Batches!Without(flight, i)[j]]
  BY <1>1 DEF Batches!With
<1> QED
  BY <1>2, <1>3

\* The last response ends the batch: its answer counts every response once.
LEMMA LastAnswers ==
  ASSUME NEW i, NEW got, Batches!Settle(i, got), DOMAIN flight' = {}, StatusesOK',
         NEW m \in Nat, responses' = [j \in 1..m |-> j], DOMAIN settled' = 1..m
  PROVE  /\ phase' = "recording"
         /\ batchAnswer'.success + batchAnswer'.errors = m
         /\ batchAnswer'.hasErrors = (batchAnswer'.errors > 0)
<1> DEFINE listed == Batches!ToSet(responses')
           failing == {j \in listed : settled'[j] >= 400}
           successes == {j \in listed : Batches!SuccessStatus(settled'[j])}
<1>1. /\ phase' = "recording"
      /\ batchAnswer' = [code |-> 200, errors |-> Batches!Cardinality(failing), hasErrors |-> failing # {},
                         success |-> Batches!Cardinality(successes)]
  BY DEF Batches!Settle, phase, batchAnswer, flight, settled, responses
<1>2. listed = 1..m
  BY DEF Batches!ToSet
<1>3. \A j \in 1..m : settled'[j] \in BatchStatuses
  BY DEF StatusesOK
<1>4. \A S : Batches!Cardinality(S) = Cardinality(S)
  BY DEF Batches!Cardinality, Cardinality
<1>5. /\ Cardinality(successes) + Cardinality(failing) = m
      /\ failing # {} <=> Cardinality(failing) > 0
  <2> DEFINE f == settled'
  <2>1. \A j \in 1..m : f[j] \in BatchStatuses
    BY <1>3
  <2>2. failing = {j \in 1..m : f[j] >= 400} /\ successes = {j \in 1..m : Batches!SuccessStatus(f[j])}
    BY <1>2
  <2> HIDE DEF f, failing, successes
  <2>3. HaveStatuses(f, m)
    BY <2>1 DEF HaveStatuses
  <2>4. CountedOnce(f, m)
    BY <2>3, CountsAddUp
  <2> QED
    BY <2>2, <2>4, Zenon DEF CountedOnce
<1> HIDE DEF failing, successes
<1> QED
  BY <1>1, <1>4, <1>5

\* What no response changes.
LEMMA SettleKeeps ==
  ASSUME NEW i, NEW got, Batches!Settle(i, got)
  PROVE  UNCHANGED <<batch, options, recorded, elapsed>>
BY DEF Batches!Settle, batch, options, recorded, elapsed

\* A response to one of the requests made at once.
LEMMA TogetherSettles ==
  ASSUME TimeoutsAreNumbers, BatchInv, phase = "running", options.parallelExecution,
         NEW i \in DOMAIN flight, NEW got \in BatchStatuses, Batches!Settle(i, got)
  PROVE  BatchInv'
<1>1. /\ Together /\ batch \in Seq(Batches!SentRequests) /\ elapsed \in Nat /\ StatusesOK
      /\ recorded \in {"none", "COMPLETED", "lost"} /\ batchAnswer = [code |-> 0]
  BY DEF BatchInv
<1>2. UNCHANGED <<batch, options, recorded, elapsed>>
  BY SettleKeeps
<1>3. i \in DOMAIN batch /\ DOMAIN settled = DOMAIN batch \ DOMAIN flight /\ responses = <<>>
      /\ DOMAIN flight \subseteq DOMAIN batch
      /\ \A j \in DOMAIN flight : flight[j] = TimeoutsOf(batch)[j] /\ elapsed <= flight[j]
  BY <1>1 DEF Together
<1>4. DOMAIN settled' = DOMAIN settled \cup {i} /\ StatusesOK'
  BY <1>1, <1>3, SettledIs
<1>5. /\ DOMAIN flight' = DOMAIN flight \ {i}
      /\ \A j \in DOMAIN flight \ {i} : flight'[j] = flight[j]
  <2>1. ~Goes(i, got)
    BY DEF Goes
  <2> QED
    BY <2>1, LeftIs
<1>6. responses' = IF DOMAIN flight = {i} THEN [j \in DOMAIN batch |-> j] ELSE responses
  BY DEF Batches!Settle, Batches!Lists, Batches!Indices, responses, options, flight, batch
<1>7. DOMAIN batch = 1..Len(batch) /\ Len(batch) \in Nat
  BY <1>1, TimeoutsSum
<1>8. DOMAIN settled' = DOMAIN batch \ DOMAIN flight'
  BY <1>3, <1>4, <1>5
<1>9. CASE DOMAIN flight = {i}
  <2> DEFINE m == Len(batch)
  <2>1. DOMAIN flight' = {} /\ responses' = [j \in 1..m |-> j] /\ DOMAIN settled' = 1..m
    BY <1>5, <1>6, <1>7, <1>8, <1>9
  <2>2. FirstOnes(m)'
    BY <1>2, <2>1 DEF FirstOnes
  <2>3. /\ phase' = "recording"
        /\ batchAnswer'.success + batchAnswer'.errors = m
        /\ batchAnswer'.hasErrors = (batchAnswer'.errors > 0)
    <3>1. m \in Nat /\ StatusesOK'
      BY <1>4, <1>7
    <3> HIDE DEF m
    <3> QED
      BY <2>1, <3>1, LastAnswers
  <2>4. \E j \in DOMAIN batch : elapsed <= TimeoutsOf(batch)[j]
    BY <1>3
  <2>5. m \in DOMAIN batch
    <3>1. 1..m # {}
      BY <1>3, <1>7
    <3> QED
      BY <1>7, <3>1
  <2>6. Accounts(Len(batch))'
    BY <1>2, <2>1, <2>3, <2>4 DEF Accounts, FirstOnes
  <2> QED
    BY <1>1, <1>2, <1>4, <2>1, <2>3, <2>5, <2>6 DEF BatchInv
<1>10. CASE DOMAIN flight # {i}
  <2>1. DOMAIN flight' # {} /\ responses' = <<>>
    BY <1>3, <1>5, <1>6, <1>10
  <2>2. phase' = phase /\ batchAnswer' = batchAnswer
    BY <2>1 DEF Batches!Settle, phase, batchAnswer, flight
  <2>3. Together'
    BY <1>2, <1>3, <1>5, <1>8, <2>1 DEF Together
  <2> QED
    BY <1>1, <1>2, <1>4, <2>2, <2>3 DEF BatchInv
<1> QED
  BY <1>9, <1>10

\* The answer to the k-th of the requests made in turn is listed after those before it.
LEMMA TurnsSettle ==
  ASSUME BatchInv, ~options.parallelExecution,
         NEW k \in Nat \ {0}, k \in DOMAIN batch, InTurn(k), NEW got \in BatchStatuses, Batches!Settle(k, got)
  PROVE  /\ responses' = [j \in 1..k |-> j] /\ DOMAIN settled' = 1..k
         /\ settled'[k] = got /\ \A j \in 1..(k - 1) : settled'[j] = settled[j]
         /\ StatusesOK'
<1>1. responses = [j \in 1..(k - 1) |-> j] /\ DOMAIN settled = 1..(k - 1) /\ StatusesOK
  BY DEF InTurn, FirstOnes, BatchInv
<1>2. /\ DOMAIN settled' = DOMAIN settled \cup {k} /\ settled'[k] = got
      /\ \A j \in DOMAIN settled \ {k} : settled'[j] = settled[j]
      /\ StatusesOK'
  BY <1>1, SettledIs
<1>3. responses' = Append(responses, k)
  BY DEF Batches!Settle, Batches!Lists, responses, options
<1>4. responses' = [j \in 1..k |-> j]
  <2> DEFINE r == [j \in 1..(k - 1) |-> j]
  <2>1. r \in Seq(Nat) /\ Len(r) = k - 1
    OBVIOUS
  <2>2. Append(r, k) = [j \in 1..k |-> j]
    BY <2>1
  <2> QED
    BY <1>1, <1>3, <2>2
<1>5. (1..(k - 1)) \cup {k} = 1..k /\ k \notin 1..(k - 1)
  OBVIOUS
<1> QED
  BY <1>1, <1>2, <1>4, <1>5

\* A response to one of the requests made one after another.
LEMMA TurnStep ==
  ASSUME TimeoutsAreNumbers, BatchInv, phase = "running", ~options.parallelExecution,
         NEW k \in DOMAIN batch, InTurn(k), NEW got \in BatchStatuses, Batches!Settle(k, got)
  PROVE  BatchInv'
<1>1. /\ batch \in Seq(Batches!SentRequests) /\ elapsed \in Nat /\ StatusesOK
      /\ recorded \in {"none", "COMPLETED", "lost"} /\ batchAnswer = [code |-> 0]
  BY DEF BatchInv
<1>2. UNCHANGED <<batch, options, recorded, elapsed>>
  BY SettleKeeps
<1> DEFINE n == Len(batch)
<1>3. DOMAIN batch = 1..n /\ n \in Nat /\ k \in 1..n /\ k \in Nat \ {0}
  BY <1>1, TimeoutsSum
<1>4. /\ responses' = [j \in 1..k |-> j] /\ DOMAIN settled' = 1..k
      /\ settled'[k] = got /\ \A j \in 1..(k - 1) : settled'[j] = settled[j]
      /\ StatusesOK'
  BY <1>3, TurnsSettle
<1>5. DOMAIN flight = {k} /\ flight[k] \in Nat /\ flight[k] <= UpTo(batch, k) /\ elapsed <= flight[k]
      /\ NoErrorIn(k - 1)
  BY DEF InTurn
<1>6. UpTo(batch, k) \in Nat /\ elapsed <= UpTo(batch, k)
  <2>1. UpTo(batch, k) \in Nat
    BY <1>1, <1>3, OneMoreTimeout
  <2> QED
    BY <1>1, <1>5, <2>1
<1>7. CASE Goes(k, got)
  <2> DEFINE l == k + 1
  <2>1. DOMAIN flight' = {l} /\ flight'[l] = Batches!Deadline(l)
    BY <1>3, <1>5, <1>7, NextLeaves
  <2>2. l \in 1..n /\ l - 1 = k /\ (got < 400 \/ options.continueOnError)
    BY <1>3, <1>7 DEF Goes
  <2>3. TimeoutsOf(batch)[l] \in Nat /\ UpTo(batch, l) = TimeoutsOf(batch)[l] + UpTo(batch, k)
    <3>1. TimeoutsOf(batch) \in [DOMAIN batch -> Nat]
      BY <1>1, TimeoutsSum
    <3>2. \A i \in 1..Len(batch) : UpTo(batch, i) = TimeoutsOf(batch)[i] + UpTo(batch, i - 1)
      BY <1>1, OneMoreTimeout
    <3> HIDE DEF l
    <3>3. UpTo(batch, l) = TimeoutsOf(batch)[l] + UpTo(batch, l - 1)
      BY <2>2, <3>2
    <3> QED
      BY <1>3, <2>2, <3>1, <3>3
  <2>4. Batches!Deadline(l) = elapsed + TimeoutsOf(batch)[l]
    <3>1. l \in DOMAIN batch
      BY <1>3, <2>2
    <3> QED
      BY <3>1 DEF Batches!Deadline, TimeoutsOf, batch, elapsed
  <2>5. flight'[l] \in Nat /\ flight'[l] <= UpTo(batch, l) /\ elapsed <= flight'[l]
    <3> DEFINE a == TimeoutsOf(batch)[l]
               b == UpTo(batch, k)
               c == UpTo(batch, l)
    <3>1. a \in Nat /\ b \in Nat /\ c = a + b /\ elapsed <= b /\ elapsed \in Nat
          /\ flight'[l] = elapsed + a
      BY <1>1, <1>6, <2>1, <2>3, <2>4
    <3> HIDE DEF a, b, c
    <3>2. elapsed + a \in Nat /\ elapsed + a <= c /\ elapsed <= elapsed + a
      BY <3>1
    <3> QED
      BY <3>1, <3>2 DEF c
  <2>6. FirstOnes(l - 1)' /\ NoErrorIn(l - 1)'
    <3>1. FirstOnes(k)'
      BY <1>4 DEF FirstOnes
    <3>2. NoErrorIn(k)'
      <4> SUFFICES ASSUME ~options.continueOnError, NEW j \in 1..k PROVE settled'[j] < 400
        BY <1>2 DEF NoErrorIn
      <4>1. CASE j = k
        BY <1>4, <2>2, <4>1
      <4>2. CASE j # k
        <5>1. j \in 1..(k - 1)
          BY <1>3, <4>2
        <5> QED
          BY <1>4, <1>5, <5>1 DEF NoErrorIn
      <4> QED
        BY <4>1, <4>2
    <3> QED
      BY <2>2, <3>1, <3>2 DEF FirstOnes, NoErrorIn
  <2>7. InTurn(l)'
    BY <1>2, <2>1, <2>5, <2>6 DEF InTurn
  <2>8. phase' = phase /\ batchAnswer' = batchAnswer
    BY <2>1 DEF Batches!Settle, phase, batchAnswer, flight
  <2>9. l \in DOMAIN batch
    BY <1>3, <2>2
  <2> HIDE DEF l
  <2> QED
    BY <1>1, <1>2, <1>4, <2>7, <2>8, <2>9 DEF BatchInv
<1>8. CASE ~Goes(k, got)
  <2>1. DOMAIN flight' = {}
    BY <1>5, <1>8, LeftIs
  <2>2. /\ phase' = "recording"
        /\ batchAnswer'.success + batchAnswer'.errors = k
        /\ batchAnswer'.hasErrors = (batchAnswer'.errors > 0)
    BY <1>3, <1>4, <2>1, LastAnswers
  <2>3. k = n \/ (~options.continueOnError /\ settled'[k] >= 400)
    <3>1. got \in Nat
      BY DEF BatchStatuses
    <3> QED
      BY <1>3, <1>4, <1>8, <3>1 DEF Goes
  <2>4. FirstOnes(k)' /\ NoErrorIn(k - 1)'
    BY <1>2, <1>4, <1>5 DEF FirstOnes, NoErrorIn
  <2>5. Accounts(k)'
    BY <1>2, <1>6, <2>2, <2>3, <2>4 DEF Accounts
  <2> QED
    BY <1>1, <1>2, <1>3, <1>4, <2>1, <2>2, <2>5 DEF BatchInv
<1> QED
  BY <1>7, <1>8

\* Every step keeps the invariant.
LEMMA BatchStep ==
  ASSUME TimeoutsAreNumbers, BatchInv, [Batches!Next]_(Batches!vars)
  PROVE  BatchInv'
<1>1. ASSUME NEW i \in DOMAIN flight, NEW got \in BatchStatuses, Batches!Settle(i, got)
      PROVE  BatchInv'
  <2>1. phase = "running"
    BY DEF BatchInv, Untouched
  <2>2. CASE options.parallelExecution
    BY <1>1, <2>1, <2>2, TogetherSettles
  <2>3. CASE ~options.parallelExecution
    <3>1. PICK k \in DOMAIN batch : InTurn(k)
      BY <2>1, <2>3 DEF BatchInv
    <3>2. i = k
      BY <3>1 DEF InTurn
    <3> QED
      BY <1>1, <2>1, <2>3, <3>1, <3>2, TurnStep
  <2> QED
    BY <2>2, <2>3
<1>2. ASSUME NEW i, Batches!Responds(i) PROVE BatchInv'
  BY <1>1, <1>2 DEF Batches!Responds, BatchStatuses, flight
<1>3. ASSUME NEW i, Batches!TimesOut(i) PROVE BatchInv'
  BY <1>1, <1>3 DEF Batches!TimesOut, BatchStatuses, flight
<1>4. CASE UNCHANGED Batches!vars
  <2>1. UNCHANGED <<batch, options, phase, flight, settled, responses, batchAnswer, recorded, elapsed>>
    BY <1>4 DEF Batches!vars, batch, options, phase, flight, settled, responses, batchAnswer, recorded, elapsed
  <2>2. (Untouched' <=> Untouched) /\ (StatusesOK' <=> StatusesOK) /\ (Together' <=> Together)
    BY <2>1 DEF Untouched, StatusesOK, Together
  <2>3. \A m : (Accounts(m)' <=> Accounts(m)) /\ (InTurn(m)' <=> InTurn(m))
    BY <2>1 DEF Accounts, InTurn, FirstOnes, NoErrorIn
  <2> QED
    BY <2>1, <2>2, <2>3 DEF BatchInv
<1> QED
  BY <1>2, <1>3, <1>4, RefuseStep, ExecuteStep, BatchRecordStep, BatchTickStep DEF Batches!Next

\* What the invariant promises.
LEMMA BatchPromises ==
  ASSUME TimeoutsAreNumbers, BatchInv
  PROVE  Batches!BatchIsAccountedFor /\ Batches!TypeOK
<1>1. ASSUME Batches!Answered PROVE Batches!BatchIsAccountedFor
  <2>1. PICK m \in DOMAIN batch : Accounts(m)
    BY <1>1 DEF Batches!Answered, BatchInv, phase, batchAnswer
  <2>2. DOMAIN batch = 1..Len(batch) /\ Len(batch) \in Nat /\ m \in 1..Len(batch) /\ m \in Nat
    BY TimeoutsSum DEF BatchInv
  <2>3. responses = [i \in 1..m |-> i] /\ Len(responses) = m
    BY <2>1, <2>2 DEF Accounts, FirstOnes
  <2>4. Batches!ToSet(responses) = 1..m
    BY <2>3 DEF Batches!ToSet
  <2> DEFINE named(i) == IF batch[i].timeout = 0 THEN DefaultTimeout ELSE batch[i].timeout
             spent == [i \in DOMAIN batch |-> IF i \in Batches!ToSet(responses) THEN named(i) ELSE 0]
  <2>5. \A i \in DOMAIN batch : TimeoutsOf(batch)[i] = named(i)
    BY DEF TimeoutsOf
  <2>6. spent = SpentOn(batch, m)
    BY <2>4, <2>5 DEF SpentOn
  <2>7. Batches!FoldSeq(LAMBDA x, y : x + y, 0, SpentOn(batch, m)) = UpTo(batch, m)
    <3>1. m \in 0..Len(batch) /\ batch \in Seq(Batches!SentRequests)
      BY <2>2 DEF BatchInv
    <3> QED
      BY <3>1, SpentIs, Zenon
  <2>8. Batches!FoldSeq(LAMBDA x, y : x + y, 0, spent) = UpTo(batch, m)
    BY <2>6, <2>7, Zenon
  <2> HIDE DEF spent
  <2>9. IF options.parallelExecution THEN \E i \in DOMAIN batch : elapsed <= named(i)
        ELSE elapsed <= Batches!FoldSeq(LAMBDA x, y : x + y, 0, spent)
    <3>1. CASE options.parallelExecution
      BY <2>1, <2>5, <3>1 DEF Accounts
    <3>2. CASE ~options.parallelExecution
      <4>1. elapsed <= UpTo(batch, m)
        BY <2>1, <3>2 DEF Accounts
      <4> QED
        BY <2>8, <3>2, <4>1, Zenon
    <3> QED
      BY <3>1, <3>2
  <2>10. /\ responses = [i \in 1..Len(responses) |-> i]
         /\ \/ Len(responses) = Len(batch)
            \/ ~options.parallelExecution /\ ~options.continueOnError /\ settled[Len(responses)] >= 400
         /\ ~options.continueOnError /\ ~options.parallelExecution =>
              \A i \in 1..(Len(responses) - 1) : settled[i] < 400
         /\ batchAnswer.success + batchAnswer.errors = Len(responses)
         /\ batchAnswer.hasErrors = (batchAnswer.errors > 0)
    <3>1. responses = [i \in 1..Len(responses) |-> i]
      BY <2>3
    <3>2. /\ \/ m = Len(batch)
             \/ ~options.parallelExecution /\ ~options.continueOnError /\ settled[m] >= 400
          /\ ~options.continueOnError /\ ~options.parallelExecution =>
               \A i \in 1..(m - 1) : settled[i] < 400
          /\ batchAnswer.success + batchAnswer.errors = m
          /\ batchAnswer.hasErrors = (batchAnswer.errors > 0)
      BY <2>1 DEF Accounts, NoErrorIn
    <3> QED
      BY <2>3, <3>1, <3>2, ZenonT(40)
  <2> QED
    BY <2>9, <2>10, Zenon DEF Batches!BatchIsAccountedFor, Batches!Indices, batch, options, settled, responses, batchAnswer, elapsed, spent
<1>2. Batches!BatchIsAccountedFor
  BY <1>1 DEF Batches!BatchIsAccountedFor
<1>3. Batches!TypeOK
  <2>1. DOMAIN flight \subseteq DOMAIN batch /\ DOMAIN settled \subseteq DOMAIN batch
        /\ {responses[i] : i \in DOMAIN responses} \subseteq DOMAIN batch
    <3>1. DOMAIN batch = 1..Len(batch) /\ Len(batch) \in Nat
      BY TimeoutsSum DEF BatchInv
    <3>2. Untouched \/ Together \/ (\E k \in DOMAIN batch : InTurn(k))
          \/ (DOMAIN flight = {} /\ \E m \in DOMAIN batch : FirstOnes(m))
      BY DEF BatchInv, Accounts
    <3>3. CASE Untouched
      BY <3>3 DEF Untouched
    <3>4. CASE Together
      BY <3>4 DEF Together
    <3>5. CASE \E k \in DOMAIN batch : InTurn(k)
      BY <3>1, <3>5 DEF InTurn, FirstOnes
    <3>6. CASE DOMAIN flight = {} /\ \E m \in DOMAIN batch : FirstOnes(m)
      BY <3>1, <3>6 DEF FirstOnes
    <3> QED
      BY <3>2, <3>3, <3>4, <3>5, <3>6
  <2> QED
    BY <2>1 DEF BatchInv, Batches!TypeOK, Batches!ToSet, Batches!Indices, phase, recorded, flight, settled, responses, batch
<1> QED
  BY <1>2, <1>3

\* However the requests of a batch end and in whatever order, its answer accounts for each
\* once and in their order, and it was awaited no longer than its timeouts allow
\* (lib/api/batching/batching-middleware.ts): for any timeouts and sizes of batches.
THEOREM BatchIsAccountedForAlways ==
  ASSUME TimeoutsAreNumbers, MaxBatch \in Nat
  PROVE  Batches!Spec => []Batches!BatchIsAccountedFor
<1>1. Batches!Init => BatchInv
  BY BatchInit
<1>2. BatchInv /\ [Batches!Next]_(Batches!vars) => BatchInv'
  BY BatchStep
<1>3. BatchInv => Batches!BatchIsAccountedFor
  BY BatchPromises
<1> QED
  BY <1>1, <1>2, <1>3, PTL DEF Batches!Spec

\* In the composition the batch takes its own steps only.
LEMMA BatchMoves ==
  ASSUME [MCNext]_all
  PROVE  part' = part /\ (part = "batches" => [Batches!Next]_(Batches!vars))
BY DEF MCNext, all, rest1, Batches!vars, MCPlatforms

\* The same in the composition that MCRequests checks.
THEOREM BatchIsAccountedForComposed ==
  ASSUME TimeoutsAreNumbers, MaxBatch \in Nat
  PROVE  MCSpec => []BatchIsAccountedFor
<1> DEFINE Inv == part = "batches" => BatchInv
<1>1. MCInit => Inv
  BY BatchInit DEF MCInit, MCPlatforms
<1>2. Inv /\ [MCNext]_all => Inv'
  BY BatchMoves, BatchStep
<1>3. Inv => BatchIsAccountedFor
  BY BatchPromises DEF BatchIsAccountedFor
<1> QED
  BY <1>1, <1>2, <1>3, PTL DEF MCSpec

-----------------------------------------------------------------------------
(* The types of the limiters.                                                  *)

\* A window ends a window's length after its first request, a refusal with its window,
\* and the sliding log keeps what it admits.
WindowTyped(window) == window # None => window.reset \in WindowMs .. clock + WindowMs
WindowsTyped ==
  \A c \in Requests : /\ WindowTyped(windows[c])
                      /\ refused[c] # None => refused[c] >= 0
                      /\ Len(kept[c]) <= MaxAttempts

\* A check by the fixed windows.
LEMMA FixedTyped ==
  ASSUME LimiterNone, LimitersInv, WindowsTyped, NEW c \in Requests, Limiters!Fixed(c)
  PROVE  WindowsTyped'
<1>1. /\ clock \in Nat /\ WindowMs \in Nat /\ UNCHANGED <<clock, kept>>
      /\ windows \in [Requests -> Window \cup {None}] /\ refused \in [Requests -> Int \cup {None}]
  BY DEF LimitersInv, LimiterNone, Limiters!Fixed
<1>2. /\ Limiters!Cleaned = [d \in Requests |-> Limiters!Cleaned[d]]
      /\ \A d \in Requests : Limiters!Cleaned[d] = None \/ Limiters!Cleaned[d] = windows[d]
  BY DEF Limiters!Cleaned
<1>3. \A d \in Requests : windows[d] # None => windows[d].reset \in WindowMs .. clock + WindowMs
  BY DEF WindowsTyped, WindowTyped
<1>4. ASSUME NEW d \in Requests PROVE WindowTyped(windows[d])'
  <2>1. \/ windows'[d] = Limiters!Cleaned[d]
        \/ windows'[d] = [count |-> 1, reset |-> clock + WindowMs]
        \/ Limiters!Cleaned[d] # None /\ windows'[d] = [Limiters!Cleaned[d] EXCEPT !.count = @ + 1]
    BY <1>2 DEF Limiters!Fixed, Limiters!NewWindow
  <2>2. CASE windows'[d] = Limiters!Cleaned[d]
    BY <1>1, <1>2, <1>3, <2>2 DEF WindowTyped
  <2>3. CASE windows'[d] = [count |-> 1, reset |-> clock + WindowMs]
    <3>1. windows'[d].reset = clock + WindowMs
      BY <2>3
    <3> QED
      BY <1>1, <3>1 DEF WindowTyped
  <2>4. CASE Limiters!Cleaned[d] # None /\ windows'[d] = [Limiters!Cleaned[d] EXCEPT !.count = @ + 1]
    <3>1. Limiters!Cleaned[d] = windows[d] /\ windows[d] \in Window /\ windows[d] # None
      BY <1>1, <1>2, <2>4
    <3>2. windows'[d].reset = windows[d].reset
      BY <2>4, <3>1 DEF Window
    <3> QED
      BY <1>1, <1>3, <3>1, <3>2 DEF WindowTyped
  <2> QED
    BY <2>1, <2>2, <2>3, <2>4
<1>5. ASSUME NEW d \in Requests PROVE refused'[d] # None => refused'[d] >= 0
  <2>1. CASE d # c
    <3>1. refused'[d] = refused[d]
      BY <1>1, <2>1 DEF Limiters!Fixed
    <3> QED
      BY <3>1 DEF WindowsTyped
  <2>2. CASE d = c
    <3>1. \/ refused'[c] = None
          \/ Limiters!Cleaned[c] # None /\ refused'[c] = windows[c].reset
      BY <1>1 DEF Limiters!Fixed
    <3>2. CASE Limiters!Cleaned[c] # None /\ refused'[c] = windows[c].reset
      <4>1. windows[c] # None /\ windows[c].reset \in WindowMs .. clock + WindowMs
        BY <1>2, <1>3, <3>2
      <4> QED
        BY <1>1, <2>2, <3>2, <4>1
    <3> QED
      BY <2>2, <3>1, <3>2
  <2> QED
    BY <2>1, <2>2
<1> QED
  BY <1>1, <1>4, <1>5 DEF WindowsTyped

\* A check by the sliding log.
LEMMA SlidingTyped ==
  ASSUME LimiterNone, LimitersInv, WindowsTyped, NEW c \in Requests, Limiters!Sliding(c)
  PROVE  WindowsTyped'
<1> DEFINE valid == Limiters!Valid(c)
<1>1. UNCHANGED <<clock, windows, refused>> /\ kept \in [Requests -> Seq(Int)]
  BY DEF Limiters!Sliding, LimitersInv
<1>2. kept' = kept \/ (kept' = [kept EXCEPT ![c] = Append(valid, clock)] /\ ~(Len(valid) >= MaxAttempts))
  BY DEF Limiters!Sliding
<1>3. valid = SubSeq(kept[c], Limiters!Cardinality({i \in DOMAIN kept[c] : kept[c][i] <= clock - WindowMs}) + 1, Len(kept[c]))
  BY DEF Limiters!Valid, Limiters!After
<1>4. Limiters!Cardinality({i \in DOMAIN kept[c] : kept[c][i] <= clock - WindowMs}) \in Nat
  <2> DEFINE old == {i \in DOMAIN kept[c] : kept[c][i] <= clock - WindowMs}
  <2>1. old \in SUBSET (1..Len(kept[c])) /\ Len(kept[c]) \in Nat
    BY <1>1
  <2> HIDE DEF old
  <2>2. IsFiniteSet(old)
    <3>1. IsFiniteSet(1..Len(kept[c]))
      BY <2>1, FS_Interval
    <3> QED
      BY <2>1, <3>1, FS_Subset
  <2>3. Cardinality(old) \in Nat
    BY <2>2, FS_CardinalityType
  <2>4. Limiters!Cardinality(old) \in Nat
    BY <2>3, LimiterCardinality
  <2> QED
    BY <2>4 DEF old
<1>5. valid \in Seq(Int) /\ Len(valid) \in Nat
  <2> DEFINE n == Limiters!Cardinality({i \in DOMAIN kept[c] : kept[c][i] <= clock - WindowMs})
             log == kept[c]
  <2>1. n \in Nat /\ log \in Seq(Int) /\ valid = SubSeq(log, n + 1, Len(log))
    BY <1>1, <1>3, <1>4
  <2> HIDE DEF n, log, valid
  <2>2. SubSeq(log, n + 1, Len(log)) \in Seq(Int) /\ Len(SubSeq(log, n + 1, Len(log))) \in Nat
    BY <2>1
  <2> QED
    BY <2>1, <2>2
<1> HIDE DEF valid
<1>6. ASSUME NEW d \in Requests PROVE Len(kept'[d]) <= MaxAttempts
  <2>1. CASE kept'[d] = kept[d]
    BY <2>1 DEF WindowsTyped
  <2>2. CASE kept'[d] = Append(valid, clock) /\ ~(Len(valid) >= MaxAttempts)
    <3>1. Len(kept'[d]) = Len(valid) + 1
      BY <1>5, <2>2
    <3> QED
      BY <1>5, <2>2, <3>1 DEF LimiterNone
  <2> QED
    BY <1>1, <1>2, <2>1, <2>2
<1> QED
  BY <1>1, <1>6 DEF WindowsTyped, WindowTyped

\* Every step.
LEMMA WindowsTypedStep ==
  ASSUME LimiterNone, LimitersInv, WindowsTyped, [Limiters!Next]_(Limiters!vars)
  PROVE  WindowsTyped'
<1>1. CASE Limiters!Tick
  <2>1. clock' = clock + 1 /\ clock \in Nat /\ WindowMs \in Nat /\ UNCHANGED <<windows, refused, kept>>
    BY <1>1 DEF Limiters!Tick, LimitersInv, LimiterNone
  <2>2. \A c \in Requests : WindowTyped(windows[c])'
    BY <2>1 DEF WindowsTyped, WindowTyped
  <2> QED
    BY <2>1, <2>2 DEF WindowsTyped
<1>2. CASE UNCHANGED Limiters!vars
  BY <1>2 DEF Limiters!vars, WindowsTyped, WindowTyped
<1> QED
  BY <1>1, <1>2, FixedTyped, SlidingTyped DEF Limiters!Next

\* There are no windows at the start.
LEMMA WindowsTypedStart ==
  ASSUME LimiterNone, Limiters!Init
  PROVE  WindowsTyped
BY DEF Limiters!Init, WindowsTyped, WindowTyped, LimiterNone

\* The types follow.
LEMMA LimitersTypes ==
  ASSUME LimiterNone, LimitersInv, WindowsTyped
  PROVE  Limiters!TypeOK
<1>1. \A c \in Requests : windows[c] # None => /\ windows[c].count \in 1..MaxAttempts
                                               /\ windows[c].reset \in WindowMs .. clock + WindowMs
  BY DEF LimitersInv, Window, WindowsTyped, WindowTyped
<1>2. ASSUME NEW c \in Requests PROVE Len(kept[c]) \in 0..MaxAttempts
  <2>1. Len(kept[c]) \in Nat /\ Len(kept[c]) <= MaxAttempts
    BY DEF LimitersInv, WindowsTyped
  <2> QED
    BY <2>1 DEF LimiterNone
<1> QED
  BY <1>1, <1>2 DEF Limiters!TypeOK, LimitersInv, WindowsTyped

-----------------------------------------------------------------------------
(* The types of the cache factory.                                             *)

\* Metrics are kept of configurations.
MetricsTyped == metrics \subseteq CacheConfigs

\* Every step.
LEMMA MetricsTypedStep ==
  ASSUME FactoryNone, FactoryInv, MetricsTyped, [Factory!Next]_(Factory!vars)
  PROVE  MetricsTyped'
<1>1. ASSUME NEW c \in Requests, Factory!MetricsRead(c) PROVE MetricsTyped'
  <2>1. creations[c] \in Creation
    BY <1>1 DEF Factory!MetricsRead, FactoryInv, FactoryShapes
  <2>2. creations[c].config \in CacheConfigs
    BY <2>1 DEF Creation
  <2> QED
    BY <1>1, <2>2 DEF Factory!MetricsRead, MetricsTyped
<1>2. metrics' \in {metrics, {}} => MetricsTyped'
  BY DEF MetricsTyped
<1>3. \/ \E c \in Requests : Factory!MetricsRead(c)
      \/ metrics' \in {metrics, {}}
  BY DEF Factory!Next, Factory!vars, Factory!CreatesInMemory, Factory!Connects, Factory!ConnectReturns,
    Factory!ConnectFails, Factory!ClearInstances, Factory!Forget, Factory!DisposeAll, Factory!DisposeReturns,
    Factory!RedisComesOrGoes, Factory!Disconnects
<1> QED
  BY <1>1, <1>2, <1>3

\* The types follow.
LEMMA FactoryTypes ==
  ASSUME FactoryInv, MetricsTyped
  PROVE  Factory!TypeOK
BY DEF FactoryInv, FactoryShapes, Listing, MetricsTyped, Factory!TypeOK

-----------------------------------------------------------------------------
(* The types of the Redis cache.                                               *)

\* What is stored is dropped later than now, and a set asks for some time.
Ahead == \A k \in RedisKeys : store[k] # None => store[k].dropAt > time
SetsLast(q) == q.op = "set" => q.ttl > 0
AllSetsLast == \A c \in Requests : redisCalls[c] # None => SetsLast(redisCalls[c])
ConnectionTyped ==
  /\ status \in {"wait", "connecting", "ready", "closed", "end"}
  /\ isConnecting \in BOOLEAN /\ client \in BOOLEAN

RedisTyped == Ahead /\ AllSetsLast /\ ConnectionTyped

\* A call keeps what it asks for at each step, and when it is sent.
LEMMA KeepsAsking ==
  ASSUME NEW q, IsRedisCall(q), SetsLast(q), NEW step
  PROVE  SetsLast(Redis!Sent(q)) /\ SetsLast([q EXCEPT !.step = step])
<1>1. PICK op \in RedisOps, ttl \in Nat, end \in Nat, old \in RedisSteps : \E ks, reply :
      q = [op |-> op, keys |-> ks, ttl |-> ttl, expiresAt |-> end, reply |-> reply, step |-> old]
  BY DEF IsRedisCall
<1>2. PICK ks, reply :
      q = [op |-> op, keys |-> ks, ttl |-> ttl, expiresAt |-> end, reply |-> reply, step |-> old]
  BY <1>1
<1>3. q.op = op /\ q.ttl = ttl
  BY <1>2
<1> DEFINE there == [q EXCEPT !.step = step]
<1>4. there = [op |-> op, keys |-> ks, ttl |-> ttl, expiresAt |-> end, reply |-> reply, step |-> step]
  BY <1>2
<1> HIDE DEF there
<1>5. there.op = op /\ there.ttl = ttl
  BY <1>4
<1> DEFINE dropped == Redis!Sent(q)
           last == IF op = "set" THEN time + ttl ELSE end
<1>6. dropped = [op |-> op, keys |-> ks, ttl |-> ttl, expiresAt |-> last, reply |-> reply, step |-> "runs"]
  BY <1>2 DEF Redis!Sent
<1> HIDE DEF dropped, last
<1>7. dropped.op = op /\ dropped.ttl = ttl
  BY <1>6
<1> QED
  BY <1>3, <1>5, <1>7 DEF SetsLast, dropped, there

\* One call moves, and the others stay.
LEMMA OneMoves ==
  ASSUME RedisInv, AllSetsLast, NEW c \in Requests, NEW new, new = None \/ SetsLast(new),
         redisCalls' = [redisCalls EXCEPT ![c] = new]
  PROVE  AllSetsLast'
<1>1. \A d \in Requests : redisCalls'[d] = redisCalls[d] \/ redisCalls'[d] = new
  BY DEF RedisInv, RedisCallsOK
<1> QED
  BY <1>1 DEF AllSetsLast, SetsLast

\* An operation begins.
LEMMA BeginsTyped ==
  ASSUME RedisNone, RedisInv, RedisTyped, NEW c \in Requests, NEW op \in RedisOps, NEW ks, NEW ttl \in Nat,
         op = "set" => ttl > 0, Redis!Begins(c, Redis!Call(op, ks, ttl))
  PROVE  RedisTyped'
<1> DEFINE q == Redis!Call(op, ks, ttl)
           waits == [q EXCEPT !.step = "connect"]
<1>1. q = [op |-> op, keys |-> ks, ttl |-> ttl, expiresAt |-> 0, reply |-> None, step |-> "runs"]
  BY DEF Redis!Call
<1> HIDE DEF q
<1>2. IsRedisCall(q) /\ q.op = op /\ q.ttl = ttl
  BY <1>1, 0 \in Nat, "runs" \in RedisSteps DEF IsRedisCall, RedisSteps
<1>3. SetsLast(q)
  BY <1>2 DEF SetsLast
<1>4. SetsLast(Redis!Sent(q)) /\ SetsLast(waits)
  BY <1>2, <1>3, KeepsAsking
<1>5. PICK new : SetsLast(new) /\ redisCalls' = [redisCalls EXCEPT ![c] = new]
  BY <1>4 DEF Redis!Begins, q
<1>6. AllSetsLast'
  BY <1>5, OneMoves DEF RedisTyped
<1>7. time' = time /\ store' = store /\ ConnectionTyped'
  BY DEF Redis!Begins, RedisTyped, ConnectionTyped
<1> QED
  BY <1>6, <1>7 DEF RedisTyped, Ahead

\* Redis executes a command.
LEMMA RunsTyped ==
  ASSUME RedisNone, RedisInv, RedisTyped, NEW c \in Requests, Redis!Runs(c)
  PROVE  RedisTyped'
<1> DEFINE q == redisCalls[c]
           reply == IF q.op = "get" THEN [k \in q.keys |-> store[k]] ELSE q.reply
           done == [q EXCEPT !.step = "reply", !.reply = reply]
<1>1. q # None /\ RedisCallOK(q) /\ SetsLast(q)
  BY DEF Redis!Runs, Redis!At, RedisInv, RedisCallsOK, RedisTyped, AllSetsLast
<1>2. PICK op \in RedisOps, ttl \in Nat, end \in Nat, step \in RedisSteps : \E ks, old :
        q = [op |-> op, keys |-> ks, ttl |-> ttl, expiresAt |-> end, reply |-> old, step |-> step]
  BY <1>1 DEF RedisCallOK, IsRedisCall
<1>3. PICK ks, old :
        q = [op |-> op, keys |-> ks, ttl |-> ttl, expiresAt |-> end, reply |-> old, step |-> step]
  BY <1>2
<1>4. UNCHANGED <<time, status, isConnecting, client>>
  BY DEF Redis!Runs
<1>5. redisCalls' = [redisCalls EXCEPT ![c] = done]
  BY DEF Redis!Runs
<1>6. store' = [k \in RedisKeys |->
                 IF k \notin q.keys \/ q.op \in {"get", "getMultiple"} THEN store[k]
                 ELSE IF q.op = "set" THEN Redis!Written(ttl, end) ELSE None]
  BY <1>3 DEF Redis!Runs
<1>7. q.op = op /\ q.ttl = ttl
  BY <1>3
<1>8. op = "set" => Redis!Written(ttl, end).dropAt > time
  <2> DEFINE n == Redis!Seconds(ttl) * Second
  <2>1. n \in Nat /\ n >= ttl
    BY RoundedUp DEF RedisNone, Redis!Seconds
  <2>2. Redis!Written(ttl, end).dropAt = time + n
    BY DEF Redis!Written
  <2> HIDE DEF n
  <2> QED
    BY <1>1, <1>7, <2>1, <2>2 DEF SetsLast, RedisInv
<1> HIDE DEF q
<1>9. Ahead'
  BY <1>4, <1>6, <1>7, <1>8 DEF Ahead, RedisTyped
<1> HIDE DEF reply
<1>10. done = [op |-> op, keys |-> ks, ttl |-> ttl, expiresAt |-> end, reply |-> reply, step |-> "reply"]
  <2> DEFINE half == [q EXCEPT !.step = "reply"]
  <2>1. half = [op |-> op, keys |-> ks, ttl |-> ttl, expiresAt |-> end, reply |-> old, step |-> "reply"]
    BY <1>3
  <2>2. done = [half EXCEPT !.reply = reply]
    BY <1>3
  <2> HIDE DEF done, half
  <2> QED
    BY <2>1, <2>2
<1> HIDE DEF done
<1>11. done.op = op /\ done.ttl = ttl
  BY <1>10
<1>12. SetsLast(done)
  BY <1>1, <1>7, <1>11 DEF SetsLast
<1>13. AllSetsLast'
  BY <1>5, <1>12, OneMoves DEF RedisTyped
<1> QED
  BY <1>4, <1>9, <1>13 DEF RedisTyped, ConnectionTyped

\* The connection changes, and calls are sent, fail or are sent again.
LEMMA ConnectionTypedStep ==
  ASSUME RedisNone, RedisInv, RedisTyped,
         \/ Redis!Ready \/ Redis!ConnectFails \/ Redis!Reconnects \/ Redis!Disconnect
         \/ \E cs \in SUBSET Redis!At("reply") : Redis!Lost(cs)
  PROVE  RedisTyped'
<1>1. UNCHANGED <<time, store>> /\ ConnectionTyped'
  BY DEF RedisTyped, ConnectionTyped, Redis!Ready, Redis!ConnectFails, Redis!Reconnects, Redis!Disconnect,
    Redis!Lost, Redis!Closed
<1>2. ASSUME NEW c \in Requests, redisCalls[c] # None
      PROVE  IsRedisCall(redisCalls[c]) /\ SetsLast(redisCalls[c])
  BY <1>2 DEF RedisInv, RedisCallsOK, RedisCallOK, RedisTyped, AllSetsLast
<1>3. \A c \in Requests : redisCalls'[c] # None =>
        \/ redisCalls'[c] = redisCalls[c]
        \/ /\ redisCalls[c] # None
           /\ \/ redisCalls'[c] = Redis!Sent(redisCalls[c])
              \/ redisCalls'[c] = [redisCalls[c] EXCEPT !.step = "runs"]
  BY DEF Redis!Ready, Redis!ConnectFails, Redis!Reconnects, Redis!Disconnect, Redis!Lost, Redis!Fail, Redis!At
<1>4. AllSetsLast'
  <2> SUFFICES ASSUME NEW c \in Requests, redisCalls'[c] # None PROVE SetsLast(redisCalls'[c])
    BY DEF AllSetsLast, SetsLast
  <2>1. CASE redisCalls'[c] = redisCalls[c]
    BY <1>2, <2>1
  <2>2. CASE redisCalls[c] # None
    <3>1. SetsLast(Redis!Sent(redisCalls[c])) /\ SetsLast([redisCalls[c] EXCEPT !.step = "runs"])
      BY <1>2, <2>2, KeepsAsking
    <3> QED
      BY <1>2, <1>3, <2>2, <3>1
  <2> QED
    BY <1>3, <2>1, <2>2
<1> QED
  BY <1>1, <1>4 DEF RedisTyped, Ahead

\* Every step.
LEMMA RedisTypedStep ==
  ASSUME RedisNone, 0 \notin Ttls, RedisInv, RedisTyped, [Redis!Next]_(Redis!vars)
  PROVE  RedisTyped'
<1>1. ASSUME NEW c \in Requests,
             \/ \E k \in RedisKeys : Redis!Get(c, k) \/ Redis!Delete(c, k)
             \/ \E k \in RedisKeys, t \in Ttls : Redis!Set(c, k, t)
             \/ \E t \in Ttls : Redis!SetMultiple(c, RedisKeys, t)
             \/ Redis!GetMultiple(c, RedisKeys) \/ Redis!Clear(c)
      PROVE  RedisTyped'
  <2>1. 0 \in Nat /\ \A t \in Ttls : t \in Nat /\ t > 0
    BY DEF RedisNone
  <2>2. \/ \E op \in RedisOps \ {"set"} : \E ks : Redis!Begins(c, Redis!Call(op, ks, 0))
        \/ \E t \in Ttls : \E ks : Redis!Begins(c, Redis!Call("set", ks, t))
    BY <1>1 DEF Redis!Get, Redis!Delete, Redis!Set, Redis!SetMultiple, Redis!GetMultiple,
      Redis!Clear, RedisOps
  <2>3. CASE \E op \in RedisOps \ {"set"} : \E ks : Redis!Begins(c, Redis!Call(op, ks, 0))
    BY <2>1, <2>3, BeginsTyped
  <2>4. CASE \E t \in Ttls : \E ks : Redis!Begins(c, Redis!Call("set", ks, t))
    BY <2>1, <2>4, BeginsTyped, "set" \in RedisOps DEF RedisOps
  <2> QED
    BY <2>2, <2>3, <2>4
<1>2. ASSUME NEW c \in Requests, Redis!Returns(c) \/ Redis!CommandFails(c) PROVE RedisTyped'
  <2>1. UNCHANGED <<time, store, status, isConnecting, client>>
    BY <1>2 DEF Redis!Returns, Redis!CommandFails
  <2>2. AllSetsLast'
    <3>1. CASE Redis!CommandFails(c)
      BY <3>1 DEF Redis!CommandFails, Redis!Fail, RedisTyped, AllSetsLast, SetsLast
    <3>2. CASE Redis!Returns(c)
      <4>1. PICK ks : \/ redisCalls' = [redisCalls EXCEPT ![c] = None]
                      \/ redisCalls' = [redisCalls EXCEPT ![c] = Redis!Call("delete", ks, 0)]
        BY <3>2 DEF Redis!Returns
      <4>2. SetsLast(Redis!Call("delete", ks, 0))
        BY DEF SetsLast, Redis!Call
      <4> QED
        BY <4>1, <4>2, OneMoves DEF RedisTyped
    <3> QED
      BY <1>2, <3>1, <3>2
  <2> QED
    BY <2>1, <2>2 DEF RedisTyped, Ahead, ConnectionTyped
<1>3. CASE Redis!Tick
  <2>1. UNCHANGED <<status, isConnecting, client, redisCalls>>
    BY <1>3 DEF Redis!Tick
  <2>2. Ahead'
    <3>1. time' = time + 1 /\ time \in Nat
      BY <1>3 DEF Redis!Tick, RedisInv
    <3>2. store' = [k \in RedisKeys |-> IF store[k] # None /\ store[k].dropAt <= time' THEN None ELSE store[k]]
      BY <1>3 DEF Redis!Tick
    <3>3. \A k \in RedisKeys : store[k] # None => store[k].dropAt \in Nat
      BY DEF RedisInv, StoreOK, RedisEntry
    <3> QED
      BY <3>1, <3>2, <3>3 DEF Ahead
  <2> QED
    BY <2>1, <2>2 DEF RedisTyped, AllSetsLast, SetsLast, ConnectionTyped
<1>4. CASE UNCHANGED Redis!vars
  BY <1>4 DEF Redis!vars, RedisTyped, Ahead, AllSetsLast, SetsLast, ConnectionTyped
<1>5. CASE \/ \E cs \in SUBSET Redis!At("reply") : Redis!Lost(cs)
           \/ Redis!Ready \/ Redis!ConnectFails \/ Redis!Reconnects \/ Redis!Disconnect
  BY <1>5, ConnectionTypedStep
<1> QED
  BY <1>1, <1>2, <1>3, <1>4, <1>5, RunsTyped DEF Redis!Next

\* Redis is empty at the start.
LEMMA RedisTypedStart ==
  ASSUME Redis!Init
  PROVE  RedisTyped
BY DEF Redis!Init, RedisTyped, Ahead, AllSetsLast, ConnectionTyped

\* The types follow.
LEMMA RedisTypes ==
  ASSUME RedisNone, RedisInv, RedisTyped
  PROVE  Redis!TypeOK
<1>1. \A k \in RedisKeys : store[k] # None => store[k].expiresAt \in Nat /\ store[k].dropAt > time
  BY DEF RedisInv, StoreOK, RedisEntry, RedisTyped, Ahead
<1>2. ASSUME NEW c \in Requests, redisCalls[c] # None PROVE redisCalls[c].step \in {"connect", "runs", "reply"}
  BY <1>2 DEF RedisInv, RedisCallsOK, RedisCallOK, IsRedisCall, RedisSteps
<1> QED
  BY <1>1, <1>2 DEF Redis!TypeOK, Redis!Held, RedisTyped, ConnectionTyped

-----------------------------------------------------------------------------
(* The types of every part, in MCRequests' composition.                        *)

\* The parts of this module with what their types need.
PartsTyped ==
  /\ GatewayInv /\ OrderInv
  /\ part \in {"fixed windows", "sliding log"} => LimitersInv /\ WindowsTyped
  /\ part = "batches" => BatchInv
  /\ part = "redis" => RedisInv /\ RedisTyped
  /\ part = "factory" => FactoryInv /\ MetricsTyped
  /\ part = "invalidation" => CacheInv
  /\ part = "app state" => StateInv

\* What their theorems assume, and that what is stored in Redis is to last.
PartsGiven ==
  /\ LimiterNone /\ TimeoutsAreNumbers /\ MaxBatch \in Nat
  /\ RedisNone /\ 0 \notin Ttls
  /\ FactoryNone /\ CacheNone /\ StateNone

\* The gateway moves by its own steps.
LEMMA GatewayMoves == [MCNext]_all => [Next]_vars
  BY DEF MCNext, all

\* They start so,
LEMMA PartsTypedStart ==
  ASSUME PartsGiven, MCInit
  PROVE  PartsTyped
<1>1. LimiterNone /\ MaxBatch \in Nat /\ RedisNone /\ FactoryNone /\ CacheNone
  BY DEF PartsGiven
<1>2. /\ Init
      /\ part \in {"fixed windows", "sliding log"} => Limiters!Init
      /\ part = "batches" => Batches!Init
      /\ part = "redis" => Redis!Init
      /\ part = "factory" => Factory!Init
      /\ part = "invalidation" => Invalidation!Init
      /\ part = "app state" => State!Init
  BY DEF MCInit, MCPlatforms
<1>3. GatewayInv /\ OrderInv
  BY <1>2, InvInit, OrderInit
<1>4. part \in {"fixed windows", "sliding log"} => LimitersInv /\ WindowsTyped
  BY <1>1, <1>2, LimitersStart, WindowsTypedStart
<1>5. part = "batches" => BatchInv
  BY <1>1, <1>2, BatchInit
<1>6. part = "redis" => RedisInv /\ RedisTyped
  BY <1>1, <1>2, RedisStarts, RedisTypedStart
<1>7. Factory!Init => MetricsTyped
  BY DEF Factory!Init, MetricsTyped
<1>8. part = "factory" => FactoryInv /\ MetricsTyped
  BY <1>1, <1>2, <1>7, FactoryStarts
<1>9. part = "invalidation" => CacheInv
  BY <1>1, <1>2, CacheStarts
<1>10. part = "app state" => StateInv
  BY <1>2, StateStarts
<1> QED
  BY <1>3, <1>4, <1>5, <1>6, <1>8, <1>9, <1>10 DEF PartsTyped

\* and stay so in every step of the composition.
LEMMA PartsTypedStep ==
  ASSUME PartsGiven, PartsTyped, [MCNext]_all
  PROVE  PartsTyped'
<1>1. /\ LimiterNone /\ TimeoutsAreNumbers /\ RedisNone /\ 0 \notin Ttls
      /\ FactoryNone /\ CacheNone /\ StateNone
  BY DEF PartsGiven
<1>2. part' = part
  BY PartStays
<1>3. GatewayInv' /\ OrderInv'
  BY GatewayMoves, InvStep, OrderStep DEF PartsTyped
<1>4. part \in {"fixed windows", "sliding log"} => LimitersInv' /\ WindowsTyped'
  BY <1>1, LimitersMove, LimitersStep, WindowsTypedStep DEF PartsTyped
<1>5. part = "batches" => BatchInv'
  BY <1>1, BatchMoves, BatchStep DEF PartsTyped
<1>6. part = "redis" => RedisInv' /\ RedisTyped'
  BY <1>1, RedisMoves, RedisStep, RedisTypedStep DEF PartsTyped
<1>7. part = "factory" => FactoryInv' /\ MetricsTyped'
  BY <1>1, FactoryMoves, FactoryStep, MetricsTypedStep DEF PartsTyped
<1>8. part = "invalidation" => CacheInv'
  BY <1>1, InvalidationMoves, TypesStep, StaleStep DEF PartsTyped, CacheInv
<1>9. part = "app state" => StateInv'
  BY <1>1, StateMoves, StateStep DEF PartsTyped
<1> QED
  BY <1>2, <1>3, <1>4, <1>5, <1>6, <1>7, <1>8, <1>9 DEF PartsTyped

\* Their types follow.
LEMMA PartsTypes ==
  ASSUME PartsGiven, PartsTyped
  PROVE  /\ TypeOK
         /\ part \in {"fixed windows", "sliding log"} => Limiters!TypeOK
         /\ part = "batches" => Batches!TypeOK
         /\ part = "redis" => Redis!TypeOK
         /\ part = "factory" => Factory!TypeOK
         /\ part = "invalidation" => Invalidation!TypeOK
         /\ part = "app state" => State!TypeOK
<1>1. LimiterNone /\ TimeoutsAreNumbers /\ RedisNone
  BY DEF PartsGiven
<1>2. TypeOK
  BY GatewayTypes DEF PartsTyped
<1>3. part \in {"fixed windows", "sliding log"} => Limiters!TypeOK
  BY <1>1, LimitersTypes DEF PartsTyped
<1>4. part = "batches" => Batches!TypeOK
  BY <1>1, BatchPromises DEF PartsTyped
<1>5. part = "redis" => Redis!TypeOK
  BY <1>1, RedisTypes DEF PartsTyped
<1>6. part = "factory" => Factory!TypeOK
  BY FactoryTypes DEF PartsTyped
<1>7. part = "invalidation" => Invalidation!TypeOK
  BY DEF PartsTyped, CacheInv, CacheTypes
<1>8. part = "app state" => State!TypeOK
  BY DEF PartsTyped, StateInv
<1> QED
  BY <1>2, <1>3, <1>4, <1>5, <1>6, <1>7, <1>8

\* Which parts there are.
PartNames ==
  {"gateway", "fixed windows", "sliding log", "settings", "batches", "redis", "factory",
   "invalidation", "unified oauth", "retries", "app state", "auth status", "session",
   "pages", "polls", "queries"} \cup MCPlatforms

\* In the gateway, and in each component that MCRequests composes with it, every variable
\* has its type in every reachable state: for any sets and any bounds.
THEOREM TypesOKComposed ==
  ASSUME PartsGiven, ServicesGiven, HooksGiven
  PROVE  MCSpec => []TypesOK
<1> DEFINE Inv == part \in PartNames /\ PartsTyped /\ ServicesTyped /\ HooksTyped
<1>1. MCInit => Inv
  <2>1. MCInit => part \in PartNames
    BY DEF MCInit, PartNames
  <2> QED
    BY <2>1, PartsTypedStart, ServicesTypedStart, HooksTypedStart
<1>2. Inv /\ [MCNext]_all => Inv'
  BY PartStays, PartsTypedStep, ServicesTypedStep, HooksTypedStep
<1>3. Inv => TypesOK
  <2> SUFFICES ASSUME part \in PartNames, PartsTyped, ServicesTyped, HooksTyped PROVE TypesOK
    OBVIOUS
  <2>1. CASE part \in MCPlatforms
    <3>1. \A p \in MCPlatforms : part = p => Limits(p)!TypeOK
      BY ServicesTypes
    <3> QED
      BY <2>1, <3>1 DEF TypesOK, MCPlatforms
  <2>2. CASE part = "gateway"
    BY <2>2, PartsTypes, Zenon DEF TypesOK, MCPlatforms
  <2>3. CASE part = "fixed windows"
    BY <2>3, PartsTypes, Zenon DEF TypesOK, MCPlatforms
  <2>4. CASE part = "sliding log"
    BY <2>4, PartsTypes, Zenon DEF TypesOK, MCPlatforms
  <2>5. CASE part = "settings"
    BY <2>5, ServicesTypes, Zenon DEF TypesOK, MCPlatforms
  <2>6. CASE part = "batches"
    BY <2>6, PartsTypes, Zenon DEF TypesOK, MCPlatforms
  <2>7. CASE part = "redis"
    BY <2>7, PartsTypes, Zenon DEF TypesOK, MCPlatforms
  <2>8. CASE part = "factory"
    BY <2>8, PartsTypes, Zenon DEF TypesOK, MCPlatforms
  <2>9. CASE part = "invalidation"
    BY <2>9, PartsTypes, Zenon DEF TypesOK, MCPlatforms
  <2>10. CASE part = "unified oauth"
    BY <2>10, ServicesTypes, Zenon DEF TypesOK, MCPlatforms
  <2>11. CASE part = "retries"
    BY <2>11, ServicesTypes, Zenon DEF TypesOK, MCPlatforms
  <2>12. CASE part = "app state"
    BY <2>12, PartsTypes, Zenon DEF TypesOK, MCPlatforms
  <2>13. CASE part = "auth status"
    BY <2>13, HooksTypes, Zenon DEF TypesOK, MCPlatforms
  <2>14. CASE part = "session"
    BY <2>14, HooksTypes, Zenon DEF TypesOK, MCPlatforms
  <2>15. CASE part = "pages"
    BY <2>15, HooksTypes, Zenon DEF TypesOK, MCPlatforms
  <2>16. CASE part = "polls"
    BY <2>16, HooksTypes, Zenon DEF TypesOK, MCPlatforms
  <2>17. CASE part = "queries"
    BY <2>17, HooksTypes, Zenon DEF TypesOK, MCPlatforms
  <2> QED
    BY <2>1, <2>2, <2>3, <2>4, <2>5, <2>6, <2>7, <2>8, <2>9, <2>10, <2>11, <2>12, <2>13, <2>14, <2>15, <2>16, <2>17 DEF PartNames
<1> HIDE DEF Inv
<1> QED
  BY <1>1, <1>2, <1>3, PTL DEF MCSpec
=============================================================================
