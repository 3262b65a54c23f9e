------------------------- MODULE ToolGateway_proofs -------------------------
(***************************************************************************)
(* Theorems about ToolGateway for every value of its constants.  They rest *)
(* on one inductive invariant, GatewayInv, and for the limit of the cache  *)
(* on OrderInv, about the order of its keys.                               *)
(***************************************************************************)
EXTENDS ToolGateway, KeyOrders_proofs

BreakersOK ==
  /\ breakers \in [Tools -> [failures : Nat, lastFailure : 0..MaxNow, state : Breaker!State]]
  /\ OpenAtThreshold

CallsOK ==
  /\ call \in [Requests -> Call]
  /\ \A c \in Requests : call[c].since <= now
  /\ \A c \in Requests : call[c].pc # "done" => call[c].reply = "none"

\* What the cache holds is data, and expires its time to live after it came.
Good(e) ==
  /\ e \in Entry
  /\ e.data.ok
  /\ e.expiresAt = e.data.at + TtlOf[e.data.input]

EntriesOK ==
  /\ entries = [k \in Keys |-> entries[k]]
  /\ \A k \in Keys : entries[k] # NoEntry => Good(entries[k])

\* A request in flight for a tool that is shut off was let through before the
\* tool failed for the last time.
InFlightIsEarlier ==
  \A c \in Requests :
    call[c].pc # "done" /\ breakers[ToolOfCall(c)].state = "open" =>
      call[c].since <= breakers[ToolOfCall(c)].lastFailure

GatewayInv ==
  /\ now \in 0..MaxNow
  /\ BreakersOK
  /\ CallsOK
  /\ EntriesOK
  /\ InFlightIsEarlier

\* An entry of the cache is not the mark of an empty place.
LEMMA EntryIsNotNone ==
  ASSUME NEW e \in Entry
  PROVE  e # NoEntry
<1>1. 0..MaxNow \subseteq Nat
  BY GatewayAssumption
<1>2. e \in [data : [input : Inputs, ok : BOOLEAN, at : Nat], expiresAt : Nat]
  BY <1>1 DEF Entry, Answer
<1> QED
  BY <1>2, GatewayAssumption

\* Before the first request nothing is known and nothing is in flight.
LEMMA InvInit == Init => GatewayInv
<1> SUFFICES ASSUME Init PROVE GatewayInv
  OBVIOUS
<1> USE GatewayAssumption
<1>1. now \in 0..MaxNow
  BY DEF Init
<1>2. BreakersOK
  BY DEF Init, BreakersOK, OpenAtThreshold, Breaker!OpenAtThreshold, Breaker!BreakerInit,
         Breaker!NoBreaker, Breaker!State
<1>3. CallsOK
  <2>1. (CHOOSE i \in Inputs : TRUE) \in Inputs
    OBVIOUS
  <2> QED
    BY <2>1 DEF Init, CallsOK, Call
<1>4. EntriesOK
  BY DEF Init, EntriesOK, Cache!CacheInit
<1>5. InFlightIsEarlier
  BY DEF Init, InFlightIsEarlier
<1> QED
  BY <1>1, <1>2, <1>3, <1>4, <1>5 DEF GatewayInv

-----------------------------------------------------------------------------
(* The breakers. *)

\* canExecuteRequest keeps the breakers' shape, and leaves a breaker as it is
\* or opens its trial period.
LEMMA CanExecuteKeeps ==
  ASSUME GatewayInv, NEW t \in Tools, Breaker!CanExecuteRequest(t)
  PROVE  /\ BreakersOK'
         /\ \A u \in Tools : breakers'[u] = breakers[u] \/ breakers'[u].state # "open"
         /\ Breaker!Admits(t) <=> breakers'[t].state # "open"
<1> USE GatewayAssumption
<1> DEFINE b == breakers[t]
           Record == [failures : Nat, lastFailure : 0..MaxNow, state : Breaker!State]
<1>1. b \in Record /\ breakers \in [Tools -> Record]
  BY DEF GatewayInv, BreakersOK
<1>2. CASE b.state = "open" /\ now - b.lastFailure > Timeout
  <2>1. Breaker!Checked(t) = [b EXCEPT !.state = "half-open", !.failures = 0]
    BY <1>2 DEF Breaker!Checked
  <2>2. breakers' = [breakers EXCEPT ![t] = [b EXCEPT !.state = "half-open", !.failures = 0]]
    BY <2>1 DEF Breaker!CanExecuteRequest
  <2>3. [b EXCEPT !.state = "half-open", !.failures = 0] \in Record
    BY <1>1 DEF Breaker!State
  <2>4. breakers' \in [Tools -> Record]
    BY <1>1, <2>2, <2>3
  <2>5. breakers'[t].state = "half-open" /\ breakers'[t].failures = 0
    BY <1>1, <2>2
  <2>6. \A u \in Tools : u # t => breakers'[u] = breakers[u]
    BY <1>1, <2>2
  <2> QED
    BY <2>1, <2>4, <2>5, <2>6, <1>1
    DEF GatewayInv, BreakersOK, OpenAtThreshold, Breaker!OpenAtThreshold, Breaker!Admits
<1>3. CASE ~(b.state = "open" /\ now - b.lastFailure > Timeout)
  <2>1. Breaker!Checked(t) = b
    BY <1>3 DEF Breaker!Checked
  <2>2. breakers' = breakers
    BY <1>1, <2>1 DEF Breaker!CanExecuteRequest
  <2> QED
    BY <2>1, <2>2 DEF GatewayInv, BreakersOK, OpenAtThreshold, Breaker!OpenAtThreshold, Breaker!Admits
<1> QED
  BY <1>2, <1>3

\* A failure keeps the breakers' shape and is remembered as the last one.
LEMMA FailureKeeps ==
  ASSUME GatewayInv, NEW t \in Tools, Breaker!RecordRequestFailure(t)
  PROVE  /\ BreakersOK'
         /\ breakers'[t].lastFailure = now
         /\ breakers[t].state = "open" => breakers'[t].state = "open"
         /\ \A u \in Tools : u # t => breakers'[u] = breakers[u]
<1> USE GatewayAssumption
<1> DEFINE b == breakers[t]
           Record == [failures : Nat, lastFailure : 0..MaxNow, state : Breaker!State]
           n == b.failures + 1
           s == IF n >= Threshold THEN "open" ELSE b.state
<1>1. b \in Record /\ breakers \in [Tools -> Record] /\ now \in 0..MaxNow
  BY DEF GatewayInv, BreakersOK
<1>2. breakers' = [breakers EXCEPT ![t] = [b EXCEPT !.failures = n, !.lastFailure = now,
                                                    !.state = s]]
  BY <1>1 DEF Breaker!RecordRequestFailure
<1>3. n \in Nat /\ s \in Breaker!State
  BY <1>1 DEF Breaker!State
<1>4. [b EXCEPT !.failures = n, !.lastFailure = now, !.state = s] \in Record
  BY <1>1, <1>3
<1>5. breakers' \in [Tools -> Record]
  BY <1>1, <1>2, <1>4
<1>6. breakers'[t].failures = n /\ breakers'[t].lastFailure = now /\ breakers'[t].state = s
  BY <1>1, <1>2
<1>7. \A u \in Tools : u # t => breakers'[u] = breakers[u]
  BY <1>1, <1>2
<1>8. s = "open" <=> n >= Threshold
  BY <1>1 DEF GatewayInv, BreakersOK, OpenAtThreshold, Breaker!OpenAtThreshold
<1>9. OpenAtThreshold'
  <2> SUFFICES ASSUME NEW u \in Tools
               PROVE  breakers'[u].state = "open" <=> breakers'[u].failures >= Threshold
    BY DEF OpenAtThreshold, Breaker!OpenAtThreshold
  <2> QED
    BY <1>6, <1>7, <1>8 DEF GatewayInv, BreakersOK, OpenAtThreshold, Breaker!OpenAtThreshold
<1> QED
  BY <1>1, <1>5, <1>6, <1>7, <1>8, <1>9
  DEF BreakersOK, GatewayInv, OpenAtThreshold, Breaker!OpenAtThreshold

\* A success forgets the tool's failures.
LEMMA SuccessKeeps ==
  ASSUME GatewayInv, NEW t \in Tools, Breaker!RecordRequestSuccess(t)
  PROVE  /\ BreakersOK'
         /\ breakers'[t].state # "open"
         /\ \A u \in Tools : u # t => breakers'[u] = breakers[u]
<1> USE GatewayAssumption
<1> QED
  BY DEF Breaker!RecordRequestSuccess, Breaker!NoBreaker, Breaker!State, GatewayInv, BreakersOK,
         OpenAtThreshold, Breaker!OpenAtThreshold

-----------------------------------------------------------------------------
(* The cache. *)

\* Reading the cache only removes entries.
LEMMA CacheGetKeeps ==
  ASSUME EntriesOK, NEW key, Cache!Get(key)
  PROVE  EntriesOK'
<1> DEFINE gone == IF key \in Cache!Expired THEN {key} ELSE {}
<1>1. entries' = [k \in Keys |-> IF k \in gone THEN NoEntry ELSE entries[k]]
  BY DEF Cache!Get
<1> HIDE DEF gone
<1> QED
  BY <1>1 DEF EntriesOK

\* Data that came just now is stored with its time to live; whatever makes room
\* for it only removes entries.
LEMMA SetKeeps ==
  ASSUME GatewayInv, NEW i \in Inputs,
         Cache!Set(KeyOf[i], [input |-> i, ok |-> TRUE, at |-> now], TtlOf[i])
  PROVE  EntriesOK'
<1> USE GatewayAssumption
<1> DEFINE key == KeyOf[i]
           data == [input |-> i, ok |-> TRUE, at |-> now]
           ttl == TtlOf[i]
           gone == Cache!Room(IF 10 * Len(order) > 9 * MaxSize THEN Cache!Expired ELSE {})
           left == [k \in Keys |-> IF k \in gone THEN NoEntry ELSE entries[k]]
           new == [data |-> data, expiresAt |-> now + ttl]
<1>1. now \in 0..MaxNow /\ ttl \in Nat \ {0} /\ key \in Keys
  BY DEF GatewayInv
<1>2. entries' = [left EXCEPT ![key] = new]
  BY <1>1 DEF Cache!Set
<1>3. Good(new)
  BY <1>1 DEF Good, Entry, Answer
<1>4. \A k \in Keys : left[k] # NoEntry => Good(left[k])
  BY DEF GatewayInv, EntriesOK
<1> HIDE DEF left, new, key
<1>5. left = [k \in Keys |-> left[k]]
  BY DEF left
<1> QED
  BY <1>1, <1>2, <1>3, <1>4, <1>5 DEF EntriesOK

-----------------------------------------------------------------------------
(* The requests. *)

\* A request that is answered is no longer in flight; the others stay.
LEMMA ReplyKeeps ==
  ASSUME CallsOK, NEW c \in Requests, NEW r \in {"unauthorized", "hit", "unimplemented",
                                                "data", "error", "failed"},
         NEW STATE a, a \in Answer \cup {NoAnswer}, Reply(c, r, a), now' = now, now \in 0..MaxNow
  PROVE  /\ CallsOK'
         /\ call'[c].pc = "done" /\ call'[c].input = call[c].input
         /\ call'[c].reply = r /\ call'[c].answer = a
         /\ \A d \in Requests : d # c => call'[d] = call[d]
<1> USE GatewayAssumption
<1> DEFINE new == [pc |-> "done", input |-> call[c].input, skip |-> FALSE, since |-> 0,
                   reply |-> r, answer |-> a]
<1>1. call[c] \in Call
  BY DEF CallsOK
<1>2. call' = [call EXCEPT ![c] = new]
  BY <1>1 DEF Reply, CallsOK
<1>3. /\ new.pc = "done" /\ new.input = call[c].input /\ new.since = 0
      /\ new.reply = r /\ new.answer = a
  BY <1>1 DEF Call
<1>4. new \in Call
  BY <1>1 DEF Call
<1> HIDE DEF new
<1>5. call' \in [Requests -> Call]
  BY <1>2, <1>4 DEF CallsOK
<1>6. call'[c] = new /\ \A d \in Requests : d # c => call'[d] = call[d]
  BY <1>2 DEF CallsOK
<1>7. \A d \in Requests : /\ call'[d].since <= now'
                          /\ call'[d].pc # "done" => call'[d].reply = "none"
  BY <1>3, <1>6 DEF CallsOK
<1> QED
  BY <1>3, <1>5, <1>6, <1>7 DEF CallsOK

\* A request that goes on keeps all it carries.
LEMMA GoToKeeps ==
  ASSUME CallsOK, NEW c \in Requests, call[c].pc # "done",
         NEW p \in {"lookup", "dispatch", "handler", "compress"},
         GoTo(c, p), now' = now
  PROVE  /\ CallsOK'
         /\ call'[c] = [call[c] EXCEPT !.pc = p]
         /\ \A d \in Requests : /\ call'[d].input = call[d].input
                                /\ call'[d].since = call[d].since
                                /\ call'[d].reply = call[d].reply
                                /\ call'[d].answer = call[d].answer
                                /\ call'[d].pc # "done" => call[d].pc # "done"
<1> DEFINE new == [call[c] EXCEPT !.pc = p]
<1>1. call[c] \in Call
  BY DEF CallsOK
<1>2. call' = [call EXCEPT ![c] = new]
  BY <1>1 DEF GoTo, CallsOK
<1>3. /\ new.pc = p /\ new.input = call[c].input /\ new.since = call[c].since
      /\ new.reply = call[c].reply /\ new.answer = call[c].answer
  BY <1>1 DEF Call
<1>4. new \in Call
  BY <1>1 DEF Call
<1> HIDE DEF new
<1>5. call' \in [Requests -> Call]
  BY <1>2, <1>4 DEF CallsOK
<1>6. call'[c] = new /\ \A d \in Requests : d # c => call'[d] = call[d]
  BY <1>2 DEF CallsOK
<1>7. \A d \in Requests : /\ call'[d].since <= now'
                          /\ call'[d].pc # "done" => call'[d].reply = "none"
  BY <1>3, <1>6 DEF CallsOK
<1> QED
  BY <1>3, <1>5, <1>6, <1>7 DEF CallsOK, new

\* A step that lets no request in, and keeps, closes or freshly fails each
\* breaker, leaves requests in flight for shut tools with earlier starts only.
LEMMA InFlightKeeps ==
  ASSUME GatewayInv,
         \A d \in Requests : /\ call'[d].pc # "done" => call[d].pc # "done"
                             /\ call'[d].pc # "done" => call'[d].input = call[d].input
                             /\ call'[d].pc # "done" => call'[d].since = call[d].since,
         \A u \in Tools : \/ breakers'[u] = breakers[u]
                          \/ breakers'[u].state # "open"
                          \/ breakers'[u].lastFailure = now
  PROVE  InFlightIsEarlier'
<1> SUFFICES ASSUME NEW d \in Requests, call'[d].pc # "done",
                    breakers'[ToolOf[call'[d].input]].state = "open"
             PROVE  call'[d].since <= breakers'[ToolOf[call'[d].input]].lastFailure
  BY DEF InFlightIsEarlier, ToolOfCall
<1> DEFINE t == ToolOf[call[d].input]
<1>1. ToolOf[call'[d].input] = t /\ call'[d].since = call[d].since /\ call[d].pc # "done"
  OBVIOUS
<1>2. t \in Tools
  BY GatewayAssumption DEF GatewayInv, CallsOK, Call
<1>3. call[d].since <= now
  BY DEF GatewayInv, CallsOK
<1>4. breakers[t].state = "open" => call[d].since <= breakers[t].lastFailure
  BY <1>1 DEF GatewayInv, InFlightIsEarlier, ToolOfCall
<1> QED
  BY <1>1, <1>2, <1>3, <1>4

-----------------------------------------------------------------------------
(* The invariant, action by action. *)

\* A request asks for one of the inputs, of one of the tools.
LEMMA ToolOfCallIsTool ==
  ASSUME CallsOK, NEW c \in Requests
  PROVE  call[c].input \in Inputs /\ ToolOfCall(c) \in Tools
BY GatewayAssumption DEF CallsOK, Call, ToolOfCall

\* A request that starts while its tool is shut off is not let in.
LEMMA StartKeeps ==
  ASSUME GatewayInv, NEW c \in Requests, NEW i \in Inputs, NEW skip \in BOOLEAN, Start(c, i, skip)
  PROVE  GatewayInv'
<1> USE GatewayAssumption
<1> DEFINE tool == ToolOf[i]
           in == [pc |-> "session", input |-> i, skip |-> skip, since |-> now,
                  reply |-> "none", answer |-> NoAnswer]
           out == [pc |-> "done", input |-> i, skip |-> FALSE, since |-> 0,
                   reply |-> "blocked", answer |-> NoAnswer]
           new == IF Breaker!Admits(tool) THEN in ELSE out
<1>1. tool \in Tools /\ Breaker!CanExecuteRequest(tool) /\ UNCHANGED <<now, cacheVars>>
  BY DEF Start
<1>2. call' = [call EXCEPT ![c] = new]
  BY DEF Start
<1>3. /\ BreakersOK'
      /\ \A u \in Tools : breakers'[u] = breakers[u] \/ breakers'[u].state # "open"
      /\ Breaker!Admits(tool) <=> breakers'[tool].state # "open"
  BY <1>1, CanExecuteKeeps
<1>4. now \in 0..MaxNow /\ 0 \in 0..MaxNow
  BY DEF GatewayInv
<1>5. in \in Call /\ out \in Call
  BY <1>4 DEF Call
<1>6. /\ new \in Call /\ new.since <= now /\ new.input = i
      /\ new.pc # "done" => new.reply = "none"
  BY <1>4, <1>5
<1>7. new.pc # "done" => breakers'[tool].state # "open"
  BY <1>3
<1> HIDE DEF new, in, out
<1>8. call'[c] = new /\ \A d \in Requests : d # c => call'[d] = call[d]
  BY <1>2 DEF GatewayInv, CallsOK
<1>9. CallsOK'
  <2>1. call' \in [Requests -> Call]
    BY <1>2, <1>6 DEF GatewayInv, CallsOK
  <2>2. \A d \in Requests : /\ call'[d].since <= now'
                            /\ call'[d].pc # "done" => call'[d].reply = "none"
    BY <1>1, <1>6, <1>8 DEF GatewayInv, CallsOK
  <2> QED
    BY <2>1, <2>2 DEF CallsOK
<1>10. InFlightIsEarlier'
  <2> SUFFICES ASSUME NEW d \in Requests, call'[d].pc # "done",
                      breakers'[ToolOf[call'[d].input]].state = "open"
               PROVE  call'[d].since <= breakers'[ToolOf[call'[d].input]].lastFailure
    BY DEF InFlightIsEarlier, ToolOfCall
  <2>1. d # c
    BY <1>6, <1>7, <1>8
  <2>2. call'[d] = call[d] /\ ToolOf[call[d].input] \in Tools
    BY <1>8, <2>1, ToolOfCallIsTool DEF GatewayInv, ToolOfCall
  <2>3. breakers'[ToolOf[call[d].input]] = breakers[ToolOf[call[d].input]]
    BY <1>3, <2>2
  <2> QED
    BY <2>2, <2>3 DEF GatewayInv, InFlightIsEarlier, ToolOfCall
<1>11. EntriesOK' /\ (now \in 0..MaxNow)'
  BY <1>1 DEF cacheVars, GatewayInv, EntriesOK
<1> QED
  BY <1>3, <1>9, <1>10, <1>11 DEF GatewayInv

\* The session check lets a request go on or answers it.
LEMMA ValidateSessionKeeps ==
  ASSUME GatewayInv, NEW c \in Requests, ValidateSession(c)
  PROVE  GatewayInv'
<1>1. UNCHANGED <<now, breakers, cacheVars>> /\ call[c].pc = "session"
  BY DEF ValidateSession
<1>2. BreakersOK' /\ EntriesOK' /\ (now \in 0..MaxNow)'
  BY <1>1 DEF cacheVars, GatewayInv, EntriesOK, BreakersOK, OpenAtThreshold, Breaker!OpenAtThreshold
<1>3. CASE GoTo(c, IF call[c].skip THEN "dispatch" ELSE "lookup")
  <2>1. PICK p \in {"lookup", "dispatch", "handler", "compress"} : GoTo(c, p)
    BY <1>3
  <2>2. CallsOK' /\ InFlightIsEarlier'
    BY <1>1, <2>1, GoToKeeps, InFlightKeeps DEF GatewayInv
  <2> QED
    BY <1>2, <2>2 DEF GatewayInv
<1>4. CASE Reply(c, "unauthorized", NoAnswer)
  <2>1. CallsOK' /\ InFlightIsEarlier'
    BY <1>1, <1>4, ReplyKeeps, InFlightKeeps DEF GatewayInv
  <2> QED
    BY <1>2, <2>1 DEF GatewayInv
<1> QED
  BY <1>3, <1>4 DEF ValidateSession

\* What the cache hands out is an answer.
LEMMA HitIsGood ==
  ASSUME EntriesOK, NEW key \in Keys, Cache!Fresh(key)
  PROVE  /\ Good(entries[key]) /\ entries[key].data \in Answer
         /\ ~(now > entries[key].expiresAt)
<1>1. Good(entries[key])
  BY DEF EntriesOK, Cache!Fresh
<1> QED
  BY <1>1 DEF Good, Entry, Cache!Fresh, Cache!Expired

\* A lookup keeps the invariant, whether it answers or goes on.
LEMMA LookupKeeps ==
  ASSUME GatewayInv, NEW c \in Requests, Lookup(c)
  PROVE  GatewayInv'
<1> DEFINE key == KeyOf[call[c].input]
<1>1. key \in Keys
  BY ToolOfCallIsTool, GatewayAssumption DEF GatewayInv
<1>2. /\ call[c].pc = "lookup" /\ Cache!Get(key) /\ UNCHANGED <<now, breakers>>
      /\ IF Cache!Fresh(key) THEN Reply(c, "hit", entries[key].data) ELSE GoTo(c, "dispatch")
  BY DEF Lookup
<1> HIDE DEF key
<1>3. BreakersOK' /\ (now \in 0..MaxNow)'
  BY <1>2 DEF GatewayInv, BreakersOK, OpenAtThreshold, Breaker!OpenAtThreshold
<1>4. EntriesOK'
  BY <1>2, CacheGetKeeps DEF GatewayInv
<1>5. CASE Cache!Fresh(key)
  <2>1. entries[key].data \in Answer \cup {NoAnswer}
    BY <1>1, <1>5, HitIsGood DEF GatewayInv
  <2>2. CallsOK' /\ InFlightIsEarlier'
    BY <1>2, <1>5, <2>1, ReplyKeeps, InFlightKeeps DEF GatewayInv
  <2> QED
    BY <1>3, <1>4, <2>2 DEF GatewayInv
<1>6. CASE ~Cache!Fresh(key)
  <2>1. CallsOK' /\ InFlightIsEarlier'
    BY <1>2, <1>6, GoToKeeps, InFlightKeeps DEF GatewayInv
  <2> QED
    BY <1>3, <1>4, <2>1 DEF GatewayInv
<1> QED
  BY <1>5, <1>6

\* A missing handler or one that throws fails the tool.
LEMMA FailedReplyKeeps ==
  ASSUME GatewayInv, NEW c \in Requests, NEW r \in {"unimplemented", "failed"},
         Breaker!RecordRequestFailure(ToolOfCall(c)), Reply(c, r, NoAnswer),
         UNCHANGED <<now, cacheVars>>
  PROVE  GatewayInv'
<1>1. ToolOfCall(c) \in Tools
  BY ToolOfCallIsTool DEF GatewayInv
<1>2. /\ BreakersOK'
      /\ breakers'[ToolOfCall(c)].lastFailure = now
      /\ \A u \in Tools : u # ToolOfCall(c) => breakers'[u] = breakers[u]
  BY <1>1, FailureKeeps
<1>3. EntriesOK' /\ (now \in 0..MaxNow)'
  BY DEF cacheVars, GatewayInv, EntriesOK
<1>4. /\ CallsOK'
      /\ call'[c].pc = "done"
      /\ \A d \in Requests : d # c => call'[d] = call[d]
  BY ReplyKeeps DEF GatewayInv
<1>5. InFlightIsEarlier'
  BY <1>2, <1>4, InFlightKeeps
<1> QED
  BY <1>2, <1>3, <1>4, <1>5 DEF GatewayInv

\* So does finding the handler.
LEMMA DispatchKeeps ==
  ASSUME GatewayInv, NEW c \in Requests, Dispatch(c)
  PROVE  GatewayInv'
<1>1. CASE call[c].input \in Unimplemented
  BY <1>1, FailedReplyKeeps DEF Dispatch
<1>2. CASE call[c].input \notin Unimplemented
  <2>1. GoTo(c, "handler") /\ call[c].pc = "dispatch" /\ UNCHANGED <<now, breakers, cacheVars>>
    BY <1>2 DEF Dispatch
  <2>2. BreakersOK' /\ EntriesOK' /\ (now \in 0..MaxNow)'
    BY <2>1 DEF cacheVars, GatewayInv, EntriesOK, BreakersOK, OpenAtThreshold, Breaker!OpenAtThreshold
  <2>3. CallsOK' /\ InFlightIsEarlier'
    BY <2>1, GoToKeeps, InFlightKeeps DEF GatewayInv
  <2> QED
    BY <2>2, <2>3 DEF GatewayInv
<1> QED
  BY <1>1, <1>2

\* So does a handler's answer, which closes its tool's breaker.
LEMMA HandlerReturnsKeeps ==
  ASSUME GatewayInv, NEW c \in Requests, NEW ok \in BOOLEAN, HandlerReturns(c, ok)
  PROVE  GatewayInv'
<1> DEFINE i == call[c].input
           answer == [input |-> i, ok |-> ok, at |-> now]
<1>1. i \in Inputs /\ ToolOfCall(c) \in Tools /\ now \in 0..MaxNow
  BY ToolOfCallIsTool DEF GatewayInv
<1>2. /\ call[c].pc = "handler" /\ now' = now
      /\ Breaker!RecordRequestSuccess(ToolOfCall(c))
      /\ IF ok /\ ~call[c].skip THEN Cache!Set(KeyOf[i], answer, TtlOf[i])
                                ELSE UNCHANGED cacheVars
      /\ IF ok THEN GoTo(c, "compress") ELSE Reply(c, "error", answer)
  BY DEF HandlerReturns
<1>3. /\ BreakersOK'
      /\ \A u \in Tools : breakers'[u] = breakers[u] \/ breakers'[u].state # "open"
  BY <1>1, <1>2, SuccessKeeps
<1>4. EntriesOK'
  <2>1. CASE ok /\ ~call[c].skip
    <3>1. Cache!Set(KeyOf[i], [input |-> i, ok |-> TRUE, at |-> now], TtlOf[i])
      BY <1>2, <2>1
    <3> HIDE DEF i
    <3> QED
      BY <1>1, <3>1, SetKeeps
  <2>2. CASE ~(ok /\ ~call[c].skip)
    BY <1>2, <2>2 DEF cacheVars, GatewayInv, EntriesOK
  <2> QED
    BY <2>1, <2>2
<1>5. answer \in Answer \cup {NoAnswer}
  BY <1>1 DEF Answer
<1> HIDE DEF answer, i
<1>6. CallsOK' /\ InFlightIsEarlier'
  <2>1. CASE ok
    BY <1>2, <1>3, <2>1, GoToKeeps, InFlightKeeps DEF GatewayInv
  <2>2. CASE ~ok
    BY <1>1, <1>2, <1>3, <1>5, <2>2, ReplyKeeps, InFlightKeeps DEF GatewayInv
  <2> QED
    BY <2>1, <2>2
<1> QED
  BY <1>1, <1>2, <1>3, <1>4, <1>6 DEF GatewayInv

\* So does the reply.
LEMMA CompressKeeps ==
  ASSUME GatewayInv, NEW c \in Requests, Compress(c)
  PROVE  GatewayInv'
<1> DEFINE answer == [input |-> call[c].input, ok |-> TRUE, at |-> now]
<1>1. Reply(c, "data", answer) /\ UNCHANGED <<now, breakers, cacheVars>>
  BY DEF Compress
<1>2. answer \in Answer \cup {NoAnswer} /\ now \in 0..MaxNow
  BY ToolOfCallIsTool DEF GatewayInv, Answer
<1> HIDE DEF answer
<1>3. BreakersOK' /\ EntriesOK' /\ (now \in 0..MaxNow)'
  BY <1>1 DEF cacheVars, GatewayInv, EntriesOK, BreakersOK, OpenAtThreshold, Breaker!OpenAtThreshold
<1>4. CallsOK' /\ InFlightIsEarlier'
  BY <1>1, <1>2, ReplyKeeps, InFlightKeeps DEF GatewayInv
<1> QED
  BY <1>3, <1>4 DEF GatewayInv

\* So does the passing of time.
LEMMA GatewayTickKeeps == GatewayInv /\ Tick => GatewayInv'
<1> SUFFICES ASSUME GatewayInv, Tick PROVE GatewayInv'
  OBVIOUS
<1> USE GatewayAssumption
<1>1. now' \in 0..MaxNow /\ now <= now' /\ UNCHANGED <<breakers, cacheVars, call>>
  BY DEF Tick, GatewayInv
<1>2. CallsOK'
  <2>1. \A d \in Requests : call[d].since \in 0..MaxNow
    BY DEF GatewayInv, CallsOK, Call
  <2> QED
    BY <1>1, <2>1 DEF GatewayInv, CallsOK
<1>3. BreakersOK' /\ EntriesOK' /\ InFlightIsEarlier'
  BY <1>1 DEF cacheVars, GatewayInv, EntriesOK, BreakersOK, OpenAtThreshold,
    Breaker!OpenAtThreshold, InFlightIsEarlier, ToolOfCall
<1> QED
  BY <1>1, <1>2, <1>3 DEF GatewayInv

\* Every step keeps the invariant.
LEMMA InvStep == GatewayInv /\ [Next]_vars => GatewayInv'
<1> SUFFICES ASSUME GatewayInv, [Next]_vars PROVE GatewayInv'
  OBVIOUS
<1>1. ASSUME NEW c \in Requests, NEW i \in Inputs, NEW skip \in BOOLEAN, Start(c, i, skip)
      PROVE  GatewayInv'
  BY <1>1, StartKeeps
<1>2. ASSUME NEW c \in Requests, Step(c)
      PROVE  GatewayInv'
  <2>1. CASE ValidateSession(c)
    BY <2>1, ValidateSessionKeeps
  <2>2. CASE Lookup(c)
    BY <2>2, LookupKeeps
  <2>3. CASE Dispatch(c)
    BY <2>3, DispatchKeeps
  <2>4. ASSUME NEW ok \in BOOLEAN, HandlerReturns(c, ok)
        PROVE  GatewayInv'
    BY <2>4, HandlerReturnsKeeps
  <2>5. CASE Compress(c)
    BY <2>5, CompressKeeps
  <2>6. CASE Throws(c)
    BY <2>6, FailedReplyKeeps DEF Throws
  <2> QED
    BY <1>2, <2>1, <2>2, <2>3, <2>4, <2>5, <2>6 DEF Step
<1>3. CASE Tick
  BY <1>3, GatewayTickKeeps
<1>4. CASE UNCHANGED vars
  BY <1>4 DEF vars, cacheVars, GatewayInv, BreakersOK, OpenAtThreshold, Breaker!OpenAtThreshold,
              CallsOK, EntriesOK, InFlightIsEarlier, ToolOfCall
<1> QED
  BY <1>1, <1>2, <1>3, <1>4 DEF Next

\* The invariant holds in every state of every behaviour.
LEMMA InvHolds == Spec => []GatewayInv
<1> QED
  BY InvInit, InvStep, PTL DEF Spec

-----------------------------------------------------------------------------
(* The theorems. *)

\* Whatever the order in which concurrent requests report, a breaker is open
\* exactly when the threshold of failures is reached (recordRequestFailure).
THEOREM BreakersOpenAtThreshold == Spec => []OpenAtThreshold
<1>1. GatewayInv => OpenAtThreshold
  BY DEF GatewayInv, BreakersOK
<1> QED
  BY <1>1, InvHolds, PTL

\* An open breaker is left only after the timeout or by a success of a request
\* let through no later than the last failure: InFlightIsEarlier says that no
\* other request can still report (executeHandler, canExecuteRequest).
THEOREM OpenBreakersStayShut == Spec => OpenStaysShut
<1>1. ASSUME GatewayInv, Next, NEW t \in Tools, breakers[t].state = "open", breakers'[t].state # "open"
      PROVE  ReopensRightly(t)
  <2>1. ASSUME NEW c \in Requests, NEW i \in Inputs, NEW skip \in BOOLEAN, Start(c, i, skip)
        PROVE  ReopensRightly(t)
    <3>1. ToolOf[i] \in Tools /\ Breaker!CanExecuteRequest(ToolOf[i])
      BY <2>1, GatewayAssumption DEF Start
    <3>2. breakers' = [breakers EXCEPT ![ToolOf[i]] = Breaker!Checked(ToolOf[i])]
      BY <3>1 DEF Breaker!CanExecuteRequest
    <3>3. t = ToolOf[i] /\ Breaker!Checked(t) # breakers[t]
      BY <1>1, <3>1, <3>2 DEF GatewayInv, BreakersOK
    <3> QED
      BY <3>3 DEF Breaker!Checked, ReopensRightly
  <2>2. ASSUME NEW c \in Requests, NEW ok \in BOOLEAN, HandlerReturns(c, ok)
        PROVE  ReopensRightly(t)
    <3>1. ToolOfCall(c) \in Tools /\ Breaker!RecordRequestSuccess(ToolOfCall(c))
      BY <1>1, <2>2, ToolOfCallIsTool DEF HandlerReturns, GatewayInv
    <3>2. t = ToolOfCall(c)
      BY <1>1, <3>1, SuccessKeeps
    <3>3. call[c].pc = "handler" /\ call[c].since <= breakers[t].lastFailure
      BY <1>1, <2>2, <3>2 DEF HandlerReturns, GatewayInv, InFlightIsEarlier
    <3>4. call'[c].pc # "handler"
      <4>1. call[c] \in Call /\ call \in [Requests -> Call]
        BY <1>1 DEF GatewayInv, CallsOK
      <4>2. CASE ok
        BY <2>2, <4>1, <4>2 DEF HandlerReturns, GoTo, Call
      <4>3. CASE ~ok
        BY <2>2, <4>1, <4>3 DEF HandlerReturns, Reply
      <4> QED
        BY <4>2, <4>3
    <3> QED
      BY <3>2, <3>3, <3>4 DEF ReopensRightly
  <2>3. ASSUME NEW c \in Requests, Breaker!RecordRequestFailure(ToolOfCall(c))
        PROVE  FALSE
    <3>1. ToolOfCall(c) \in Tools
      BY <1>1, ToolOfCallIsTool DEF GatewayInv
    <3> QED
      BY <1>1, <2>3, <3>1, FailureKeeps
  <2>4. breakers' # breakers
    BY <1>1
  <2> QED
    BY <1>1, <2>1, <2>2, <2>3, <2>4
    DEF Next, Step, ValidateSession, Lookup, Dispatch, Compress, Throws, Tick
<1>2. GatewayInv /\ [Next]_vars => [\A t \in Tools : ReopensRightly(t)]_vars
  BY <1>1 DEF ReopensRightly
<1> QED
  BY <1>2, InvHolds, PTL DEF Spec, OpenStaysShut

\* What the cache hands out is data no older than its time to live.
THEOREM HitsAreGoodAlways == Spec => HitsAreGood
<1>1. ASSUME GatewayInv, Next, NEW c \in Requests, call[c].pc = "lookup", call'[c].reply = "hit"
      PROVE  GoodHit(c)
  <2>1. call[c] \in Call /\ call \in [Requests -> Call] /\ KeyOf[call[c].input] \in Keys
    BY <1>1, ToolOfCallIsTool, GatewayAssumption DEF GatewayInv, CallsOK
  <2>2. call[c].reply = "none"
    BY <1>1 DEF GatewayInv, CallsOK
  <2>3. Cache!Fresh(KeyOf[call[c].input]) /\ Reply(c, "hit", entries[KeyOf[call[c].input]].data)
    <3>1. PICK d \in Requests : (\E i \in Inputs, skip \in BOOLEAN : Start(d, i, skip)) \/ Step(d)
      BY <1>1, <2>2 DEF Next, Tick
    <3>2. d = c
      BY <1>1, <2>1, <2>2, <3>1
      DEF Start, Step, ValidateSession, Lookup, Dispatch, HandlerReturns, Compress, Throws,
          GoTo, Reply
    <3>3. Lookup(c)
      BY <1>1, <3>1, <3>2
      DEF Start, Step, ValidateSession, Dispatch, HandlerReturns, Compress, Throws
    <3>4. ~GoTo(c, "dispatch")
      BY <1>1, <2>2, <3>3, GoToKeeps DEF GatewayInv, Lookup
    <3> QED
      BY <3>3, <3>4 DEF Lookup
  <2>4. call'[c].answer = entries[KeyOf[call[c].input]].data
    BY <2>1, <2>3 DEF Reply
  <2>5. /\ Good(entries[KeyOf[call[c].input]])
        /\ ~(now > entries[KeyOf[call[c].input]].expiresAt)
    BY <1>1, <2>1, <2>3, HitIsGood DEF GatewayInv
  <2> DEFINE e == entries[KeyOf[call[c].input]]
  <2>6. /\ e.data.ok /\ e.data.at \in Nat /\ TtlOf[e.data.input] \in Nat
        /\ ~(now > e.data.at + TtlOf[e.data.input])
    BY <2>5, GatewayAssumption DEF Good, Entry, Answer
  <2>7. now \in Nat
    BY <1>1, GatewayAssumption DEF GatewayInv
  <2> QED
    BY <2>4, <2>6, <2>7 DEF GoodHit
<1>2. GatewayInv /\ [Next]_vars => [\A c \in Requests : GoodHit(c)]_vars
  BY <1>1 DEF GoodHit
<1> QED
  BY <1>2, InvHolds, PTL DEF Spec, HitsAreGood

\* A request keeps what it asked for and what it was answered.
SameAnswer(d) ==
  /\ call'[d].input = call[d].input
  /\ call'[d].reply = call[d].reply /\ call'[d].answer = call[d].answer

\* An entry was fetched for an input of its key.
EntriesMatch == \A k \in Keys : entries[k] # NoEntry => KeyOf[entries[k].data.input] = k

\* Whatever the keys leave out of what is asked, a request is answered with what it
\* asked for from the handler, and from the cache with what was fetched for an input
\* of its key (executeHandler).
THEOREM AnswersMatchTheKey == Spec => []AnswersItsKey
<1>1. Init => EntriesMatch /\ AnswersItsKey
  BY DEF Init, Cache!CacheInit, EntriesMatch, AnswersItsKey
<1>2. GatewayInv /\ EntriesMatch /\ AnswersItsKey /\ [Next]_vars
        => EntriesMatch' /\ AnswersItsKey'
  <2> SUFFICES ASSUME GatewayInv, EntriesMatch, AnswersItsKey, [Next]_vars
               PROVE  EntriesMatch' /\ AnswersItsKey'
    OBVIOUS
  <2>1. ASSUME NEW c \in Requests, NEW i \in Inputs, NEW skip \in BOOLEAN, Start(c, i, skip)
        PROVE  EntriesMatch' /\ AnswersItsKey'
    BY <2>1 DEF Start, cacheVars, EntriesMatch, AnswersItsKey, GatewayInv, CallsOK
  <2>2. ASSUME NEW c \in Requests, Lookup(c)
        PROVE  EntriesMatch' /\ AnswersItsKey'
    <3> DEFINE key == KeyOf[call[c].input]
    <3>1. /\ key \in Keys /\ call[c].input \in Inputs
          /\ Cache!Get(key) /\ EntriesOK /\ call \in [Requests -> Call]
          /\ IF Cache!Fresh(key) THEN Reply(c, "hit", entries[key].data) ELSE GoTo(c, "dispatch")
      BY <2>2, ToolOfCallIsTool, GatewayAssumption DEF Lookup, GatewayInv, CallsOK
    <3>2. EntriesMatch'
      BY <3>1 DEF Cache!Get, EntriesMatch
    <3>3. CASE Cache!Fresh(key)
      <4>1. Good(entries[key]) /\ entries[key] # NoEntry
        BY <3>1, <3>3, HitIsGood DEF Cache!Fresh
      <4>2. entries[key].data.input \in Inputs /\ KeyOf[entries[key].data.input] = key
        BY <3>1, <4>1 DEF EntriesMatch, Good, Entry, Answer
      <4>3. KeyOf[entries[key].data.input] = KeyOf[call[c].input]
        BY <4>2
      <4>4. Reply(c, "hit", entries[key].data)
        BY <3>1, <3>3
      <4> HIDE DEF key
      <4>5. AnswersItsKey'
        BY <3>1, <4>3, <4>4 DEF Reply, AnswersItsKey
      <4> QED
        BY <3>2, <4>5
    <3>4. CASE ~Cache!Fresh(key)
      <4>1. GoTo(c, "dispatch")
        BY <3>1, <3>4
      <4>2. \A d \in Requests : SameAnswer(d)
        BY <3>1, <4>1 DEF GoTo, Call, SameAnswer
      <4> QED
        BY <3>2, <4>2 DEF AnswersItsKey, SameAnswer
    <3> QED
      BY <3>3, <3>4
  <2>3. ASSUME NEW c \in Requests, NEW ok \in BOOLEAN, HandlerReturns(c, ok)
        PROVE  EntriesMatch' /\ AnswersItsKey'
    <3> DEFINE i == call[c].input
               answer == [input |-> i, ok |-> ok, at |-> now]
    <3>1. /\ i \in Inputs /\ KeyOf[i] \in Keys /\ call \in [Requests -> Call]
          /\ TtlOf[i] \in Nat \ {0}
      BY ToolOfCallIsTool, GatewayAssumption DEF GatewayInv, CallsOK
    <3>2. /\ \/ Cache!Set(KeyOf[i], answer, TtlOf[i])
             \/ UNCHANGED cacheVars
          /\ GoTo(c, "compress") \/ Reply(c, "error", answer)
      BY <2>3 DEF HandlerReturns
    <3>3. answer.input = i
      OBVIOUS
    <3> HIDE DEF answer
    <3>4. EntriesMatch'
      <4>1. CASE UNCHANGED cacheVars
        BY <4>1 DEF cacheVars, EntriesMatch
      <4>2. CASE Cache!Set(KeyOf[i], answer, TtlOf[i])
        <5> DEFINE gone == Cache!Room(IF 10 * Len(order) > 9 * MaxSize THEN Cache!Expired ELSE {})
                   left == [k \in Keys |-> IF k \in gone THEN NoEntry ELSE entries[k]]
                   new == [data |-> answer, expiresAt |-> now + TtlOf[i]]
        <5>1. entries' = [left EXCEPT ![KeyOf[i]] = new]
          BY <3>1, <4>2 DEF Cache!Set
        <5>2. \A k \in Keys : left[k] # NoEntry => KeyOf[left[k].data.input] = k
          BY DEF EntriesMatch
        <5>3. new.data.input = i
          BY <3>3
        <5>4. DOMAIN left = Keys
          OBVIOUS
        <5> HIDE DEF left, new, i
        <5>5. \A k \in Keys : entries'[k] = IF k = KeyOf[i] THEN new ELSE left[k]
          BY <5>1, <5>4
        <5> QED
          BY <5>2, <5>3, <5>5 DEF EntriesMatch
      <4> QED
        BY <3>2, <4>1, <4>2
    <3>5. AnswersItsKey'
      <4>1. CASE GoTo(c, "compress")
        <5>1. \A d \in Requests : SameAnswer(d)
          BY <3>1, <4>1 DEF GoTo, Call, SameAnswer
        <5> QED
          BY <5>1 DEF AnswersItsKey, SameAnswer
      <4>2. CASE Reply(c, "error", answer)
        BY <3>1, <3>3, <4>2 DEF Reply, AnswersItsKey
      <4> QED
        BY <3>2, <4>1, <4>2
    <3> QED
      BY <3>4, <3>5
  <2>4. ASSUME NEW c \in Requests, NEW r, Reply(c, r, NoAnswer), UNCHANGED cacheVars
        PROVE  EntriesMatch' /\ AnswersItsKey'
    BY <2>4 DEF Reply, cacheVars, EntriesMatch, AnswersItsKey, GatewayInv, CallsOK
  <2>5. ASSUME NEW c \in Requests, NEW p, GoTo(c, p), UNCHANGED cacheVars
        PROVE  EntriesMatch' /\ AnswersItsKey'
    <3>1. \A d \in Requests : SameAnswer(d)
      BY <2>5 DEF GoTo, GatewayInv, CallsOK, Call, SameAnswer
    <3> QED
      BY <2>5, <3>1 DEF cacheVars, EntriesMatch, AnswersItsKey, SameAnswer
  <2>6. ASSUME NEW c \in Requests, Compress(c)
        PROVE  EntriesMatch' /\ AnswersItsKey'
    BY <2>6 DEF Compress, Reply, cacheVars, EntriesMatch, AnswersItsKey, GatewayInv, CallsOK
  <2>7. CASE UNCHANGED <<cacheVars, call>>
    BY <2>7 DEF cacheVars, EntriesMatch, AnswersItsKey
  <2> QED
    BY <2>1, <2>2, <2>3, <2>4, <2>5, <2>6, <2>7
    DEF Next, Step, ValidateSession, Dispatch, Throws, Tick, vars
<1> QED
  BY <1>1, <1>2, InvHolds, PTL DEF Spec

-----------------------------------------------------------------------------
(* The order of the keys. *)

\* The cache's orders are those of KeyOrders.
LEMMA CacheOrders ==
  /\ \A s, ks : Cache!Without(s, ks) = Without(s, ks)
  /\ \A s : Cache!Elements(s) = Elements(s)
  /\ \A S : Cache!Cardinality(S) = Cardinality(S)
<1>1. \A S : Cache!Cardinality(S) = Cardinality(S)
  BY DEF Cache!Cardinality, Cardinality
<1>2. ASSUME NEW s, NEW ks PROVE Cache!Without(s, ks) = Without(s, ks)
  BY DEF Cache!Without, Without, Cache!Cardinality, Cardinality
<1> QED BY <1>1, <1>2 DEF Cache!Elements, Elements

\* The order lists the keys of the entries, each once, and no more than the limit.
OrderInv ==
  /\ order \in Seq(Keys) /\ Distinct(order) /\ Len(order) <= MaxSize
  /\ Elements(order) = {k \in Keys : entries[k] # NoEntry}

\* The cache starts empty.
LEMMA OrderInit == Init => OrderInv
<1> SUFFICES ASSUME Init PROVE OrderInv
  OBVIOUS
<1>1. order = <<>> /\ entries = [k \in Keys |-> NoEntry]
  BY DEF Init, Cache!CacheInit
<1> QED BY <1>1, GatewayAssumption DEF OrderInv, Distinct, Elements

\* get takes the one key out of both.
LEMMA GetOrder ==
  ASSUME OrderInv, NEW key, Cache!Get(key)
  PROVE  OrderInv'
<1> USE GatewayAssumption
<1> DEFINE gone == IF key \in Cache!Expired THEN {key} ELSE {}
<1>1. /\ entries' = [k \in Keys |-> IF k \in gone THEN NoEntry ELSE entries[k]]
      /\ order' = Without(order, gone)
  BY CacheOrders DEF Cache!Get
<1> HIDE DEF gone
<1>2. /\ order' \in Seq(Keys) /\ Distinct(order') /\ Len(order') <= Len(order)
      /\ Elements(order') = Elements(order) \ gone
  BY <1>1, WithoutDoes DEF OrderInv
<1>3. Len(order') \in Nat /\ Len(order) \in Nat
  BY <1>2 DEF OrderInv
<1> QED BY <1>1, <1>2, <1>3 DEF OrderInv

\* set makes room before it adds a key: at the limit the first key goes.
LEMMA SetOrder ==
  ASSUME OrderInv, NEW key \in Keys, NEW STATE data, NEW ttl \in Nat \ {0},
         Cache!Set(key, data, ttl), [data |-> data, expiresAt |-> now + ttl] # NoEntry
  PROVE  OrderInv'
<1> USE GatewayAssumption
<1> DEFINE cleaned == IF 10 * Len(order) > 9 * MaxSize THEN Cache!Expired ELSE {}
           kept == Without(order, cleaned)
           gone == Cache!Room(cleaned)
           rest == Without(order, gone)
           left == [k \in Keys |-> IF k \in gone THEN NoEntry ELSE entries[k]]
           new == [data |-> data, expiresAt |-> now + ttl]
<1>1. /\ entries' = [left EXCEPT ![key] = new]
      /\ order' = IF key \in Elements(rest) THEN rest ELSE Append(rest, key)
  BY CacheOrders DEF Cache!Set
<1>2. gone = IF Len(kept) >= MaxSize THEN cleaned \cup {Head(kept)} ELSE cleaned
  BY CacheOrders DEF Cache!Room
<1>3. \A k \in Keys : entries'[k] # NoEntry <=> k = key \/ (k \notin gone /\ entries[k] # NoEntry)
  <2>1. \A k \in Keys : entries'[k] = IF k = key THEN new ELSE left[k]
    <3> HIDE DEF new, gone
    <3> QED BY <1>1
  <2> HIDE DEF gone
  <2> QED BY <2>1
<1> HIDE DEF left, new, gone, cleaned
<1>4. /\ kept \in Seq(Keys) /\ Len(kept) <= Len(order)
      /\ Elements(kept) = Elements(order) \ cleaned
  BY WithoutDoes DEF OrderInv
<1>5. /\ rest \in Seq(Keys) /\ Distinct(rest) /\ Len(rest) <= Len(order)
      /\ Elements(rest) = Elements(order) \ gone
      /\ \A k \in Elements(order) \cap gone : Len(rest) < Len(order)
  BY WithoutDoes DEF OrderInv
<1>6. Len(order) \in Nat /\ Len(order) <= MaxSize /\ Len(kept) \in Nat /\ Len(rest) \in Nat
  BY <1>4, <1>5 DEF OrderInv
<1>7. Len(rest) < MaxSize
  <2>1. CASE Len(kept) >= MaxSize
    <3>1. Head(kept) \in Elements(kept)
      <4>1. Len(kept) # 0 /\ 1 \in DOMAIN kept /\ Head(kept) = kept[1]
        BY <1>4, <1>6, <2>1
      <4> HIDE DEF kept
      <4> QED BY <4>1 DEF Elements
    <3>2. Head(kept) \in Elements(order) \cap gone
      BY <1>2, <1>4, <2>1, <3>1
    <3> QED BY <1>5, <1>6, <3>2
  <2>2. CASE ~(Len(kept) >= MaxSize)
    <3>1. rest = kept
      BY <1>2, <2>2
    <3> QED BY <1>6, <2>2, <3>1
  <2> QED BY <2>1, <2>2
<1> HIDE DEF kept, rest
<1>8. CASE key \in Elements(rest)
  <2>1. order' = rest
    BY <1>1, <1>8
  <2> QED BY <1>3, <1>5, <1>6, <1>8, <2>1 DEF OrderInv
<1>9. CASE key \notin Elements(rest)
  <2>1. order' = Append(rest, key)
    BY <1>1, <1>9
  <2>2. /\ order' \in Seq(Keys) /\ Distinct(order') /\ Len(order') = Len(rest) + 1
        /\ Elements(order') = Elements(rest) \cup {key}
    BY <1>5, <1>9, <2>1, Appended
  <2>3. Len(order') <= MaxSize
    BY <1>6, <1>7, <2>2
  <2> QED BY <1>3, <1>5, <2>2, <2>3 DEF OrderInv
<1> QED BY <1>8, <1>9

\* Only the reads and the stores of requests touch the cache.
LEMMA OrderStep == GatewayInv /\ OrderInv /\ [Next]_vars => OrderInv'
<1> SUFFICES ASSUME GatewayInv, OrderInv, [Next]_vars PROVE OrderInv'
  OBVIOUS
<1>1. CASE UNCHANGED cacheVars
  BY <1>1 DEF cacheVars, OrderInv
<1>2. ASSUME NEW c \in Requests, Lookup(c) PROVE OrderInv'
  BY <1>2, GetOrder DEF Lookup
<1>3. ASSUME NEW c \in Requests, NEW ok \in BOOLEAN, HandlerReturns(c, ok), ~UNCHANGED cacheVars
      PROVE  OrderInv'
  <2> DEFINE i == call[c].input
             data == [input |-> i, ok |-> ok, at |-> now]
  <2>1. Cache!Set(KeyOf[i], data, TtlOf[i])
    BY <1>3 DEF HandlerReturns
  <2>2. i \in Inputs /\ KeyOf[i] \in Keys /\ TtlOf[i] \in Nat \ {0} /\ now \in 0..MaxNow
    BY ToolOfCallIsTool, GatewayAssumption DEF GatewayInv
  <2>3. data \in Answer /\ now + TtlOf[i] \in Nat
    BY <2>2, GatewayAssumption DEF Answer
  <2> HIDE DEF data
  <2>4. [data |-> data, expiresAt |-> now + TtlOf[i]] \in Entry
    BY <2>3 DEF Entry
  <2> QED BY <2>1, <2>2, <2>4, EntryIsNotNone, SetOrder
<1> QED
  BY <1>1, <1>2, <1>3
  DEF Next, Start, Step, ValidateSession, Dispatch, Compress, Throws, Tick, vars

\* The cache lists each key once, in its place, and holds no more than its limit,
\* whatever requests fill it at once (set: "Enforce size limit").
THEOREM WithinLimitAlways == Spec => []WithinLimit
<1>1. OrderInv => WithinLimit
  BY DistinctLen, CacheOrders DEF OrderInv, WithinLimit, Cache!WithinLimit
<1> QED BY <1>1, InvInit, InvStep, OrderInit, OrderStep, PTL DEF Spec

\* The invariants give the types.
LEMMA GatewayTypes == GatewayInv /\ OrderInv => TypeOK
  BY DEF GatewayInv, OrderInv, BreakersOK, CallsOK, EntriesOK, Good, TypeOK

\* The type invariant.
THEOREM GatewayTypeOK == Spec => []TypeOK
  BY GatewayTypes, InvInit, InvStep, OrderInit, OrderStep, PTL DEF Spec

=============================================================================
