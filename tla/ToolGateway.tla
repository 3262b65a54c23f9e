----------------------------- MODULE ToolGateway -----------------------------
(***************************************************************************)
(* GET and POST /api/tools/{tool}/{endpoint}: executeHandler               *)
(* (app/api/tools/[tool]/[endpoint]/shared.ts) over the circuit breakers   *)
(* (CircuitBreaker) and the response cache (MemoryCache).  Requests run    *)
(* concurrently in one event loop: each await of executeHandler ends an    *)
(* action, and what was checked before it may be stale after it.           *)
(***************************************************************************)
EXTENDS Integers, Sequences, FiniteSets

CONSTANTS
  Requests,      \* concurrent HTTP requests
  Tools,         \* tool slugs
  Inputs,        \* what is asked: tool, endpoint, query and body
  ToolOf,        \* the tool of an input
  Keys,          \* cache keys
  KeyOf,         \* generateCacheKey: of tool, endpoint and the last value of each
                 \* query parameter; neither the body nor earlier values count
  TtlOf,         \* 5 minutes for activity endpoints, 10 for the others
  SessionTools,  \* tools without an API configuration of their own
  Unimplemented, \* inputs whose endpoint is declared and has no handler
  MaxSize, NoEntry, Threshold, Timeout,
  MaxNow         \* bound: the clock

ASSUME GatewayAssumption ==
  /\ Inputs # {} /\ ToolOf \in [Inputs -> Tools]
  /\ KeyOf \in [Inputs -> Keys]
  /\ TtlOf \in [Inputs -> Nat \ {0}]
  /\ SessionTools \subseteq Tools
  /\ Unimplemented \subseteq Inputs
  /\ MaxSize \in Nat \ {0} /\ Threshold \in Nat \ {0}
  /\ Timeout \in Nat /\ MaxNow \in Nat
  /\ NoEntry \notin [data : [input : Inputs, ok : BOOLEAN, at : Nat], expiresAt : Nat]

VARIABLES
  now,      \* Date.now()
  breakers, \* the circuit breakers
  entries,  \* the response cache
  order,
  call      \* each request: where it stands and what it has answered

cacheVars == <<entries, order>>
vars == <<now, breakers, cacheVars, call>>

Breaker == INSTANCE CircuitBreaker
Cache == INSTANCE MemoryCache

\* What a handler returns: the input it was asked for, whether it is an object
\* with an error text instead of data, and when it was fetched.
Answer == [input : Inputs, ok : BOOLEAN, at : 0..MaxNow]
NoAnswer == [ok |-> FALSE]

Init ==
  /\ now = 0
  /\ Breaker!BreakerInit
  /\ Cache!CacheInit
  /\ call = [c \in Requests |->
       [pc |-> "done", input |-> CHOOSE i \in Inputs : TRUE, skip |-> FALSE, since |-> 0,
        reply |-> "none", answer |-> NoAnswer]]

ToolOfCall(c) == ToolOf[call[c].input]

Reply(c, reply, answer) ==
  call' = [call EXCEPT ![c] = [pc |-> "done", input |-> @.input, skip |-> FALSE,
                               since |-> 0, reply |-> reply, answer |-> answer]]

GoTo(c, pc) == call' = [call EXCEPT ![c].pc = pc]

-----------------------------------------------------------------------------
(* A request from start to end.  The client may ask to bypass the cache. *)

Start(c, i, skip) ==
  LET tool == ToolOf[i]
  IN  /\ call[c].pc = "done"
      /\ Breaker!CanExecuteRequest(tool)
      /\ call' = [call EXCEPT ![c] =
           IF Breaker!Admits(tool)
           THEN [pc |-> "session", input |-> i, skip |-> skip, since |-> now,
                 reply |-> "none", answer |-> NoAnswer]
           ELSE [pc |-> "done", input |-> i, skip |-> FALSE, since |-> 0,
                 reply |-> "blocked", answer |-> NoAnswer]]
      /\ UNCHANGED <<now, cacheVars>>

ValidateSession(c) ==
  /\ call[c].pc = "session"
  /\ \/ GoTo(c, IF call[c].skip THEN "dispatch" ELSE "lookup")
     \/ ToolOfCall(c) \in SessionTools /\ Reply(c, "unauthorized", NoAnswer)
  /\ UNCHANGED <<now, breakers, cacheVars>>

\* Mutant: a hit answers with the cache's entry instead of the data in it.
Lookup_Entry(c) ==
  LET key == KeyOf[call[c].input]
  IN  /\ call[c].pc = "lookup"
      /\ Cache!Get(key)
      /\ IF Cache!Fresh(key) THEN Reply(c, "hit", entries[key]) ELSE GoTo(c, "dispatch")
      /\ UNCHANGED <<now, breakers>>

Lookup(c) ==
  LET key == KeyOf[call[c].input]
  IN  /\ call[c].pc = "lookup"
      /\ Cache!Get(key)
      /\ IF Cache!Fresh(key) THEN Reply(c, "hit", entries[key].data)
                             ELSE GoTo(c, "dispatch")
      /\ UNCHANGED <<now, breakers>>

\* A missing handler counts as a failure of the tool.
Dispatch(c) ==
  /\ call[c].pc = "dispatch"
  /\ IF call[c].input \in Unimplemented
     THEN Breaker!RecordRequestFailure(ToolOfCall(c)) /\ Reply(c, "unimplemented", NoAnswer)
     ELSE GoTo(c, "handler") /\ UNCHANGED breakers
  /\ UNCHANGED <<now, cacheVars>>

\* Mutants: an answer with an error text is cached like any other; an answer is
\* cached under one key for all requests of its tool.
HandlerReturns_CachesErrors(c, ok) ==
  LET answer == [input |-> call[c].input, ok |-> ok, at |-> now]
  IN  /\ call[c].pc = "handler"
      /\ Breaker!RecordRequestSuccess(ToolOfCall(c))
      /\ IF ~call[c].skip
         THEN Cache!Set(KeyOf[call[c].input], answer, TtlOf[call[c].input])
         ELSE UNCHANGED cacheVars
      /\ IF ok THEN GoTo(c, "compress") ELSE Reply(c, "error", answer)
      /\ UNCHANGED now

HandlerReturns_ToolKey(c, ok) ==
  LET answer == [input |-> call[c].input, ok |-> ok, at |-> now]
  IN  /\ call[c].pc = "handler"
      /\ Breaker!RecordRequestSuccess(ToolOfCall(c))
      /\ IF ok /\ ~call[c].skip
         THEN Cache!Set(KeyOf[CHOOSE i \in Inputs : ToolOf[i] = ToolOfCall(c)],
                        answer, TtlOf[call[c].input])
         ELSE UNCHANGED cacheVars
      /\ IF ok THEN GoTo(c, "compress") ELSE Reply(c, "error", answer)
      /\ UNCHANGED now

\* The handler's answer arrives.  Any answer is a success for the breaker; one
\* with an error text is passed on and not cached.
HandlerReturns(c, ok) ==
  LET answer == [input |-> call[c].input, ok |-> ok, at |-> now]
  IN  /\ call[c].pc = "handler"
      /\ Breaker!RecordRequestSuccess(ToolOfCall(c))
      /\ IF ok /\ ~call[c].skip
         THEN Cache!Set(KeyOf[call[c].input], answer, TtlOf[call[c].input])
         ELSE UNCHANGED cacheVars
      /\ IF ok THEN GoTo(c, "compress") ELSE Reply(c, "error", answer)
      /\ UNCHANGED now

\* The answer leaves compressed, or compressing it throws: the catch block
\* counts a failure although the handler succeeded.
Compress(c) ==
  /\ call[c].pc = "compress"
  /\ Reply(c, "data", [input |-> call[c].input, ok |-> TRUE, at |-> now])
  /\ UNCHANGED <<now, breakers, cacheVars>>

Throws(c) ==
  /\ call[c].pc \in {"handler", "compress"}
  /\ Breaker!RecordRequestFailure(ToolOfCall(c))
  /\ Reply(c, "failed", NoAnswer)
  /\ UNCHANGED <<now, cacheVars>>

Tick ==
  /\ now < MaxNow
  /\ now' = now + 1
  /\ UNCHANGED <<breakers, cacheVars, call>>

Step(c) ==
  \/ ValidateSession(c) \/ Lookup(c) \/ Dispatch(c)
  \/ \E ok \in BOOLEAN : HandlerReturns(c, ok)
  \/ Compress(c) \/ Throws(c)

Next ==
  \/ \E c \in Requests : \/ \E i \in Inputs, skip \in BOOLEAN : Start(c, i, skip)
                         \/ Step(c)
  \/ Tick

Spec == Init /\ [][Next]_vars

-----------------------------------------------------------------------------
(* Properties. *)

Call == [pc : {"session", "lookup", "dispatch", "handler", "compress", "done"},
         input : Inputs, skip : BOOLEAN, since : 0..MaxNow,
         reply : {"none", "blocked", "unauthorized", "hit", "unimplemented",
                  "data", "error", "failed"},
         answer : Answer \cup {NoAnswer}]

Entry == [data : Answer, expiresAt : Nat]

\* Clock, breakers, cache and requests keep their shape.
TypeOK ==
  /\ now \in 0..MaxNow
  /\ breakers \in [Tools -> [failures : Nat, lastFailure : 0..MaxNow,
                             state : Breaker!State]]
  /\ entries \in [Keys -> Entry \cup {NoEntry}]
  /\ order \in Seq(Keys)
  /\ call \in [Requests -> Call]

\* A breaker is open exactly when the threshold of failures is reached.
OpenAtThreshold == Breaker!OpenAtThreshold

\* The cache stays within its limit, and its two halves agree.
WithinLimit == Cache!WithinLimit

\* What a caller expects: a request is answered with the data it asked for, such as
\* "changelog entries for requested issues" (tools/jira/index.ts:137).
AnswersItsRequest ==
  \A c \in Requests : call[c].answer # NoAnswer => call[c].answer.input = call[c].input

\* What executeHandler keeps: whichever requests filled or emptied the cache
\* meanwhile, an answer of the handler is the one asked for, and one of the cache
\* was fetched for an input of the same key.
AnswersItsKey ==
  \A c \in Requests : call[c].answer # NoAnswer =>
    IF call[c].reply = "hit" THEN KeyOf[call[c].answer.input] = KeyOf[call[c].input]
                             ELSE call[c].answer.input = call[c].input

\* The cache hands out only data, never an error, and none older than its time
\* to live.
GoodHit(c) ==
  call[c].pc = "lookup" /\ call'[c].reply = "hit" =>
    /\ call'[c].answer.ok
    /\ now - call'[c].answer.at <= TtlOf[call'[c].answer.input]

HitsAreGood == [][\A c \in Requests : GoodHit(c)]_vars

\* An open breaker lets a tool's requests through again only when the timeout
\* since the last failure is past, or when a request that was let through no
\* later than that failure reports success.
ReopensRightly(t) ==
  breakers[t].state = "open" /\ breakers'[t].state # "open" =>
    \/ now - breakers[t].lastFailure > Timeout
    \/ \E c \in Requests : /\ call[c].pc = "handler" /\ call'[c].pc # "handler"
                           /\ ToolOfCall(c) = t
                           /\ call[c].since <= breakers[t].lastFailure

OpenStaysShut == [][\A t \in Tools : ReopensRightly(t)]_vars

=============================================================================
