----------------------------- MODULE CacheFactory -----------------------------
(***************************************************************************)
(* CacheFactory (lib/cache/cache-factory.ts): one cache per configuration, *)
(* in memory or in Redis, or in memory because Redis could not be reached  *)
(* when the cache was created: that is decided once.                       *)
(*                                                                         *)
(* create looks the configuration up before it waits for Redis and stores  *)
(* the cache after, so two creations may overlap, and disposeAll waits for *)
(* every connection to close before it forgets the caches.  A Redis cache  *)
(* is open from its constructor, which starts its health interval, to its  *)
(* disconnect, whether or not it ever reached Redis.                       *)
(***************************************************************************)
EXTENDS Integers, FiniteSets

CONSTANTS
  Configs, \* configurations: [backend, url, fallback, options]
  Calls,   \* calls of create that can be pending at once
  Caches,  \* cache objects: numbers
  None     \* no cache, an idle call, no disposal

VARIABLES
  reachable, \* whether Redis answers
  instances, \* CacheFactory.instances: the cache of each configuration
  metrics,   \* the configurations CacheFactory.metrics has an entry of
  made,      \* the cache objects: "memory", "redis", or "closed"
  creations, \* pending calls: the configuration, the cache and the next step
  disposal   \* the Redis caches disposeAll waits for

vars == <<reachable, instances, metrics, made, creations, disposal>>

Unmade == {x \in Caches : made[x] = None}

\* Cache objects are numbered as they are made.
New(x) == x \in Unmade /\ \A y \in Unmade : x <= y

Init ==
  /\ reachable \in BOOLEAN
  /\ instances = [g \in Configs |-> None]
  /\ metrics = {}
  /\ made = [x \in Caches |-> None]
  /\ creations = [c \in Calls |-> None]
  /\ disposal = None

\* Redis and hybrid caches need a URL; only a Redis one without a URL may be
\* created in memory right away.
InMemory(g) == g.backend = "memory" \/ (g.backend = "redis" /\ ~g.url /\ g.fallback)
OverRedis(g) == g.backend \in {"redis", "hybrid"} /\ g.url

\* The cache is listed, and its metrics are read after one more await.
Store(c, g, x) ==
  /\ instances' = [instances EXCEPT ![g] = x]
  /\ creations' = [creations EXCEPT ![c] = [config |-> g, cache |-> x, step |-> "metrics"]]

\* create: what is listed is returned, a configuration that cannot be served
\* throws (neither changes anything), a memory cache is made and listed.
CreatesInMemory(c, g) ==
  /\ creations[c] = None /\ instances[g] = None /\ InMemory(g)
  /\ \E x \in Caches : New(x) /\ made' = [made EXCEPT ![x] = "memory"] /\ Store(c, g, x)
  /\ UNCHANGED <<reachable, metrics, disposal>>

\* createRedisOrFallback makes the cache and waits for its first answer.
Connects(c, g) ==
  /\ creations[c] = None /\ instances[g] = None /\ OverRedis(g)
  /\ \E x \in Caches :
       /\ New(x)
       /\ made' = [made EXCEPT ![x] = "redis"]
       /\ creations' = [creations EXCEPT ![c] = [config |-> g, cache |-> x, step |-> "connect"]]
  /\ UNCHANGED <<reachable, instances, metrics, disposal>>

ConnectReturns(c) ==
  /\ creations[c] # None /\ creations[c].step = "connect" /\ reachable
  /\ Store(c, creations[c].config, creations[c].cache)
  /\ UNCHANGED <<reachable, metrics, made, disposal>>

\* Without an answer the call throws, or a memory cache is listed: the Redis
\* cache is left as it is, open and listed nowhere.  A hybrid cache always
\* falls back.
ConnectFails(c) ==
  /\ creations[c] # None /\ creations[c].step = "connect" /\ ~reachable
  /\ LET g == creations[c].config
     IN  IF g.backend = "hybrid" \/ g.fallback
         THEN \E x \in Caches : New(x) /\ made' = [made EXCEPT ![x] = "memory"] /\ Store(c, g, x)
         ELSE creations' = [creations EXCEPT ![c] = None] /\ UNCHANGED <<instances, made>>
  /\ UNCHANGED <<reachable, metrics, disposal>>

\* initializeMetrics: nobody waits for it; it only logs when the cache does not
\* answer.
MetricsRead(c) ==
  /\ creations[c] # None /\ creations[c].step = "metrics"
  /\ LET g == creations[c].config
         answers == made[creations[c].cache] = "memory"
                      \/ (made[creations[c].cache] = "redis" /\ reachable)
     IN  metrics' = IF answers THEN metrics \cup {g} ELSE metrics
  /\ creations' = [creations EXCEPT ![c] = None]
  /\ UNCHANGED <<reachable, instances, made, disposal>>

\* clearInstances forgets the caches, which stay as they are.
Forget == instances' = [g \in Configs |-> None] /\ metrics' = {}

ClearInstances ==
  /\ Forget
  /\ UNCHANGED <<reachable, made, creations, disposal>>

\* disposeAll: every listed Redis cache is told to disconnect ...
DisposeAll ==
  /\ disposal = None
  /\ disposal' = {instances[g] : g \in {h \in Configs : instances[h] # None
                                                        /\ made[instances[h]] = "redis"}}
  /\ UNCHANGED <<reachable, instances, metrics, made, creations>>

Disconnects(x) ==
  /\ disposal # None /\ x \in disposal
  /\ made' = [made EXCEPT ![x] = "closed"]
  /\ disposal' = disposal \ {x}
  /\ UNCHANGED <<reachable, instances, metrics, creations>>

\* Mutant: a disposal that finds its caches gone keeps the listing.
DisposeReturns_KeepsInstances ==
  /\ disposal = {}
  /\ disposal' = None
  /\ metrics' = {}
  /\ UNCHANGED <<reachable, instances, made, creations>>

\* ... and when all have, whatever was listed meanwhile is forgotten.
DisposeReturns ==
  /\ disposal = {}
  /\ disposal' = None
  /\ Forget
  /\ UNCHANGED <<reachable, made, creations>>

RedisComesOrGoes ==
  /\ reachable' = ~reachable
  /\ UNCHANGED <<instances, metrics, made, creations, disposal>>

Next ==
  \/ \E c \in Calls :
       \/ \E g \in Configs : CreatesInMemory(c, g) \/ Connects(c, g)
       \/ ConnectReturns(c) \/ ConnectFails(c) \/ MetricsRead(c)
  \/ ClearInstances \/ DisposeAll \/ DisposeReturns \/ RedisComesOrGoes
  \/ \E x \in Caches : Disconnects(x)

Spec == Init /\ [][Next]_vars

-----------------------------------------------------------------------------
TypeOK ==
  /\ instances \in [Configs -> Caches \cup {None}]
  /\ metrics \subseteq Configs
  /\ \A g \in Configs : instances[g] # None => made[instances[g]] # None

\* Whoever asks the factory gets a cache that answers: one whose connection was
\* closed is listed only until the disposal that closed it returns, and no two
\* configurations share a cache, so closing one closes no other's.
ListedCachesAreOpen ==
  /\ \A g \in Configs : instances[g] # None /\ made[instances[g]] = "closed" => disposal # None
  /\ \A g, h \in Configs : instances[g] = instances[h] => g = h \/ instances[g] = None
=============================================================================
