---------------------------- MODULE AdvancedCache ----------------------------
(***************************************************************************)
(* AdvancedMemoryCache (lib/cache/advanced-memory-cache.ts): a Map with an *)
(* expiry time per entry, a size limit and an eviction policy that may     *)
(* switch itself once.                                                     *)
(*                                                                         *)
(* set waits three times before it stores: for the adaptive check, for the *)
(* cleanup and for the eviction.  What runs between two awaits is one      *)
(* action, and concurrent calls interleave at the awaits (in any order     *)
(* here, although the microtask queue allows fewer).  The other methods    *)
(* wait for nothing that matters and are one action each.  The average     *)
(* access time and the operation counters, which nothing reads, are left   *)
(* out, and so is the data: entries are told apart by their times.         *)
(***************************************************************************)
EXTENDS KeyOrders

CONSTANTS
  Keys,      \* cache keys
  Calls,     \* calls of set that can be pending at once
  Ttls,      \* times to live callers pass
  MaxSize,   \* options.maxSize, at least 1
  Policies,  \* the options.evictionPolicy a cache may be created with
  Threshold, \* options.adaptiveThreshold
  AlertAt,   \* entries from which options.memoryAlertThreshold is reached
  None,      \* a key the Map does not hold, an idle call
  MaxTime,   \* bound on the clock
  MaxReads   \* bound on hits + misses

VARIABLES
  time,      \* Date.now()
  policy,    \* options.evictionPolicy
  lru,       \* options.enableLru
  mode,      \* this.adaptiveMode, the policy in force
  entries,   \* this.cache: expiry and last access of each key
  order,     \* the keys as the Map iterates, oldest insertion first
  used,      \* this.accessOrder, least recently used first
  hits, misses,
  usage,     \* memoryStats.usagePercentage, as the number of entries it counted
  alerts,    \* this.alerts: "full" and "usage" (whatever the numbers in its text)
  sets       \* pending calls of set: the key, the ttl and the next step

vars == <<time, policy, lru, mode, entries, order, used, hits, misses, usage, alerts, sets>>

Held == {k \in Keys : entries[k] # None}
Expired == {k \in Held : time > entries[k].expiresAt}
Touched(key) == IF lru THEN Append(Without(used, {key}), key) ELSE used

\* cache.delete and accessOrder.delete of some keys.
Removes(ks) ==
  /\ entries' = [k \in Keys |-> IF k \in ks THEN None ELSE entries[k]]
  /\ order' = Without(order, ks)
  /\ used' = Without(used, ks)

Init ==
  /\ time = 0
  /\ policy \in Policies
  /\ lru \in BOOLEAN
  /\ mode = policy
  /\ entries = [k \in Keys |-> None]
  /\ order = <<>> /\ used = <<>>
  /\ hits = 0 /\ misses = 0
  /\ usage = 0
  /\ alerts = {}
  /\ sets = [c \in Calls |-> None]

\* adaptiveEvictionCheck: only an adaptive cache that was read often enough
\* changes its policy, by a hit rate under 10% or over 70%.
Checked ==
  IF hits + misses < Threshold THEN mode
  ELSE IF 10 * hits < hits + misses THEN "lru"
  ELSE IF 10 * hits > 7 * (hits + misses) THEN "fifo" ELSE mode

\* maybeCleanup: past 80% of the limit the expired entries go.
Cleanup == Removes(IF 10 * Cardinality(Held) > 8 * MaxSize THEN Expired ELSE {})

\* set: an adaptive cache checks its policy first and cleans up after that
\* await; any other cleans up at once.
SetBegins(c, key, ttl) ==
  /\ sets[c] = None
  /\ IF mode = "adaptive"
     THEN /\ mode' = Checked
          /\ sets' = [sets EXCEPT ![c] = [key |-> key, ttl |-> ttl, step |-> "cleanup"]]
          /\ UNCHANGED <<entries, order, used>>
     ELSE /\ Cleanup
          /\ sets' = [sets EXCEPT ![c] = [key |-> key, ttl |-> ttl, step |-> "enforce"]]
          /\ UNCHANGED mode
  /\ UNCHANGED <<time, policy, lru, hits, misses, usage, alerts>>

SetCleansUp(c) ==
  /\ sets[c] # None /\ sets[c].step = "cleanup"
  /\ Cleanup
  /\ sets' = [sets EXCEPT ![c].step = "enforce"]
  /\ UNCHANGED <<time, policy, lru, mode, hits, misses, usage, alerts>>

\* adaptiveEviction: a hit rate under 60% leaves the cache with LRU, one over
\* 80% with FIFO, and one between (or of no reads at all) evicts by last use.
EvictionMode ==
  IF mode # "adaptive" \/ hits + misses = 0 THEN mode
  ELSE IF 10 * hits < 6 * (hits + misses) THEN "lru"
  ELSE IF 10 * hits > 8 * (hits + misses) THEN "fifo" ELSE mode

\* The key to evict: the first inserted, or the least recently used one, of
\* which there is none if use is not tracked.
Victims(m) ==
  LET queue == IF m = "fifo" THEN order ELSE Without(used, Keys \ Held)
  IN  IF queue = <<>> THEN {} ELSE {Head(queue)}

\* Mutant: the last free place counts as a full cache one entry late.
Full_Late == Cardinality(Held) > MaxSize

Full == Cardinality(Held) >= MaxSize

\* enforceSizeLimit: at the limit one entry goes, also when the entry to come
\* replaces another; the policy ttl_only keeps all and raises an alert.
SetEnforces(c) ==
  /\ sets[c] # None /\ sets[c].step = "enforce"
  /\ IF Full /\ mode # "ttl_only"
     THEN LET gone == Victims(EvictionMode)
          IN  /\ Removes(gone)
              /\ mode' = EvictionMode
              /\ usage' = IF gone = {} THEN usage ELSE Cardinality(Held) - 1
     ELSE UNCHANGED <<entries, order, used, mode, usage>>
  /\ alerts' = IF Full /\ mode = "ttl_only" THEN alerts \cup {"full"} ELSE alerts
  /\ sets' = [sets EXCEPT ![c].step = "store"]
  /\ UNCHANGED <<time, policy, lru, hits, misses>>

\* The entry is stored after the last await; one with no time to live is not.
SetStores(c) ==
  /\ sets[c] # None /\ sets[c].step = "store"
  /\ LET key == sets[c].key
     IN  IF sets[c].ttl > 0
         THEN /\ entries' = [entries EXCEPT ![key] =
                               [expiresAt |-> time + sets[c].ttl, accessTime |-> time]]
              /\ order' = IF key \in Held THEN order ELSE Append(order, key)
              /\ used' = Touched(key)
              /\ usage' = Cardinality(Held \cup {key})
         ELSE UNCHANGED <<entries, order, used, usage>>
  /\ sets' = [sets EXCEPT ![c] = None]
  /\ UNCHANGED <<time, policy, lru, mode, hits, misses, alerts>>

\* get (and has): an adaptive cache checks its policy, an expired entry goes,
\* a good one becomes the most recently used.
Get(key) ==
  /\ hits + misses < MaxReads
  /\ mode' = IF mode = "adaptive" THEN Checked ELSE mode
  /\ IF key \in Held \ Expired
     THEN /\ hits' = hits + 1
          /\ used' = Touched(key)
          /\ entries' = IF lru THEN [entries EXCEPT ![key].accessTime = time] ELSE entries
          /\ UNCHANGED <<misses, order>>
     ELSE /\ misses' = misses + 1
          /\ Removes({key} \cap Expired)
          /\ UNCHANGED hits
  /\ UNCHANGED <<time, policy, lru, usage, alerts, sets>>

\* delete: what is not there leaves the statistics alone.
Delete(key) ==
  /\ Removes({key})
  /\ usage' = IF key \in Held THEN Cardinality(Held) - 1 ELSE usage
  /\ UNCHANGED <<time, policy, lru, mode, hits, misses, alerts, sets>>

\* clear empties the Map, keeps the hits, the misses and the usage.
Clear ==
  /\ Removes(Keys)
  /\ alerts' = {}
  /\ UNCHANGED <<time, policy, lru, mode, hits, misses, usage, sets>>

CleanupExpired ==
  /\ Removes(Expired)
  /\ UNCHANGED <<time, policy, lru, mode, hits, misses, usage, alerts, sets>>

\* The 30-second interval.
UpdateMemoryStats ==
  /\ usage' = Cardinality(Held)
  /\ UNCHANGED <<time, policy, lru, mode, entries, order, used, hits, misses, alerts, sets>>

\* The one-minute interval: a usage below the threshold withdraws the alerts of
\* the usage but not the one of a full cache.
CheckMemoryAlerts ==
  /\ alerts' = IF usage >= AlertAt THEN alerts \cup {"usage"}
               ELSE alerts \cap {"full"}
  /\ UNCHANGED <<time, policy, lru, mode, entries, order, used, hits, misses, usage, sets>>

Tick ==
  /\ time < MaxTime /\ time' = time + 1
  /\ UNCHANGED <<policy, lru, mode, entries, order, used, hits, misses, usage, alerts, sets>>

Next ==
  \/ \E c \in Calls, k \in Keys, t \in Ttls : SetBegins(c, k, t)
  \/ \E c \in Calls : SetCleansUp(c) \/ SetEnforces(c) \/ SetStores(c)
  \/ \E k \in Keys : Get(k) \/ Delete(k)
  \/ Clear \/ CleanupExpired \/ UpdateMemoryStats \/ CheckMemoryAlerts \/ Tick

Spec == Init /\ [][Next]_vars

-----------------------------------------------------------------------------
\* The two orders list the keys of the Map, each once, in the order they claim
\* (use is not listed at all where it is not tracked).
TypeOK ==
  /\ mode \in {"lru", "fifo", "ttl_only", "adaptive"}
  /\ mode # policy => policy = "adaptive" /\ mode \in {"lru", "fifo"}
  /\ Elements(order) = Held /\ Len(order) = Cardinality(Held)
  /\ IF lru THEN Elements(used) = Held /\ Len(used) = Cardinality(Held) ELSE used = <<>>
  /\ \A i, j \in DOMAIN used : i < j => entries[used[i]].accessTime <= entries[used[j]].accessTime
  /\ hits + misses \in 0..MaxReads

\* The class promises eviction at the size limit.  The limit is enforced before
\* an await and the entry stored after it, so calls that overlap pass it, and
\* every set makes room for one entry only, so the surplus never shrinks by
\* itself: with n calls at a time the Map holds at most n - 1 entries too many,
\* those about to be stored included, unless the policy is ttl_only or evicts
\* by a use that is not tracked.
WithinConcurrency ==
  (lru \/ policy = "fifo") /\ policy # "ttl_only" =>
     Cardinality(Held) + Cardinality({c \in Calls : sets[c] # None /\ sets[c].step = "store"})
       <= MaxSize + Cardinality(Calls) - 1
=============================================================================
