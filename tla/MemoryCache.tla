----------------------------- MODULE MemoryCache -----------------------------
(***************************************************************************)
(* MemoryCache (lib/cache/memory-cache.ts): a Map with an expiry time per  *)
(* entry and a size limit.  A Map iterates in the order of insertion, and  *)
(* setting a key it holds keeps the key's place, so the keys are kept in a *)
(* sequence beside the entries.  The async methods wait for nothing but    *)
(* set's own cleanup, and set decides on the eviction after that wait and  *)
(* stores at once, so each method is one action.  The hit and miss         *)
(* counters and the access times, which nothing reads, are left out.       *)
(***************************************************************************)
EXTENDS KeyOrders

CONSTANTS
  Keys,    \* cache keys
  MaxSize, \* options.maxSize, at least 1
  NoEntry  \* a key the Map does not hold

VARIABLES
  entries, \* this.cache: what is stored under a key
  order,   \* the keys in the order the Map iterates
  now      \* Date.now()

CacheInit ==
  /\ entries = [k \in Keys |-> NoEntry]
  /\ order = <<>>

Expired == {k \in Keys : entries[k] # NoEntry /\ now > entries[k].expiresAt}

\* Mutant: a read hands out whatever is stored.
Fresh_Stored(key) == entries[key] # NoEntry

\* An entry is still good at the very millisecond it expires.
Fresh(key) == entries[key] # NoEntry /\ key \notin Expired

\* get: a miss removes an entry that has expired.
Get(key) ==
  LET gone == IF key \in Expired THEN {key} ELSE {}
  IN  /\ entries' = [k \in Keys |-> IF k \in gone THEN NoEntry ELSE entries[k]]
      /\ order' = Without(order, gone)

\* Mutant: room is made only when the limit is passed.
Room_PastLimit(cleaned) ==
  LET kept == Without(order, cleaned)
  IN  IF Len(kept) > MaxSize THEN cleaned \cup {Head(kept)} ELSE cleaned

\* set: past 90% of the limit the expired entries go; at the limit the first
\* key goes too, even if the entry to be stored replaces another one; an entry
\* with no time to live is not stored (but has made room).
Room(cleaned) ==
  LET kept == Without(order, cleaned)
  IN  IF Len(kept) >= MaxSize THEN cleaned \cup {Head(kept)} ELSE cleaned

Set(key, data, ttl) ==
  LET gone == Room(IF 10 * Len(order) > 9 * MaxSize THEN Expired ELSE {})
      rest == Without(order, gone)
      left == [k \in Keys |-> IF k \in gone THEN NoEntry ELSE entries[k]]
  IN  IF ttl > 0
      THEN /\ entries' = [left EXCEPT ![key] = [data |-> data, expiresAt |-> now + ttl]]
           /\ order' = IF key \in Elements(rest) THEN rest ELSE Append(rest, key)
      ELSE entries' = left /\ order' = rest

-----------------------------------------------------------------------------
\* The Map holds each key once, in its place, and no more keys than the limit
\* (the comment on set: "Enforce size limit").
WithinLimit ==
  /\ Elements(order) = {k \in Keys : entries[k] # NoEntry}
  /\ Len(order) = Cardinality(Elements(order))
  /\ Len(order) <= MaxSize

=============================================================================
