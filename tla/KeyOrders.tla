------------------------------ MODULE KeyOrders ------------------------------
(* The order in which a Map iterates its keys, a sequence of them, as          *)
(* lib/cache/memory-cache.ts and lib/cache/advanced-memory-cache.ts use it.    *)
EXTENDS Integers, Sequences, FiniteSets

Elements(s) == {s[i] : i \in DOMAIN s}

\* The keys that are not in ks, in their order: the n-th has n - 1 of them before it.
Without(s, ks) ==
  LET kept == {i \in DOMAIN s : s[i] \notin ks}
  IN  [n \in 1..Cardinality(kept) |->
         s[CHOOSE i \in kept : Cardinality({j \in kept : j <= i}) = n]]
=============================================================================
