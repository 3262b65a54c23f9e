--------------------------- MODULE CacheInvalidation ---------------------------
(***************************************************************************)
(* CacheInvalidationMiddleware                                             *)
(* (lib/api/middleware/cache-invalidation-middleware.ts) in front of one   *)
(* process's memory cache: GET answers are cached, and a write removes the *)
(* keys its rules select.                                                  *)
(*                                                                         *)
(* A path's data is abstracted to the number of writes it has seen, so an  *)
(* answer is the number at the time it was made, and is stored some awaits *)
(* later.  A rule's patterns are abstracted to the paths that trigger it   *)
(* and the keys they select; a rule that looks for related keys without a  *)
(* string pattern calls match on a RegExp or on undefined, which throws at *)
(* the first key it does not select directly.                              *)
(***************************************************************************)
EXTENDS Integers, FiniteSets

CONSTANTS
  Paths,    \* paths, each with the one cache key of its GET
  Calls,    \* requests that can be pending at once
  Rules,    \* [fires, pattern, hits, related, kin], see Selected
  Tags,     \* sets of paths whose key holds a tag
  None,     \* nothing cached, an idle call
  MaxWrites \* bound on the writes

VARIABLES
  written, \* the writes each path's data has seen
  cached,  \* the answer cached under each path's key
  calls,   \* pending requests: op, path, answer, keys
  raced    \* ghost: the keys stored after a write had overtaken their answer

vars == <<written, cached, calls, raced>>

Held == {p \in Paths : cached[p] # None}
Doing(c, op) == calls[c] # None /\ calls[c].op = op

Init ==
  /\ written = [p \in Paths |-> 0]
  /\ cached = [p \in Paths |-> None]
  /\ calls = [c \in Calls |-> None]
  /\ raced = {}

Drop(ps) ==
  /\ cached' = [p \in Paths |-> IF p \in ps THEN None ELSE cached[p]]
  /\ raced' = raced \ ps

\* checkSmartCache answers from the cache, which changes nothing; a miss or a
\* bypass header leads to the handler, whose answer applySmartCaching stores
\* under the key once it has parsed the body.
Answers(c, p) ==
  /\ calls[c] = None
  /\ calls' = [calls EXCEPT ![c] = [op |-> "get", path |-> p, answer |-> written[p], keys |-> {}]]
  /\ UNCHANGED <<written, cached, raced>>

Stores(c) ==
  /\ Doing(c, "get")
  /\ LET p == calls[c].path
     IN  /\ cached' = [cached EXCEPT ![p] = calls[c].answer]
         /\ raced' = IF calls[c].answer < written[p] THEN raced \cup {p} ELSE raced \ {p}
  /\ calls' = [calls EXCEPT ![c] = None]
  /\ UNCHANGED written

\* A handler changes a path's data before the middleware sees its answer.
Writes(c, p) ==
  /\ calls[c] = None /\ written[p] < MaxWrites
  /\ written' = [written EXCEPT ![p] = @ + 1]
  /\ calls' = [calls EXCEPT ![c] = [op |-> "write", path |-> p, answer |-> 0, keys |-> {}]]
  /\ UNCHANGED <<cached, raced>>

\* invalidateByRule: the keys the pattern finds, and the related ones.  A rule
\* that throws on the way has deleted nothing.
Selected(rule) ==
  LET direct == Held \cap rule.hits
  IN  IF rule.related /\ rule.pattern # "string" /\ Held # direct THEN {}
      ELSE direct \cup (IF rule.related THEN Held \cap rule.kin ELSE {})

\* Mutant: a rule that throws keeps the others from deleting anything.
Invalidated_AllOrNothing(p) ==
  LET fired == {r \in Rules : p \in r.fires}
  IN  IF \E r \in fired : Selected(r) = {} THEN {} ELSE UNION {Selected(r) : r \in fired}

\* handleInvalidation: every rule the method and the path match does its part;
\* over the memory cache all of it happens before the first await.
Invalidated(p) == UNION {Selected(r) : r \in {q \in Rules : p \in q.fires}}

Invalidates(c) ==
  /\ Doing(c, "write")
  /\ Drop(Invalidated(calls[c].path))
  /\ calls' = [calls EXCEPT ![c] = None]
  /\ UNCHANGED written

\* invalidateByTags looks at the keys one await at a time and deletes those it
\* chose at the end.
Tagged(c, tagged) ==
  /\ calls[c] = None
  /\ calls' = [calls EXCEPT ![c] = [op |-> "tags", path |-> None, answer |-> 0,
                                    keys |-> tagged \cap Held]]
  /\ UNCHANGED <<written, cached, raced>>

TagsInvalidate(c) ==
  /\ Doing(c, "tags")
  /\ Drop(calls[c].keys)
  /\ calls' = [calls EXCEPT ![c] = None]
  /\ UNCHANGED written

Next ==
  \E c \in Calls :
    \/ \E p \in Paths : Answers(c, p) \/ Writes(c, p)
    \/ \E ts \in Tags : Tagged(c, ts)
    \/ Stores(c) \/ Invalidates(c) \/ TagsInvalidate(c)

Spec == Init /\ [][Next]_vars

-----------------------------------------------------------------------------
TypeOK ==
  /\ written \in [Paths -> 0..MaxWrites]
  /\ \A p \in Held : cached[p] \in 0..written[p]
  /\ raced \subseteq Held

\* The paths whose own key some rule they trigger is sure to delete.
Covered == {p \in Paths : \E r \in Rules :
              /\ p \in r.fires
              /\ p \in r.hits
              /\ r.pattern = "string" \/ ~r.related}

\* With such a rule an answer older than its path's last write is cached only
\* while that write is on its way to the invalidation, or because the answer
\* was made before the write and stored after it: what no invalidation can see.
\* Neither a rule that throws nor an invalidation by tags undoes this.
StaleOnlyAfterARace ==
  \A p \in Covered : cached[p] # None /\ cached[p] < written[p] =>
     \/ p \in raced
     \/ \E c \in Calls : Doing(c, "write") /\ calls[c].path = p
=============================================================================
