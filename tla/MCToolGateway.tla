---------------------------- MODULE MCToolGateway ----------------------------
(* Two tools: one with three requests it can be asked, two of which have one   *)
(* key, and one that needs a session and whose endpoint has no handler.        *)
EXTENDS ToolGateway, TLC

CONSTANTS github, tickets, prs, again, issues, ghost, r1, r2

MCTools == {github, tickets}
MCInputs == {prs, again, issues, ghost}
MCKeys == {"pulls", "issues", "ghost"}
MCToolOf == [i \in MCInputs |-> IF i = ghost THEN tickets ELSE github]
MCTtlOf == [i \in MCInputs |-> IF i \in {prs, again} THEN 1 ELSE 2]

\* One request repeats a query parameter and ends with the value of the other, or
\* is a POST to the same endpoint with another body: they have one key.
MCKeyOf == [i \in MCInputs |->
  CASE i \in {prs, again} -> "pulls" [] i = issues -> "issues" [] i = ghost -> "ghost"]

\* Nothing tells the two requests of one key apart but the data they ask for.
SymmetricRequests == Permutations(Requests) \cup Permutations({prs, again})

=============================================================================
