----------------------------- MODULE MCJobQueue -----------------------------
\* Instances of JobQueue for TLC.
EXTENDS JobQueue

CONSTANTS a, b, c1, c2

\* generateJobId never gives two callers the same id.
UniqueIds == (c1 :> {a}) @@ (c2 :> {b})
\* Both callers choose the ids of their jobs themselves.
SharedIds == (c1 :> {a}) @@ (c2 :> {a})
OneCallerA == c1 :> {a}
=============================================================================
