----------------------------- MODULE ToolQueries -----------------------------
(***************************************************************************)
(* The queries of useToolQueries (app/components/hooks/useToolQueries.ts)  *)
(* for the tools of a page: what is fetched, what failed, and the reports  *)
(* of failures.  React Query is external: it starts and ends the fetches   *)
(* of a query (one runs at a time, its retries are part of it), and keeps  *)
(* a query's error until a fetch of it succeeds.                           *)
(***************************************************************************)
EXTENDS Integers, FiniteSets

CONSTANTS
  ToolOf,    \* the queries in order: a sequence of their tools
  Messages,  \* of errors
  None,
  MaxReports \* bound

VARIABLES
  fetching, \* query -> is it being fetched?
  failed,   \* query -> its error's message or None
  reported, \* reportedErrorsRef: query -> message
  sent      \* history: query -> its reports since it was last well

vars == <<fetching, failed, reported, sent>>

Queries == DOMAIN ToolOf
QueriedTools == {ToolOf[i] : i \in Queries}
QueriesOf(t) == {i \in Queries : ToolOf[i] = t}

-----------------------------------------------------------------------------
\* The interval, and the focus of the window, refetch a query; refreshToolData
\* those of a tool and refreshAllData all.
Refetch(which) ==
  /\ \E i \in which : ~fetching[i]
  /\ fetching' = [i \in Queries |-> fetching[i] \/ i \in which]
  /\ UNCHANGED <<failed, reported, sent>>

RefreshToolData(t) == Refetch(QueriesOf(t))

RefreshAllData == Refetch(Queries)

\* The effect that runs after every change of the results.
ReportWidgetError(i, message) ==
  IF message # None /\ reported[i] # message
  THEN reported' = [reported EXCEPT ![i] = message] /\ sent' = [sent EXCEPT ![i] = @ + 1]
  ELSE /\ reported' = [reported EXCEPT ![i] = message]
       /\ sent' = [sent EXCEPT ![i] = IF message = None THEN 0 ELSE @]

\* fetchToolData has answered or failed.
FetchEnds(i) ==
  /\ fetching[i]
  /\ fetching' = [fetching EXCEPT ![i] = FALSE]
  /\ \E message \in Messages \cup {None} :
       /\ sent[i] < MaxReports \/ message \in {None, failed[i]}
       /\ failed' = [failed EXCEPT ![i] = message]
       /\ ReportWidgetError(i, message)

-----------------------------------------------------------------------------
Init ==
  /\ fetching = [i \in Queries |-> TRUE]
  /\ failed = [i \in Queries |-> None] /\ reported = failed
  /\ sent = [i \in Queries |-> 0]

Next ==
  \/ RefreshAllData
  \/ \E t \in QueriedTools : RefreshToolData(t)
  \/ \E i \in Queries : Refetch({i}) \/ FetchEnds(i)

Spec == Init /\ [][Next]_vars

-----------------------------------------------------------------------------
TypeOK ==
  /\ fetching \in [Queries -> BOOLEAN]
  /\ failed \in [Queries -> Messages \cup {None}]
  /\ sent \in [Queries -> 0..MaxReports]

\* An error is reported while it lasts, and again when it comes back or changes
\* its message, whatever is fetched meanwhile; an end of it is not reported.
ErrorsAreReported ==
  \A i \in Queries : reported[i] = failed[i] /\ (sent[i] = 0 <=> failed[i] = None)
=============================================================================
