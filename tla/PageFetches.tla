----------------------------- MODULE PageFetches -----------------------------
(***************************************************************************)
(* The hooks that show one answer (app/components/hooks): "data" is        *)
(* useDataFetching, which aborts the request before; "limit" useRateLimit, *)
(* which clears what it shows when it is disabled; "list" useToolStatus    *)
(* and useWidgetTelemetry, which do neither.  A key is what is asked for,  *)
(* the address or the platform.                                            *)
(***************************************************************************)
EXTENDS Integers

CONSTANTS
  Calls,
  Keys,
  None,
  MaxFetches \* bound

VARIABLES
  policy,
  key,
  enabled,
  fetches,   \* how many requests have been made, which numbers them
  calls,     \* call -> Free or [key, nr, aborted]
  shown,     \* None or the [key, nr] of the answer shown
  error,     \* is an error shown?
  loading,
  overlapped, \* history: a request was made while another was under way
  stopped    \* history: the hook was disabled or cancelled since its last request

vars == <<policy, key, enabled, fetches, calls, shown, error, loading, overlapped, stopped>>

Free == [nr |-> 0]
Busy == {c \in Calls : calls[c] # Free}
Aborted(call) == IF call = Free THEN Free ELSE [call EXCEPT !.aborted = TRUE]

-----------------------------------------------------------------------------
(* Requests.                                                                 *)

\* Mutant: the request before goes on.
MakeWithoutAborting(c, k) == [calls EXCEPT ![c] = [key |-> k, nr |-> fetches + 1, aborted |-> FALSE]]

\* The calls when one more is made: useDataFetching aborts the others.
Make(c, k) ==
  [d \in Calls |-> IF d = c THEN [key |-> k, nr |-> fetches + 1, aborted |-> FALSE]
                   ELSE IF policy = "data" THEN Aborted(calls[d]) ELSE calls[d]]

Fetch(k) ==
  /\ fetches < MaxFetches /\ fetches' = fetches + 1
  /\ \E c \in Calls \ Busy : calls' = Make(c, k)
  /\ loading' = TRUE /\ error' = FALSE
  /\ overlapped' = (overlapped \/ Busy # {})
  /\ stopped' = FALSE

\* refetch, refresh or the interval.
Refresh ==
  /\ enabled /\ Fetch(key)
  /\ UNCHANGED <<policy, key, enabled, shown>>

\* A new address or platform.
ChangeKey ==
  /\ policy # "list"
  /\ key' \in Keys \ {key}
  /\ IF enabled THEN Fetch(key')
     ELSE UNCHANGED <<fetches, calls, loading, error, overlapped, stopped>>
  /\ UNCHANGED <<policy, enabled, shown>>

Enable ==
  /\ policy # "list" /\ ~enabled /\ enabled' = TRUE
  /\ Fetch(key)
  /\ UNCHANGED <<policy, key, shown>>

\* Neither hook takes back the request that is under way.
Disable ==
  /\ policy # "list" /\ enabled /\ enabled' = FALSE
  /\ stopped' = TRUE
  /\ IF policy = "limit" THEN shown' = None /\ error' = FALSE /\ loading' = FALSE
     ELSE UNCHANGED <<shown, error, loading>>
  /\ UNCHANGED <<policy, key, fetches, calls, overlapped>>

Cancel ==
  /\ policy = "data"
  /\ calls' = [c \in Calls |-> Aborted(calls[c])]
  /\ loading' = FALSE
  /\ stopped' = TRUE
  /\ UNCHANGED <<policy, key, enabled, fetches, shown, error, overlapped>>

-----------------------------------------------------------------------------
(* Answers.                                                                  *)

\* Each of them ends the loading, that of an aborted request too.
Ends(c) ==
  /\ calls[c] # Free
  /\ calls' = [calls EXCEPT ![c] = Free]
  /\ loading' = FALSE
  /\ UNCHANGED <<policy, key, enabled, fetches, overlapped, stopped>>

Arrives(c) ==
  /\ Ends(c) /\ ~calls[c].aborted
  /\ shown' = [key |-> calls[c].key, nr |-> calls[c].nr]
  /\ error' = error

\* The platform has no limits.
Unsupported(c) ==
  /\ policy = "limit" /\ Ends(c)
  /\ shown' = None /\ error' = TRUE

Fails(c) ==
  /\ Ends(c)
  /\ shown' = shown
  /\ error' = (error \/ ~calls[c].aborted)

-----------------------------------------------------------------------------
Init ==
  /\ policy \in {"data", "limit", "list"} /\ key \in Keys
  /\ enabled = TRUE /\ fetches = 1
  /\ \E c \in Calls :
       calls = [d \in Calls |-> IF d = c THEN [key |-> key, nr |-> 1, aborted |-> FALSE] ELSE Free]
  /\ shown = None /\ error = FALSE /\ loading = TRUE
  /\ overlapped = FALSE /\ stopped = FALSE

Next ==
  \/ Refresh \/ ChangeKey \/ Enable \/ Disable \/ Cancel
  \/ \E c \in Calls : Arrives(c) \/ Unsupported(c) \/ Fails(c)

Spec == Init /\ [][Next]_vars

-----------------------------------------------------------------------------
TypeOK ==
  /\ shown # None => shown.key \in Keys /\ shown.nr \in 1..fetches
  /\ \A c \in Busy : calls[c].nr \in 1..fetches
  /\ error \in BOOLEAN /\ loading \in BOOLEAN

\* useDataFetching never shows an answer after that to a later request, and shows
\* one to another address only while its own is asked for, has failed, or is not
\* asked for; the others do unless their requests overlap.
ShownIsTheLastAsked ==
  LET late == policy # "data" /\ overlapped
      live == {c \in Busy : ~calls[c].aborted}
  IN shown # None =>
     /\ shown.key = key \/ error \/ stopped \/ ~enabled \/ late
        \/ \E c \in live : calls[c].key = key
     /\ policy = "data" => \A c \in live : calls[c].nr > shown.nr

\* The hook is loading only while a request that was not aborted is under way.
LoadingEnds == loading => \E c \in Busy : ~calls[c].aborted
=============================================================================
