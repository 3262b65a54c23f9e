------------------------------ MODULE AuthStatus ------------------------------
(***************************************************************************)
(* What a page knows of its logins: useAuthStatus and useAuthOperations    *)
(* (app/components/hooks) in the components of one page.  The requests in  *)
(* flight are shared by the components (pendingRequests), the cache is     *)
(* shared only through localStorage, which a component reads when it is    *)
(* mounted.                                                                *)
(*                                                                         *)
(* The addresses that are asked for a single tool, for a disconnect and    *)
(* for a logout have no route: the answer is a page that is no JSON.       *)
(***************************************************************************)
EXTENDS Integers, FiniteSetsExt

CONSTANTS
  Hooks,     \* the components that use the hook
  Endpoints, \* "general", "config" and the tools
  Tools,
  Requests,  \* ids of requests: numbers
  CacheTTL,
  None,
  MaxLogins, \* bounds
  MaxTime

VARIABLES
  now,
  logins,   \* how often the user's logins have changed, which is what a status says
  stored,   \* localStorage: None or a cache, a function of Endpoints
  mounted,  \* the hooks whose components are there
  cache,    \* hook -> cacheRef.current: None or a cache
  pending,  \* pendingRequests: endpoint -> None or a request
  requests, \* request -> Free or [endpoint, by, data, waiters, batch]
  shown,    \* hook -> the status it shows, None before any
  loading,  \* hook -> isLoading
  mixed,    \* history: a request was abandoned or shared in this page
  back      \* history: a component has shown an older status after a newer one

vars == <<now, logins, stored, mounted, cache, pending, requests, shown, loading, mixed, back>>

Free == [endpoint |-> None]
Empty == [e \in Endpoints |-> None]
InFlight == {r \in Requests : requests[r] # Free}
NewRequest == Min(Requests \ InFlight)

-----------------------------------------------------------------------------
(* The cache.                                                                *)

GetCachedData(h, e) ==
  IF cache[h] = None \/ cache[h][e] = None \/ now - cache[h][e].at >= CacheTTL
  THEN None ELSE cache[h][e]

\* The answer to "general" is shown by all that wait for it.
Show(hs, e, data) ==
  LET see == IF e = "general" THEN hs ELSE {} IN
  /\ shown' = [h \in Hooks |-> IF h \in see THEN data ELSE shown[h]]
  /\ back' = (back \/ \E h \in see : shown[h] # None /\ data < shown[h])

\* makeRequest, when nothing is pending or cached.
Request(h, e, batch) ==
  [endpoint |-> e, by |-> h, data |-> logins, waiters |-> {h}, batch |-> batch]

\* fetchGeneralAuthStatus, fetchAuthConfig and fetchToolAuthStatus.
Fetch(h, e) ==
  /\ h \in mounted
  /\ loading' = IF e = "general" THEN [loading EXCEPT ![h] = TRUE] ELSE loading
  /\ IF pending[e] # None
     THEN /\ requests' = [requests EXCEPT ![pending[e]].waiters = @ \cup {h}]
          /\ mixed' = (mixed \/ requests[pending[e]].by # h)
          /\ UNCHANGED <<pending, shown, back>>
     ELSE /\ GetCachedData(h, e) = None
          /\ InFlight # Requests
          /\ requests' = [requests EXCEPT ![NewRequest] = Request(h, e, FALSE)]
          /\ pending' = [pending EXCEPT ![e] = NewRequest]
          /\ UNCHANGED <<shown, mixed, back>>
  /\ UNCHANGED <<now, logins, stored, mounted, cache>>

\* The cached answer is shown at once.
FetchCached(h, e) ==
  /\ h \in mounted /\ pending[e] = None
  /\ GetCachedData(h, e) # None
  /\ Show({h}, e, GetCachedData(h, e).data)
  /\ loading' = IF e = "general" THEN [loading EXCEPT ![h] = FALSE] ELSE loading
  /\ UNCHANGED <<now, logins, stored, mounted, cache, pending, requests, mixed>>

\* refreshAuthStatus: everything is forgotten and asked for.
Refresh(h) ==
  /\ LET Assigned(f) == \A d, e \in Endpoints : f[d] = f[e] => d = e
         all == {f \in [Endpoints -> Requests \ InFlight] : Assigned(f)}
     IN /\ all # {}
        /\ pending' = CHOOSE f \in all : TRUE
  /\ requests' = [r \in Requests |->
       IF \E e \in Endpoints : pending'[e] = r
       THEN Request(h, CHOOSE e \in Endpoints : pending'[e] = r, TRUE) ELSE requests[r]]
  /\ stored' = None
  /\ cache' = [cache EXCEPT ![h] = None]
  /\ loading' = [loading EXCEPT ![h] = TRUE]
  /\ mixed' = (mixed \/ InFlight # {})
  /\ UNCHANGED <<now, logins, shown, back>>

RefreshAuthStatus(h) == h \in mounted /\ Refresh(h) /\ mounted' = mounted

\* loadCache, and a refresh when there is nothing in it, however old it is.
Mount(h) ==
  /\ h \notin mounted /\ mounted' = mounted \cup {h}
  /\ IF stored = None THEN Refresh(h)
     ELSE /\ cache' = [cache EXCEPT ![h] = stored]
          /\ UNCHANGED <<now, logins, stored, pending, requests, shown, loading, mixed, back>>

-----------------------------------------------------------------------------
(* Answers.                                                                  *)

\* isLoading ends with the answer to "general" and with the last of a refresh.
LoadingAfter(r) ==
  LET Ends(h) ==
    /\ h \in requests[r].waiters
    /\ \/ requests[r].endpoint = "general"
       \/ requests[r].batch /\ \A s \in InFlight \ {r} : ~(requests[s].batch /\ requests[s].by = h)
  IN [h \in Hooks |-> loading[h] /\ ~Ends(h)]

Done(r) ==
  /\ pending' = [pending EXCEPT ![requests[r].endpoint] = None]
  /\ requests' = [requests EXCEPT ![r] = Free]
  /\ loading' = LoadingAfter(r)
  /\ UNCHANGED <<now, logins, mounted>>

Fails(r) ==
  /\ requests[r] # Free
  /\ Done(r)
  /\ UNCHANGED <<stored, cache, shown, mixed, back>>

\* Any JSON is cached and shown, an error's too.  The cache is that of the
\* component that asked, as it is by now, and replaces the one in localStorage.
Arrives(r) ==
  /\ requests[r] # Free /\ requests[r].endpoint \notin Tools
  /\ LET q == requests[r]
         old == IF cache[q.by] = None THEN Empty ELSE cache[q.by]
         new == [old EXCEPT ![q.endpoint] = [data |-> q.data, at |-> now]]
     IN /\ stored' = new
        /\ cache' = [cache EXCEPT ![q.by] = new]
        /\ Show(q.waiters, q.endpoint, q.data)
  /\ Done(r)
  /\ UNCHANGED mixed

-----------------------------------------------------------------------------
(* The page.                                                                 *)

\* authenticate and clearAuth clear this component's cache before the page is left;
\* a disconnect fails, and clears nothing.
ClearCache(h) ==
  /\ h \in mounted
  /\ stored' = None
  /\ cache' = [cache EXCEPT ![h] = None]
  /\ pending' = [e \in Endpoints |-> None]
  /\ mixed' = (mixed \/ InFlight # {})
  /\ UNCHANGED <<now, logins, mounted, requests, shown, loading, back>>

Leave ==
  /\ mounted # {} /\ mounted' = {}
  /\ cache' = [h \in Hooks |-> None]
  /\ pending' = [e \in Endpoints |-> None]
  /\ requests' = [r \in Requests |-> Free]
  /\ shown' = [h \in Hooks |-> None]
  /\ loading' = [h \in Hooks |-> FALSE]
  /\ mixed' = FALSE
  /\ UNCHANGED <<now, logins, stored, back>>

Login ==
  /\ logins < MaxLogins /\ logins' = logins + 1
  /\ UNCHANGED <<now, stored, mounted, cache, pending, requests, shown, loading, mixed, back>>

Tick ==
  /\ now < MaxTime /\ now' = now + 1
  /\ UNCHANGED <<logins, stored, mounted, cache, pending, requests, shown, loading, mixed, back>>

-----------------------------------------------------------------------------
Init ==
  /\ now = 0 /\ logins = 0 /\ stored = None /\ mounted = {}
  /\ cache = [h \in Hooks |-> None]
  /\ pending = [e \in Endpoints |-> None]
  /\ requests = [r \in Requests |-> Free]
  /\ shown = [h \in Hooks |-> None] /\ loading = [h \in Hooks |-> FALSE]
  /\ mixed = FALSE /\ back = FALSE

Next ==
  \/ \E h \in Hooks :
       \/ Mount(h) \/ RefreshAuthStatus(h) \/ ClearCache(h)
       \/ \E e \in Endpoints : Fetch(h, e) \/ FetchCached(h, e)
  \/ \E r \in Requests : Arrives(r) \/ Fails(r)
  \/ Leave \/ Login \/ Tick

Spec == Init /\ [][Next]_vars

-----------------------------------------------------------------------------
Cached(c) ==
  c # None => \A e \in Endpoints : c[e] # None => c[e].data \in 0..logins /\ c[e].at \in 0..now

TypeOK ==
  /\ Cached(stored)
  /\ \A h \in Hooks : Cached(cache[h])
  /\ pending \in [Endpoints -> Requests \cup {None}]
  /\ \A h \in Hooks : shown[h] \in 0..logins \cup {None}

\* A request that others wait for, or would join, is in flight for what they ask.
PendingIsInFlight ==
  \A e \in Endpoints : pending[e] # None => requests[pending[e]].endpoint = e

\* A component that says it is loading waits for an answer.
LoadingEnds == \A h \in Hooks : loading[h] => \E r \in InFlight : h \in requests[r].waiters

\* A component shows an older status after a newer one only in a page where a
\* request was abandoned by a refresh, or shared by components that each keep a
\* cache of their own.
NoOlderLogin == back' => back \/ mixed

StatusGoesForward == [][NoOlderLogin]_vars
=============================================================================
