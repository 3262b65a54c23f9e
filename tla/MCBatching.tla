------------------------------ MODULE MCBatching ------------------------------
(***************************************************************************)
(* One batch with the fairness that Node's event loop gives it: time goes  *)
(* on, and a timer that is due fires.  The handlers that a batch calls     *)
(* promise nothing: a request may never be answered.                       *)
(***************************************************************************)
EXTENDS Batching

FairSpec ==
  /\ Spec
  /\ WF_vars(Tick)
  /\ \A i \in 1..MaxBatch : WF_vars(i \in Indices /\ TimesOut(i))

\* A batch that runs comes to its end, at once or request after request, though none
\* of its requests is ever answered: each has a timeout, its own or the default one
\* (AbortSignal.timeout in executeSingleRequest), and the next one leaves after it.
BatchEnds == phase = "running" ~> phase \in {"recording", "answered"}
=============================================================================
