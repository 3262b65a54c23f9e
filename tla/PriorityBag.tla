----------------------------- MODULE PriorityBag -----------------------------
(***************************************************************************)
(* What PriorityQueue (lib/jobs/memory-job-queue.ts) promises its caller:  *)
(* a set of items with priorities, from which dequeue takes some item of   *)
(* the highest priority and remove takes a given one.                      *)
(***************************************************************************)
EXTENDS Naturals

CONSTANTS Items, NoItem, Priorities

VARIABLES
  bag,      \* the queued items with their priorities
  returned  \* what the last dequeue returned

vars == <<bag, returned>>

None == [item |-> NoItem, priority |-> 0]

Init == bag = {} /\ returned = None

Enqueue(x, p) ==
  /\ \A e \in bag : e.item # x
  /\ bag' = bag \cup {[item |-> x, priority |-> p]}
  /\ UNCHANGED returned

Dequeue == \E e \in bag :
  /\ \A f \in bag : f.priority <= e.priority
  /\ bag' = bag \ {e}
  /\ returned' = e

Remove(x) == \E e \in bag :
  /\ e.item = x
  /\ bag' = bag \ {e}
  /\ UNCHANGED returned

Clear == bag' = {} /\ UNCHANGED returned

Next ==
  \/ \E x \in Items, p \in Priorities : Enqueue(x, p)
  \/ Dequeue
  \/ \E x \in Items : Remove(x)
  \/ Clear

Spec == Init /\ [][Next]_vars

=============================================================================
