---------------------------- MODULE PriorityHeap ----------------------------
(***************************************************************************)
(* The array heap of PriorityQueue (lib/jobs/memory-job-queue.ts), with    *)
(* its map of priorities, operation by operation.  Array positions are     *)
(* numbered from 1 here: the children of i are 2*i and 2*i + 1.            *)
(***************************************************************************)
EXTENDS Integers, Sequences, FiniteSets

CONSTANTS Items, NoItem, Priorities

ASSUME PrioritiesAreNumbers == Priorities \subseteq Int

VARIABLES
  heap,       \* this.heap
  priorities, \* the items that are keys of this.priorities
  returned    \* what the last dequeue returned, with its priority

vars == <<heap, priorities, returned>>

None == [item |-> NoItem, priority |-> 0]

-----------------------------------------------------------------------------
Swap(h, i, j) == [h EXCEPT ![i] = h[j], ![j] = h[i]]

Arrays == Seq([item : Items, priority : Priorities])

\* An array with one of its positions.
Positions == {at \in Arrays \X (Nat \ {0}) : at[2] <= Len(at[1])}

\* A child never passes a parent of the same priority.
BubbleUp[at \in Positions] ==
  LET h == at[1]
      i == at[2]
      parent == i \div 2
  IN  IF i = 1 \/ h[parent].priority >= h[i].priority THEN h
      ELSE BubbleUp[<<Swap(h, parent, i), parent>>]

\* Mutant: the right child is never looked at.
Largest_LeftOnly(h, i) ==
  LET left == 2 * i
  IN  IF left <= Len(h) /\ h[left].priority > h[i].priority THEN left ELSE i

\* The right child is only taken if it is strictly above the left one.
Largest(h, i) ==
  LET left == 2 * i
      right == 2 * i + 1
      l == IF left <= Len(h) /\ h[left].priority > h[i].priority THEN left ELSE i
  IN  IF right <= Len(h) /\ h[right].priority > h[l].priority THEN right ELSE l

SinkDown[at \in Positions] ==
  LET h == at[1]
      i == at[2]
      largest == Largest(h, i)
  IN  IF largest = i THEN h ELSE SinkDown[<<Swap(h, i, largest), largest>>]

Front(h) == SubSeq(h, 1, Len(h) - 1)

-----------------------------------------------------------------------------
Init == heap = <<>> /\ priorities = {} /\ returned = None

\* The queue is only given objects it does not hold: enqueue creates a new one.
Enqueue(x, p) ==
  /\ \A i \in DOMAIN heap : heap[i].item # x
  /\ heap' = BubbleUp[<<Append(heap, [item |-> x, priority |-> p]), Len(heap) + 1>>]
  /\ priorities' = priorities \cup {x}
  /\ UNCHANGED returned

\* The last leaf replaces the root and sinks.
Dequeue ==
  /\ heap # <<>>
  /\ returned' = heap[1]
  /\ heap' = IF Len(heap) = 1 THEN <<>>
             ELSE SinkDown[<<[Front(heap) EXCEPT ![1] = heap[Len(heap)]], 1>>]
  /\ priorities' = priorities \ {heap[1].item}

\* Mutant: the leaf that replaces the entry only ever sinks.
Remove_OnlySinks(x) ==
  \E i \in DOMAIN heap :
    /\ heap[i].item = x
    /\ LET swapped == Front(Swap(heap, i, Len(heap)))
       IN  heap' = IF i <= Len(swapped) THEN SinkDown[<<swapped, i>>] ELSE swapped
    /\ priorities' = priorities \ {x}
    /\ UNCHANGED returned

\* The last leaf takes the place of the removed entry, and sinks or rises.
Remove(x) ==
  \E i \in DOMAIN heap :
    /\ heap[i].item = x
    /\ LET swapped == Front(Swap(heap, i, Len(heap)))
       IN  heap' = IF i <= Len(swapped)
                   THEN BubbleUp[<<SinkDown[<<swapped, i>>], i>>]
                   ELSE swapped
    /\ priorities' = priorities \ {x}
    /\ UNCHANGED returned

Clear ==
  /\ heap' = <<>>
  /\ priorities' = {}
  /\ UNCHANGED returned

Next ==
  \/ \E x \in Items, p \in Priorities : Enqueue(x, p)
  \/ Dequeue
  \/ \E x \in Items : Remove(x)
  \/ Clear

Spec == Init /\ [][Next]_vars

-----------------------------------------------------------------------------
Entries == {heap[i] : i \in DOMAIN heap}

\* The heap stays a heap after every mix of enqueues, dequeues and removals from
\* the middle: no entry has a higher priority than the one above it.
HeapOrder == \A i \in 2..Len(heap) : heap[i].priority <= heap[i \div 2].priority

\* has(), which reads the map of priorities, answers for the entries of the
\* array: the two never drift apart.
HasMatchesHeap ==
  /\ priorities = {e.item : e \in Entries}
  /\ Cardinality(Entries) = Len(heap)

\* "Remove and return highest priority item": the heap implements the bag that
\* JobQueue's dequeue, cancel and enqueue are specified with.
Abstract == INSTANCE PriorityBag WITH bag <- Entries
RefinesBag == Abstract!Spec

=============================================================================
