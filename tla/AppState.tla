------------------------------ MODULE AppState ------------------------------
(***************************************************************************)
(* The application state of lib/database/app-state-repository.ts over the  *)
(* table app_state, whose key is its primary key                           *)
(* (lib/database/pg-schema.ts).  A set is an update and, as node-postgres  *)
(* reports no rowsAffected, always an insert after it: of a key that is    *)
(* there setState throws, although the row has the new value.              *)
(***************************************************************************)
EXTENDS Integers

CONSTANTS
  Calls,
  Keys, Values,
  None,
  MaxFaults     \* bound

VARIABLES
  rows,       \* key -> value or None
  calls,      \* call -> None or [op, key, value, at]
  last,       \* history: key -> None, or the set whose statement was the last to
              \* reach the row, [call, value, ended]
  faults

vars == <<rows, calls, last, faults>>

Begin(c, op, k, v) ==
  /\ calls[c] = None
  /\ calls' = [calls EXCEPT ![c] =
       [op |-> op, key |-> k, value |-> v, at |-> "asked"]]
  /\ UNCHANGED <<rows, last, faults>>

\* Mutant: the update finds no row.
UpdatedNothing(k, v) == rows

\* The rows after the update of a key.
Updated(k, v) == [rows EXCEPT ![k] = IF @ = None THEN None ELSE v]

\* setState: the update, then the insert, which throws when the key is there.
Updates(c) ==
  /\ calls[c] # None /\ calls[c].op = "set" /\ calls[c].at = "asked"
  /\ rows' = Updated(calls[c].key, calls[c].value)
  /\ calls' = [calls EXCEPT ![c].at = "updated"]
  /\ last' = [last EXCEPT ![calls[c].key] =
       [call |-> c, value |-> calls[c].value, ended |-> FALSE]]
  /\ faults' = faults

\* Nobody has reached the row since the set that c is in the middle of updated it.
IsLast(c) == LET l == last[calls[c].key] IN l # None /\ l.call = c

Inserts(c) ==
  /\ calls[c] # None /\ calls[c].at = "updated"
  /\ LET k == calls[c].key IN
       /\ rows' = [rows EXCEPT ![k] = IF @ = None THEN calls[c].value ELSE @]
       /\ last' = IF IsLast(c) THEN [last EXCEPT ![k].ended = TRUE]
                  ELSE IF rows[k] = None THEN [last EXCEPT ![k] = None] ELSE last
  /\ calls' = [calls EXCEPT ![c] = None]
  /\ faults' = faults

DeleteState(c) ==
  /\ calls[c] # None /\ calls[c].op = "delete"
  /\ rows' = [rows EXCEPT ![calls[c].key] = None]
  /\ last' = [last EXCEPT ![calls[c].key] = None]
  /\ calls' = [calls EXCEPT ![c] = None]
  /\ faults' = faults

\* A statement fails: the call throws.
Fails(c) ==
  /\ calls[c] # None /\ faults < MaxFaults
  /\ faults' = faults + 1
  /\ calls' = [calls EXCEPT ![c] = None]
  /\ UNCHANGED <<rows, last>>

Init ==
  /\ rows = [k \in Keys |-> None]
  /\ calls = [c \in Calls |-> None]
  /\ last = [k \in Keys |-> None]
  /\ faults = 0

Next ==
  \E c \in Calls :
    \/ \E k \in Keys :
         (\E v \in Values : Begin(c, "set", k, v)) \/ Begin(c, "delete", k, None)
    \/ Updates(c) \/ Inserts(c) \/ DeleteState(c) \/ Fails(c)

Spec == Init /\ [][Next]_vars

-----------------------------------------------------------------------------
TypeOK == rows \in [Keys -> Values \union {None}]

\* What a set wrote stands once it has ended, whether it answered or threw, until
\* another call's statement reaches the row.  Of first sets of a key that overlap
\* the one whose insert comes first is the last to reach it, and the others throw.
SetsStand ==
  \A k \in Keys : last[k] # None => (last[k].ended => rows[k] = last[k].value)
=============================================================================
