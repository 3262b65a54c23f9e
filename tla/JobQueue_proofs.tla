--------------------------- MODULE JobQueue_proofs ---------------------------
(***************************************************************************)
(* Theorems about JobQueue for every value of its constants.               *)
(***************************************************************************)
EXTENDS JobQueue, FiniteSetTheorems, FunctionTheorems, SequenceTheorems,
        NaturalsInduction, WellFoundedInduction, TLAPS

(***************************************************************************)
(* Type correctness.  TypeOK is not inductive: a call takes what it writes *)
(* to the tables from its own record, so the record must be complete by    *)
(* the time the call reaches the statement.                                *)
(***************************************************************************)
CallOK(c) ==
  /\ call[c].pc \in {"exists", "insertRow", "insertMapping", "admit"}
       => call[c].id \in Ids /\ call[c].prio \in Priorities
  /\ call[c].pc \in {"updateRow", "appendHistory"} => call[c].id \in Ids
  /\ call[c].pc \in {"insertMapping", "updateRow", "appendHistory"} => call[c].pk \in Pks

\* While the process starts, no worker holds anything.
TypeInv == TypeOK /\ (\A c \in Callers : CallOK(c)) /\ (~up => held = {})

-----------------------------------------------------------------------------
(* What loadActiveJobs returns. *)

\* Each entry of the history is a history row.
LEMMA HistoryRowType ==
  ASSUME TypeOK, NEW i \in DOMAIN history
  PROVE  history[i] \in HistoryRow
<1>1. history \in Seq(HistoryRow) /\ i \in 1..Len(history)
  BY DEF TypeOK
<1> QED
  BY <1>1, ElementOfSeq

\* The join names its results by finitely many numbers.
LEMMA JoinNamesFinite ==
  ASSUME TypeOK
  PROVE  IsFiniteSet(JoinNames) /\ JoinNames \subseteq Nat
<1>1. DOMAIN history = 1..Len(history) /\ Len(history) \in Nat
  BY DEF TypeOK
<1>2. \A n \in JoinNames : n \in Nat /\ n <= MaxHistory + MaxRows
  BY <1>1, ConstAssumption, SMTT(30) DEF JoinNames, JoinedHistory, OrphanPks, ActivePks, Pks, TypeOK
<1>3. MaxHistory + MaxRows \in Nat
  BY ConstAssumption
<1> QED
  BY <1>2, <1>3, FS_BoundedSetOfNaturals, Zenon

\* A result of the join is a job, and its id tells which history row or which
\* orphan it comes from.
LEMMA RecoveredJob ==
  ASSUME TypeOK, NEW n \in JoinNames
  PROVE  /\ Recovered(n) \in Job
         /\ Recovered(n).status \in Active
         /\ Recovered(n).id \in Ids =>
              /\ n \in DOMAIN history
              /\ history[n].id = Recovered(n).id
              /\ Recovered(n).status = rows[history[n].pk]
         /\ Recovered(n).id \notin Ids =>
              /\ n = MaxHistory + Recovered(n).id
              /\ Recovered(n).id \in OrphanPks
<1> USE ConstAssumption
<1>1. DOMAIN history = 1..Len(history) /\ Len(history) \in Nat /\ Len(history) <= MaxHistory
  BY DEF TypeOK
<1>2. CASE n \in JoinedHistory
  <2>1. n \in DOMAIN history /\ n <= MaxHistory /\ history[n].pk \in ActivePks
    BY <1>1, <1>2 DEF JoinedHistory
  <2>2. history[n] \in [pk : Pks, id : Ids, prio : Priorities \cup {NoPriority}]
    BY <2>1, HistoryRowType DEF HistoryRow
  <2>3. Recovered(n) = [id |-> history[n].id, status |-> rows[history[n].pk],
           prio |-> IF history[n].prio = NoPriority THEN DefaultPriority ELSE history[n].prio]
    BY <2>1 DEF Recovered
  <2>4. rows[history[n].pk] \in Active /\ Active \subseteq Status
    BY <2>1 DEF ActivePks, Active, Status
  <2> QED
    BY <2>1, <2>2, <2>3, <2>4 DEF Job, JobIds
<1>3. CASE n \notin JoinedHistory
  <2>1. PICK pk \in OrphanPks : n = MaxHistory + pk
    BY <1>3 DEF JoinNames
  <2>2. pk \in Pks /\ pk \in Nat /\ pk >= 1 /\ rows[pk] \in Active /\ Active \subseteq Status
    BY <2>1 DEF OrphanPks, ActivePks, Pks, Active, Status
  <2>3. ~(n <= MaxHistory) /\ n - MaxHistory = pk
    BY <2>1, <2>2
  <2>4. Recovered(n) = [id |-> pk, status |-> rows[pk], prio |-> DefaultPriority]
    BY <2>3 DEF Recovered
  <2>5. pk \notin Ids
    BY <2>2
  <2> QED
    BY <2>1, <2>2, <2>4, <2>5 DEF Job, JobIds
<1> QED
  BY <1>2, <1>3

\* The list of results holds every result of the join exactly once.
LEMMA LoadedJobs ==
  ASSUME TypeOK, NEW loaded \in ActiveJobs
  PROVE  /\ loaded \in Seq(Job)
         /\ \E s \in [DOMAIN loaded -> JoinNames] :
              /\ \A k \in DOMAIN loaded : loaded[k] = Recovered(s[k])
              /\ \A j, k \in DOMAIN loaded : s[j] = s[k] => j = k
              /\ \A n \in JoinNames : \E k \in DOMAIN loaded : s[k] = n
<1> DEFINE N == Cardinality(JoinNames)
<1>1. IsFiniteSet(JoinNames) /\ N \in Nat
  BY JoinNamesFinite, FS_CardinalityType
<1>2. PICK s \in SetToSeqs(JoinNames) : loaded = [k \in DOMAIN s |-> Recovered(s[k])]
  BY DEF ActiveJobs
<1>3. s \in [1..N -> JoinNames] /\ \A i, j \in 1..N : i # j => s[i] # s[j]
  BY <1>2 DEF SetToSeqs
<1>4. DOMAIN loaded = 1..N /\ \A k \in 1..N : loaded[k] = Recovered(s[k])
  BY <1>2, <1>3
<1>5. \A k \in 1..N : loaded[k] \in Job
  BY <1>3, <1>4, RecoveredJob
<1>6. loaded \in [1..N -> Job]
  BY <1>2, <1>3, <1>4, <1>5
<1>7. loaded \in Seq(Job)
  BY <1>1, <1>6, SeqDef
<1>8. s \in Injection(1..N, JoinNames)
  BY <1>3, Fun_IsInj
<1>9. IsFiniteSet(1..N) /\ Cardinality(1..N) = N
  BY <1>1, FS_Interval
<1>10. s \in Surjection(1..N, JoinNames)
  BY <1>1, <1>8, <1>9, FS_Injection
<1>11. \A n \in JoinNames : \E k \in 1..N : s[k] = n
  BY <1>10 DEF Surjection
<1> HIDE DEF N
<1>12. s \in [DOMAIN loaded -> JoinNames]
  BY <1>3, <1>4
<1>13. \A j, k \in DOMAIN loaded : s[j] = s[k] => j = k
  BY <1>3, <1>4
<1>14. \A n \in JoinNames : \E k \in DOMAIN loaded : s[k] = n
  BY <1>4, <1>11
<1>15. \A k \in DOMAIN loaded : loaded[k] = Recovered(s[k])
  BY <1>4
<1> QED
  BY <1>7, <1>12, <1>13, <1>14, <1>15, Zenon

-----------------------------------------------------------------------------
(* Type correctness. *)

\* The record a call leaves in its place decides what is left to show of calls.
LEMMA CallsTyped ==
  ASSUME TypeInv, NEW c \in Callers, NEW new \in Call,
         call' = [call EXCEPT ![c] = new],
         new.pc \in {"exists", "insertRow", "insertMapping", "admit"}
           => new.id \in Ids /\ new.prio \in Priorities,
         new.pc \in {"updateRow", "appendHistory"} => new.id \in Ids,
         new.pc \in {"insertMapping", "updateRow", "appendHistory"} => new.pk \in Pks
  PROVE  call' \in [Callers -> Call] /\ \A d \in Callers : CallOK(d)'
<1>1. call \in [Callers -> Call] /\ \A d \in Callers : CallOK(d)
  BY DEF TypeInv, TypeOK
<1>2. \A d \in Callers : call'[d] = IF d = c THEN new ELSE call[d]
  BY <1>1
<1>3. call' \in [Callers -> Call]
  BY <1>1
<1>4. ASSUME NEW d \in Callers PROVE CallOK(d)'
  BY <1>1, <1>2 DEF CallOK
<1> QED
  BY <1>3, <1>4

\* A call that does nothing is a call.
LEMMA IdleTyped == Idle \in Call /\ Idle.pc = "idle"
  BY ConstAssumption DEF Idle, Call, Status, NoId, NoPriority

\* An appended element keeps what was there.
LEMMA AppendTyped ==
  ASSUME NEW S, NEW seq \in Seq(S), NEW e \in S
  PROVE  /\ Append(seq, e) \in Seq(S)
         /\ Len(Append(seq, e)) = Len(seq) + 1
         /\ DOMAIN seq \subseteq DOMAIN Append(seq, e)
         /\ Len(seq) + 1 \in DOMAIN Append(seq, e)
         /\ DOMAIN Append(seq, e) = DOMAIN seq \cup {Len(seq) + 1}
         /\ \A i \in DOMAIN seq : Append(seq, e)[i] = seq[i]
         /\ Append(seq, e)[Len(seq) + 1] = e
  OBVIOUS

\* The first process starts with everything in shape.
LEMMA TypeInit == Init => TypeInv
<1> SUFFICES ASSUME Init PROVE TypeInv
  OBVIOUS
<1>1. Pks \subseteq Nat /\ 1 \in 1..(MaxRows + 1)
  BY ConstAssumption DEF Pks
<1>2. \A c \in Callers : call[c] = Idle
  BY DEF Init
<1>3. \A c \in Callers : CallOK(c)
  BY <1>2, IdleTyped DEF CallOK
<1>4. call \in [Callers -> Call]
  BY IdleTyped DEF Init
<1>5. history \in Seq(HistoryRow) /\ objs \in Seq(Job) /\ Len(history) = 0
  BY DEF Init
<1>6. stats \in [total : Int, pending : Int, running : Int, completed : Int,
                  failed : Int, cancelled : Int]
  BY DEF Init, NoStats
<1>7. jobs \in [JobIds -> {NoRef} \cup DOMAIN objs] /\ rows \in [Pks -> Status \cup {"none"}]
  BY DEF Init
<1>8. /\ queue \subseteq DOMAIN objs /\ held \subseteq DOMAIN objs
      /\ accepted \subseteq Ids /\ restarts \in Nat /\ up \in BOOLEAN /\ held = {}
  BY DEF Init
<1>9. nextPk \in 1..(MaxRows + 1)
  BY <1>1 DEF Init
<1>10. Len(history) <= MaxHistory
  BY <1>5, ConstAssumption
<1> QED
  BY <1>3, <1>4, <1>5, <1>6, <1>7, <1>8, <1>9, <1>10 DEF TypeInv, TypeOK

\* The statements and the starts of calls change one call record each.
LEMMA CallStepTyped ==
  ASSUME TypeInv, NEW c \in Callers
  PROVE  /\ \A id \in Owns[c], p \in Priorities : EnqueueStart(c, id, p) => TypeInv'
         /\ \A id \in FacadeIds, p \in Priorities, s \in FacadeStatuses :
              FacadeEnqueueStart(c, id, p, s) => TypeInv'
         /\ \A id \in FacadeIds, s \in FacadeStatuses : FacadeUpdateStart(c, id, s) => TypeInv'
         /\ CheckExists(c) => TypeInv'
         /\ InsertRow(c) => TypeInv'
         /\ Resolve(c) => TypeInv'
         /\ UpdateRow(c) => TypeInv'
         /\ DbFailure(c) => TypeInv'
<1> USE ConstAssumption
<1>1. call[c] \in Call /\ CallOK(c) /\ call \in [Callers -> Call]
  BY DEF TypeInv, TypeOK
<1>2. Idle \in Call /\ Idle.pc = "idle"
  BY IdleTyped
<1>3. Owns[c] \subseteq Ids /\ FacadeIds \subseteq Ids /\ FacadeStatuses \subseteq Status
      /\ Ids \subseteq JobIds
  BY DEF JobIds
<1>4. ASSUME UNCHANGED <<dbVars, up, memVars, accepted, restarts>>,
             call' \in [Callers -> Call] /\ \A d \in Callers : CallOK(d)'
      PROVE  TypeInv'
  BY <1>4 DEF TypeInv, TypeOK, dbVars, memVars
<1>5. ASSUME NEW id \in Owns[c], NEW p \in Priorities, EnqueueStart(c, id, p) PROVE TypeInv'
  <2> DEFINE new == [Idle EXCEPT !.pc = "exists", !.mem = TRUE, !.id = id, !.prio = p]
  <2>1. new \in Call /\ new.pc = "exists" /\ new.id \in Ids /\ new.prio \in Priorities
    BY <1>2, <1>3 DEF Call
  <2>2. call' = [call EXCEPT ![c] = new] /\ UNCHANGED <<dbVars, up, memVars, accepted, restarts>>
    BY <1>5 DEF EnqueueStart
  <2> HIDE DEF new
  <2> QED
    BY <1>4, <2>1, <2>2, CallsTyped
<1>6. ASSUME NEW id \in FacadeIds, NEW p \in Priorities, NEW s \in FacadeStatuses,
             FacadeEnqueueStart(c, id, p, s)
      PROVE  TypeInv'
  <2> DEFINE new == [Idle EXCEPT !.pc = "insertRow", !.id = id, !.prio = p, !.new = s]
  <2>1. new \in Call /\ new.pc = "insertRow" /\ new.id \in Ids /\ new.prio \in Priorities
    BY <1>2, <1>3 DEF Call
  <2>2. call' = [call EXCEPT ![c] = new] /\ UNCHANGED <<dbVars, up, memVars, accepted, restarts>>
    BY <1>6 DEF FacadeEnqueueStart
  <2> HIDE DEF new
  <2> QED
    BY <1>4, <2>1, <2>2, CallsTyped
<1>7. ASSUME NEW id \in FacadeIds, NEW s \in FacadeStatuses, FacadeUpdateStart(c, id, s)
      PROVE  TypeInv'
  <2> DEFINE new == [Idle EXCEPT !.pc = "resolve", !.id = id, !.new = s]
  <2>1. new \in Call /\ new.pc = "resolve"
    BY <1>2, <1>3 DEF Call
  <2>2. call' = [call EXCEPT ![c] = new] /\ UNCHANGED <<dbVars, up, memVars, accepted, restarts>>
    BY <1>7 DEF FacadeUpdateStart
  <2> HIDE DEF new
  <2> QED
    BY <1>4, <2>1, <2>2, CallsTyped
<1>8. ASSUME CheckExists(c) PROVE TypeInv'
  <2> DEFINE new == IF MappedPks(call[c].id) = {} THEN [call[c] EXCEPT !.pc = "insertRow"] ELSE Idle
  <2>1. new \in Call /\ new.pc \in {"insertRow", "idle"}
        /\ (new.pc = "insertRow" => new.id \in Ids /\ new.prio \in Priorities)
    BY <1>1, <1>2, <1>8 DEF Call, CallOK, CheckExists
  <2>2. call' = [call EXCEPT ![c] = new] /\ UNCHANGED <<dbVars, up, memVars, accepted, restarts>>
    BY <1>1, <1>8 DEF CheckExists
  <2> HIDE DEF new
  <2> QED
    BY <1>4, <2>1, <2>2, CallsTyped
<1>9. ASSUME InsertRow(c) PROVE TypeInv'
  <2> DEFINE new == [call[c] EXCEPT !.pc = "insertMapping", !.pk = nextPk]
  <2>1. nextPk \in Pks /\ nextPk + 1 \in 1..(MaxRows + 1) /\ nextPk \in 0..MaxRows
    BY <1>9, SMTT(30) DEF InsertRow, TypeInv, TypeOK, Pks
  <2>2. new \in Call /\ new.pc = "insertMapping" /\ new.id \in Ids /\ new.prio \in Priorities
        /\ new.pk \in Pks
    BY <1>1, <1>9, <2>1 DEF Call, CallOK, InsertRow
  <2>3. call' = [call EXCEPT ![c] = new] /\ UNCHANGED <<history, up, memVars, accepted, restarts>>
    BY <1>1, <1>9 DEF InsertRow
  <2>4. call[c].new \in Status /\ rows' \in [Pks -> Status \cup {"none"}] /\ nextPk' = nextPk + 1
    BY <1>1, <1>9, <2>1 DEF Call, InsertRow, TypeInv, TypeOK
  <2> HIDE DEF new
  <2>5. call' \in [Callers -> Call] /\ \A d \in Callers : CallOK(d)'
    BY <2>2, <2>3, CallsTyped
  <2> QED
    BY <2>1, <2>3, <2>4, <2>5 DEF TypeInv, TypeOK, memVars
<1>10. ASSUME Resolve(c) PROVE TypeInv'
  <2>1. UNCHANGED <<dbVars, up, memVars, accepted, restarts>>
    BY <1>10 DEF Resolve
  <2>2. CASE Reply(c, "account")
    <3> DEFINE new == IF call[c].mem THEN [call[c] EXCEPT !.pc = "account"] ELSE Idle
    <3>1. new \in Call /\ new.pc \in {"account", "idle"}
      BY <1>1, <1>2 DEF Call
    <3>2. call' = [call EXCEPT ![c] = new]
      BY <1>1, <2>2 DEF Reply
    <3> HIDE DEF new
    <3> QED
      BY <1>4, <2>1, <3>1, <3>2, CallsTyped
  <2>3. CASE \E pk \in MappedPks(call[c].id) :
               call' = [call EXCEPT ![c].pc = "updateRow", ![c].pk = pk]
    <3>1. PICK pk \in MappedPks(call[c].id) :
               call' = [call EXCEPT ![c].pc = "updateRow", ![c].pk = pk]
      BY <2>3
    <3>2. PICK i \in DOMAIN history : history[i].id = call[c].id /\ pk = history[i].pk
      BY DEF MappedPks
    <3>3. history[i] \in HistoryRow
      BY HistoryRowType DEF TypeInv
    <3>4. call[c].id \in Ids /\ pk \in Pks /\ pk \in 0..MaxRows
      BY <3>2, <3>3 DEF Pks, HistoryRow
    <3> DEFINE new == [call[c] EXCEPT !.pc = "updateRow", !.pk = pk]
    <3>5. new \in Call /\ new.pc = "updateRow" /\ new.id \in Ids /\ new.pk \in Pks
      BY <1>1, <3>4 DEF Call
    <3>6. call' = [call EXCEPT ![c] = new]
      BY <1>1, <3>1
    <3> HIDE DEF new
    <3> QED
      BY <1>4, <2>1, <3>5, <3>6, CallsTyped
  <2> QED
    BY <1>10, <2>2, <2>3 DEF Resolve
<1>11. ASSUME UpdateRow(c) PROVE TypeInv'
  <2> DEFINE new == [call[c] EXCEPT !.pc = "appendHistory"]
  <2>1. new \in Call /\ new.pc = "appendHistory" /\ new.id \in Ids /\ new.pk \in Pks
    BY <1>1, <1>11 DEF Call, CallOK, UpdateRow
  <2>2. call' = [call EXCEPT ![c] = new] /\ UNCHANGED <<nextPk, history, up, memVars, accepted, restarts>>
    BY <1>1, <1>11 DEF UpdateRow
  <2>3. call[c].new \in Status /\ rows' \in [Pks -> Status \cup {"none"}]
    BY <1>1, <1>11 DEF Call, UpdateRow, TypeInv, TypeOK
  <2> HIDE DEF new
  <2>4. call' \in [Callers -> Call] /\ \A d \in Callers : CallOK(d)'
    BY <2>1, <2>2, CallsTyped
  <2> QED
    BY <2>2, <2>3, <2>4 DEF TypeInv, TypeOK, memVars
<1>12. ASSUME DbFailure(c) PROVE TypeInv'
  BY <1>2, <1>4, <1>12, CallsTyped DEF DbFailure
<1> QED
  BY <1>5, <1>6, <1>7, <1>8, <1>9, <1>10, <1>11, <1>12

\* The statements that write a history row keep the shape.
LEMMA AppendHistoryTyped ==
  ASSUME TypeInv, NEW c \in Callers
  PROVE  /\ InsertMapping(c) => TypeInv'
         /\ AppendHistory(c) => TypeInv'
<1> USE ConstAssumption
<1>1. call[c] \in Call /\ CallOK(c) /\ call \in [Callers -> Call] /\ history \in Seq(HistoryRow)
  BY DEF TypeInv, TypeOK
<1>2. ASSUME NEW pc \in {"admit", "account"}, Reply(c, pc),
             pc = "admit" => call[c].id \in Ids /\ call[c].prio \in Priorities
      PROVE  call' \in [Callers -> Call] /\ \A d \in Callers : CallOK(d)'
  <2> DEFINE new == IF call[c].mem THEN [call[c] EXCEPT !.pc = pc] ELSE Idle
  <2>1. new \in Call /\ new.pc \in {"admit", "account", "idle"}
        /\ (new.pc = "admit" => new.id \in Ids /\ new.prio \in Priorities)
    BY <1>1, <1>2, IdleTyped DEF Call
  <2>2. call' = [call EXCEPT ![c] = new]
    BY <1>1, <1>2 DEF Reply
  <2> HIDE DEF new
  <2> QED
    BY <2>1, <2>2, CallsTyped
<1>3. ASSUME NEW row \in HistoryRow, Len(history) < MaxHistory, history' = Append(history, row),
             UNCHANGED <<rows, nextPk, up, memVars, accepted, restarts>>,
             call' \in [Callers -> Call], \A d \in Callers : CallOK(d)'
      PROVE  TypeInv'
  <2>1. history' \in Seq(HistoryRow) /\ Len(history') = Len(history) + 1
    BY <1>1, <1>3, AppendTyped
  <2>2. Len(history') <= MaxHistory
    BY <1>1, <1>3, <2>1
  <2> QED
    BY <1>3, <2>1, <2>2 DEF TypeInv, TypeOK, memVars
<1>4. ASSUME InsertMapping(c) PROVE TypeInv'
  <2>1. [pk |-> call[c].pk, id |-> call[c].id, prio |-> call[c].prio] \in HistoryRow
    BY <1>1, <1>4 DEF CallOK, Call, HistoryRow, InsertMapping
  <2>2. call[c].id \in Ids /\ call[c].prio \in Priorities
    BY <1>1, <1>4 DEF CallOK, InsertMapping
  <2> QED
    BY <1>2, <1>3, <1>4, <2>1, <2>2 DEF InsertMapping
<1>5. ASSUME AppendHistory(c) PROVE TypeInv'
  <2>1. [pk |-> call[c].pk, id |-> call[c].id, prio |-> NoPriority] \in HistoryRow
    BY <1>1, <1>5 DEF CallOK, Call, HistoryRow, AppendHistory
  <2> QED
    BY <1>2, <1>3, <1>5, <2>1 DEF AppendHistory
<1> QED
  BY <1>4, <1>5

\* Changing the status of one object keeps the list of objects.
LEMMA ObjTyped ==
  ASSUME TypeOK, NEW r \in DOMAIN objs, NEW s \in Status
  PROVE  LET new == [objs EXCEPT ![r].status = s]
         IN  /\ new \in Seq(Job) /\ DOMAIN new = DOMAIN objs
             /\ new[r] = [objs[r] EXCEPT !.status = s]
             /\ new[r].id = objs[r].id /\ new[r].prio = objs[r].prio /\ new[r].status = s
             /\ \A q \in DOMAIN objs : q # r => new[q] = objs[q]
<1> DEFINE e == [objs[r] EXCEPT !.status = s]
           new == [objs EXCEPT ![r] = e]
<1>1. objs \in Seq(Job) /\ r \in 1..Len(objs) /\ DOMAIN objs = 1..Len(objs)
  BY DEF TypeOK
<1>2. objs[r] \in Job
  BY <1>1, ElementOfSeq
<1>3. e \in Job /\ e.id = objs[r].id /\ e.prio = objs[r].prio /\ e.status = s
  BY <1>2 DEF Job
<1> HIDE DEF e
<1>4. new \in Seq(Job) /\ Len(new) = Len(objs)
      /\ \A q \in 1..Len(objs) : new[q] = IF q = r THEN e ELSE objs[q]
  BY <1>1, <1>3, ExceptSeq
<1>5. DOMAIN new = DOMAIN objs
  BY <1>1
<1>6. [objs EXCEPT ![r].status = s] = new
  BY DEF e
<1>7. new[r] = e /\ \A q \in DOMAIN objs : q # r => new[q] = objs[q]
  BY <1>1, <1>4
<1> HIDE DEF new
<1> QED
  BY <1>3, <1>4, <1>5, <1>6, <1>7 DEF e

Stats == [total : Int, pending : Int, running : Int, completed : Int,
          failed : Int, cancelled : Int]

\* The steps that touch only the process's memory keep the shape.
LEMMA MemoryStepTyped ==
  ASSUME TypeInv, NEW c \in Callers
  PROVE  /\ Admit(c) => TypeInv'
         /\ \A id \in JobIds, s \in Targets : UpdateStart(c, id, s) => TypeInv'
         /\ Account(c) => TypeInv'
<1> USE ConstAssumption
<1>1. call[c] \in Call /\ CallOK(c) /\ call \in [Callers -> Call]
  BY DEF TypeInv, TypeOK
<1>2. /\ objs \in Seq(Job) /\ DOMAIN objs = 1..Len(objs) /\ Len(objs) \in Nat
      /\ queue \subseteq DOMAIN objs /\ held \subseteq DOMAIN objs /\ stats \in Stats
      /\ jobs \in [JobIds -> {NoRef} \cup DOMAIN objs] /\ Ids \subseteq JobIds
  BY DEF TypeInv, TypeOK, Stats, JobIds
<1>3. ASSUME NEW r \in DOMAIN objs PROVE objs[r] \in Job
  BY <1>2, ElementOfSeq
<1>4. ASSUME Admit(c) PROVE TypeInv'
  <2> DEFINE e == [id |-> call[c].id, prio |-> call[c].prio, status |-> "pending"]
             ref == Len(objs) + 1
  <2>1. call[c].id \in Ids /\ e \in Job
    BY <1>1, <1>2, <1>4 DEF CallOK, Job, Status, Admit
  <2>2. objs' = Append(objs, e)
    BY <1>4 DEF Admit
  <2> HIDE DEF e
  <2>3. objs' \in Seq(Job) /\ DOMAIN objs' = DOMAIN objs \cup {ref}
    BY <1>2, <2>1, <2>2, AppendTyped
  <2>4. queue' \subseteq DOMAIN objs' /\ held' \subseteq DOMAIN objs'
        /\ jobs' \in [JobIds -> {NoRef} \cup DOMAIN objs']
    BY <1>2, <1>4, <2>1, <2>3 DEF Admit
  <2>5. stats' \in Stats
    <3>1. stats.total + 1 \in Int /\ stats.pending + 1 \in Int
      BY <1>2 DEF Stats
    <3> QED
      BY <1>2, <1>4, <3>1 DEF Admit, Stats
  <2>6. accepted' \subseteq Ids
    BY <1>4, <2>1 DEF Admit, TypeInv, TypeOK
  <2>7. call' \in [Callers -> Call] /\ \A d \in Callers : CallOK(d)'
    BY <1>4, IdleTyped, CallsTyped DEF Admit
  <2> QED
    BY <1>4, <2>3, <2>4, <2>5, <2>6, <2>7 DEF Admit, TypeInv, TypeOK, dbVars, Stats
<1>5. ASSUME NEW id \in JobIds, NEW s \in Targets, UpdateStart(c, id, s) PROVE TypeInv'
  <2>1. jobs[id] \in DOMAIN objs /\ s \in Status
    BY <1>2, <1>5 DEF UpdateStart
  <2>2. objs' = [objs EXCEPT ![jobs[id]].status = s]
    BY <1>5 DEF UpdateStart
  <2>3. objs' \in Seq(Job) /\ DOMAIN objs' = DOMAIN objs
    BY <2>1, <2>2, ObjTyped DEF TypeInv
  <2> DEFINE new == [Idle EXCEPT !.pc = "resolve", !.mem = TRUE, !.id = id,
                                 !.old = objs[jobs[id]].status, !.new = s]
  <2>4. new \in Call /\ new.pc = "resolve"
    BY <1>3, <2>1, IdleTyped DEF Call, Job
  <2>5. call' = [call EXCEPT ![c] = new]
    BY <1>5 DEF UpdateStart
  <2> HIDE DEF new
  <2>6. call' \in [Callers -> Call] /\ \A d \in Callers : CallOK(d)'
    BY <2>4, <2>5, CallsTyped
  <2>7. held' \subseteq DOMAIN objs'
    BY <1>2, <1>5, <2>3 DEF UpdateStart
  <2> QED
    BY <1>5, <2>3, <2>6, <2>7 DEF UpdateStart, TypeInv, TypeOK, dbVars
<1>6. ASSUME Account(c) PROVE TypeInv'
  <2>1. stats' \in Stats
    <3> DEFINE Delta(t) == (IF call[c].new = t THEN 1 ELSE 0)
                    - (IF call[c].old = t /\ t \in {"pending", "running"} THEN 1 ELSE 0)
    <3>1. /\ Delta("pending") \in Int /\ Delta("running") \in Int /\ Delta("completed") \in Int
          /\ Delta("failed") \in Int /\ Delta("cancelled") \in Int
      OBVIOUS
    <3>2. stats' = [stats EXCEPT
                     !.pending = @ + Delta("pending"),
                     !.running = @ + Delta("running"),
                     !.completed = @ + Delta("completed"),
                     !.failed = @ + Delta("failed"),
                     !.cancelled = @ + Delta("cancelled")]
      BY <1>6 DEF Account
    <3> HIDE DEF Delta
    <3>3. /\ stats.pending \in Int /\ stats.running \in Int /\ stats.completed \in Int
          /\ stats.failed \in Int /\ stats.cancelled \in Int
      BY <1>2 DEF Stats
    <3>4. /\ stats.pending + Delta("pending") \in Int
          /\ stats.running + Delta("running") \in Int
          /\ stats.completed + Delta("completed") \in Int
          /\ stats.failed + Delta("failed") \in Int
          /\ stats.cancelled + Delta("cancelled") \in Int
      BY <3>1, <3>3
    <3> QED
      BY <1>2, <3>2, <3>4 DEF Stats
  <2>2. call' \in [Callers -> Call] /\ \A d \in Callers : CallOK(d)'
    BY <1>6, IdleTyped, CallsTyped DEF Account
  <2> QED
    BY <1>6, <2>1, <2>2 DEF Account, TypeInv, TypeOK, dbVars, Stats
<1> QED
  BY <1>4, <1>5, <1>6

\* So do dequeue and cancel.
LEMMA QueueStepTyped ==
  ASSUME TypeInv
  PROVE  /\ \A r \in queue : Dequeue(r) => TypeInv'
         /\ \A id \in JobIds : Cancel(id) => TypeInv'
<1> USE ConstAssumption
<1>1. /\ objs \in Seq(Job) /\ DOMAIN objs = 1..Len(objs) /\ Len(objs) \in Nat
      /\ queue \subseteq DOMAIN objs /\ held \subseteq DOMAIN objs /\ stats \in Stats
      /\ jobs \in [JobIds -> {NoRef} \cup DOMAIN objs]
  BY DEF TypeInv, TypeOK, Stats
<1>2. ASSUME NEW r \in DOMAIN objs PROVE objs[r] \in Job
  BY <1>1, ElementOfSeq
<1>3. ASSUME NEW r \in queue, Dequeue(r) PROVE TypeInv'
  <2>1. r \in DOMAIN objs /\ "running" \in Status
    BY <1>1 DEF Status
  <2>2. objs' = [objs EXCEPT ![r].status = "running"]
    BY <1>3 DEF Dequeue
  <2>3. objs' \in Seq(Job) /\ DOMAIN objs' = DOMAIN objs
    BY <2>1, <2>2, ObjTyped DEF TypeInv
  <2>4. objs[r].id \in JobIds
    BY <1>2, <2>1 DEF Job
  <2>5. jobs' \in [JobIds -> {NoRef} \cup DOMAIN objs']
    BY <1>1, <1>3, <2>1, <2>3, <2>4 DEF Dequeue
  <2>6. stats' \in Stats
    <3>1. stats.pending - 1 \in Int /\ stats.running + 1 \in Int
      BY <1>1 DEF Stats
    <3> QED
      BY <1>1, <1>3, <3>1 DEF Dequeue, Stats
  <2>7. queue' \subseteq DOMAIN objs' /\ held' \subseteq DOMAIN objs'
    BY <1>1, <1>3, <2>1, <2>3 DEF Dequeue
  <2>8. \A d \in Callers : CallOK(d)'
    BY <1>3 DEF Dequeue, TypeInv, CallOK
  <2> QED
    BY <1>3, <2>3, <2>5, <2>6, <2>7, <2>8 DEF Dequeue, TypeInv, TypeOK, dbVars, Stats
<1>4. ASSUME NEW id \in JobIds, Cancel(id) PROVE TypeInv'
  <2>1. jobs[id] \in DOMAIN objs /\ "cancelled" \in Status
    BY <1>1, <1>4 DEF Cancel, Status
  <2>2. objs' = [objs EXCEPT ![jobs[id]].status = "cancelled"]
    BY <1>4 DEF Cancel
  <2>3. objs' \in Seq(Job) /\ DOMAIN objs' = DOMAIN objs
    BY <2>1, <2>2, ObjTyped DEF TypeInv
  <2>4. stats' \in Stats
    <3> DEFINE p == IF objs[jobs[id]].status = "pending" THEN stats.pending - 1 ELSE stats.pending
               q == IF objs[jobs[id]].status = "running" THEN stats.running - 1 ELSE stats.running
    <3>1. p \in Int /\ q \in Int /\ stats.cancelled + 1 \in Int
      BY <1>1 DEF Stats
    <3>2. stats' = [stats EXCEPT !.pending = p, !.running = q, !.cancelled = @ + 1]
      BY <1>4 DEF Cancel
    <3> HIDE DEF p, q
    <3> QED
      BY <1>1, <3>1, <3>2 DEF Stats
  <2>5. queue' \subseteq DOMAIN objs'
    BY <1>1, <1>4, <2>3 DEF Cancel
  <2>6. \A d \in Callers : CallOK(d)'
    BY <1>4 DEF Cancel, TypeInv, CallOK
  <2> QED
    BY <1>4, <2>3, <2>4, <2>5, <2>6 DEF Cancel, TypeInv, TypeOK, dbVars, Stats
<1> QED
  BY <1>3, <1>4

\* So do clear, recovery, cleanup and restart.
LEMMA ProcessStepTyped ==
  ASSUME TypeInv
  PROVE  /\ Clear => TypeInv'
         /\ LoadPersistedJobs => TypeInv'
         /\ LoadFails => TypeInv'
         /\ CleanupOldJobs => TypeInv'
         /\ Restart => TypeInv'
<1> USE ConstAssumption
<1>1. NoStats \in Stats /\ <<>> \in Seq(Job)
  BY DEF NoStats, Stats
<1>2. ASSUME Clear PROVE TypeInv'
  <2>1. \A d \in Callers : CallOK(d)'
    BY <1>2 DEF Clear, TypeInv, CallOK
  <2> QED
    BY <1>1, <1>2, <2>1 DEF Clear, TypeInv, TypeOK, dbVars, Stats
<1>3. ASSUME LoadPersistedJobs PROVE TypeInv'
  <2> DEFINE With(l, s) == {k \in DOMAIN l : l[k].status = s}
             LastWith(l, id) == {k \in DOMAIN l :
                                  /\ l[k].id = id
                                  /\ \A j \in DOMAIN l : j > k => l[j].id # id}
  <2>1. PICK loaded \in ActiveJobs :
           /\ objs' = loaded
           /\ jobs' = [id \in JobIds |-> IF LastWith(loaded, id) = {} THEN NoRef
                                         ELSE CHOOSE k \in LastWith(loaded, id) : TRUE]
           /\ queue' = With(loaded, "pending")
           /\ stats' = [NoStats EXCEPT !.total = Len(loaded),
                                       !.pending = Cardinality(With(loaded, "pending")),
                                       !.running = Cardinality(With(loaded, "running")),
                                       !.failed = Cardinality(With(loaded, "failed"))]
    BY <1>3, Zenon DEF LoadPersistedJobs
  <2>2. loaded \in Seq(Job) /\ DOMAIN loaded = 1..Len(loaded) /\ Len(loaded) \in Nat
    BY LoadedJobs DEF TypeInv
  <2>3. \A s : Cardinality(With(loaded, s)) \in Nat
    <3>1. IsFiniteSet(1..Len(loaded))
      BY <2>2, FS_Interval
    <3>2. \A s : With(loaded, s) \in SUBSET (1..Len(loaded))
      BY <2>2
    <3> QED
      BY <3>1, <3>2, FS_Subset, FS_CardinalityType
  <2>8. held' \subseteq DOMAIN objs' /\ queue' \subseteq DOMAIN objs'
    BY <1>3, <2>1 DEF LoadPersistedJobs, TypeInv
  <2> HIDE DEF With
  <2>4. stats' \in Stats
    <3> DEFINE p == Cardinality(With(loaded, "pending"))
               q == Cardinality(With(loaded, "running"))
               f == Cardinality(With(loaded, "failed"))
    <3>1. p \in Int /\ q \in Int /\ f \in Int /\ Len(loaded) \in Int
      BY <2>2, <2>3
    <3>2. stats' = [NoStats EXCEPT !.total = Len(loaded), !.pending = p, !.running = q, !.failed = f]
      BY <2>1
    <3> HIDE DEF p, q, f
    <3> QED
      BY <1>1, <3>1, <3>2 DEF Stats
  <2>5. \A id \in JobIds : jobs'[id] \in {NoRef} \cup DOMAIN objs'
    BY <2>1
  <2>6. jobs' \in [JobIds -> {NoRef} \cup DOMAIN objs']
    BY <2>1, <2>5
  <2>7. \A d \in Callers : CallOK(d)'
    BY <1>3 DEF LoadPersistedJobs, TypeInv, CallOK
  <2> QED
    BY <1>3, <2>1, <2>2, <2>4, <2>6, <2>7, <2>8 DEF LoadPersistedJobs, TypeInv, TypeOK, dbVars, Stats
<1>4. ASSUME LoadFails PROVE TypeInv'
  BY <1>4 DEF LoadFails, TypeInv, TypeOK, CallOK, dbVars, memVars
<1>5. ASSUME CleanupOldJobs PROVE TypeInv'
  <2>1. \A d \in Callers : CallOK(d)'
    BY <1>5 DEF CleanupOldJobs, TypeInv, CallOK
  <2> QED
    BY <1>5, <2>1 DEF CleanupOldJobs, TypeInv, TypeOK, memVars
<1>6. ASSUME Restart PROVE TypeInv'
  <2>1. \A d \in Callers : CallOK(d)'
    BY <1>6, IdleTyped DEF Restart, TypeInv, CallOK
  <2>2. call' \in [Callers -> Call]
    BY <1>6, IdleTyped DEF Restart
  <2>3. restarts' \in Nat
    BY <1>6 DEF Restart, TypeInv, TypeOK
  <2> QED
    BY <1>1, <1>6, <2>1, <2>2, <2>3 DEF Restart, TypeInv, TypeOK, dbVars, Stats
<1> QED
  BY <1>2, <1>3, <1>4, <1>5, <1>6

\* Every step keeps the shape.
LEMMA TypeStep == TypeInv /\ [Next]_vars => TypeInv'
<1> SUFFICES ASSUME TypeInv, [Next]_vars PROVE TypeInv'
  OBVIOUS
<1>1. ASSUME NEW c \in Callers, CallStart(c) PROVE TypeInv'
  BY <1>1, CallStepTyped, MemoryStepTyped DEF CallStart
<1>2. ASSUME NEW c \in Callers, FacadeStart(c) PROVE TypeInv'
  BY <1>2, CallStepTyped DEF FacadeStart
<1>3. ASSUME NEW c \in Callers, Statement(c) PROVE TypeInv'
  BY <1>3, CallStepTyped, AppendHistoryTyped, MemoryStepTyped DEF Statement
<1>4. ASSUME NEW c \in Callers, DbFailure(c) PROVE TypeInv'
  BY <1>4, CallStepTyped
<1>5. ASSUME NEW r \in queue, Dequeue(r) PROVE TypeInv'
  BY <1>5, QueueStepTyped
<1>6. ASSUME NEW id \in JobIds, Cancel(id) PROVE TypeInv'
  BY <1>6, QueueStepTyped
<1>7. ASSUME Clear \/ LoadPersistedJobs \/ LoadFails \/ CleanupOldJobs \/ Restart PROVE TypeInv'
  BY <1>7, ProcessStepTyped
<1>8. CASE UNCHANGED vars
  BY <1>8 DEF TypeInv, TypeOK, CallOK, vars, dbVars, memVars
<1> QED
  BY <1>1, <1>2, <1>3, <1>4, <1>5, <1>6, <1>7, <1>8 DEF Next

\* The tables, the map, the queue and the calls keep their shape in every
\* reachable state, and a reference in the map or the queue always points to an
\* object of the current process life.
THEOREM TypeCorrect == Spec => []TypeOK
<1>1. TypeInv => TypeOK
  BY DEF TypeInv
<1> QED
  BY TypeInit, TypeStep, <1>1, PTL DEF Spec

-----------------------------------------------------------------------------
(***************************************************************************)
(* An accepted job is durable.  What makes AcceptedIsDurable inductive is  *)
(* that every object in memory, whether enqueue or recovery created it,    *)
(* stands for a mapped id, and that table job_history only ever grows.     *)
(***************************************************************************)
MappedIds == {history[i].id : i \in DOMAIN history}

DurableInv ==
  /\ \A id \in accepted : id \in MappedIds
  /\ \A r \in DOMAIN objs : objs[r].id \in Ids => objs[r].id \in MappedIds
  /\ \A id \in Ids : jobs[id] # NoRef => id \in MappedIds
  /\ \A c \in Callers : call[c].pc = "admit" => call[c].id \in MappedIds

\* An id is mapped when the store's lookup finds a row for it.
LEMMA MappedMeansRow == ASSUME NEW id PROVE id \in MappedIds <=> MappedPks(id) # {}
  BY DEF MappedIds, MappedPks

\* No step deletes or changes a history row.
LEMMA HistoryGrows ==
  ASSUME TypeInv, [Next]_vars
  PROVE  \/ UNCHANGED history
         \/ \E c \in Callers : \E row \in HistoryRow :
              /\ InsertMapping(c) \/ AppendHistory(c)
              /\ history' = Append(history, row)
              /\ row.id = call[c].id /\ row.pk = call[c].pk
<1>1. ASSUME NEW c \in Callers, InsertMapping(c) \/ AppendHistory(c)
      PROVE  \E row \in HistoryRow :
               history' = Append(history, row) /\ row.id = call[c].id /\ row.pk = call[c].pk
  <2>1. call[c] \in Call /\ CallOK(c)
    BY DEF TypeInv, TypeOK
  <2>2. CASE InsertMapping(c)
    <3> DEFINE row == [pk |-> call[c].pk, id |-> call[c].id, prio |-> call[c].prio]
    <3>1. row \in HistoryRow
      BY <2>1, <2>2 DEF CallOK, Call, HistoryRow, InsertMapping
    <3> QED
      BY <2>2, <3>1 DEF InsertMapping
  <2>3. CASE AppendHistory(c)
    <3> DEFINE row == [pk |-> call[c].pk, id |-> call[c].id, prio |-> NoPriority]
    <3>1. row \in HistoryRow
      BY <2>1, <2>3 DEF CallOK, Call, HistoryRow, AppendHistory
    <3> QED
      BY <2>3, <3>1 DEF AppendHistory
  <2> QED
    BY <1>1, <2>2, <2>3
<1>2. ASSUME NEW c \in Callers,
             CallStart(c) \/ FacadeStart(c) \/ DbFailure(c) \/ CheckExists(c) \/ InsertRow(c)
               \/ Admit(c) \/ Resolve(c) \/ UpdateRow(c) \/ Account(c)
      PROVE  UNCHANGED history
  BY <1>2 DEF CallStart, FacadeStart, EnqueueStart, UpdateStart, FacadeEnqueueStart,
       FacadeUpdateStart, DbFailure, CheckExists, InsertRow, Admit, Resolve, UpdateRow,
       Account, dbVars
<1>3. ASSUME \/ \E r \in queue : Dequeue(r)
             \/ \E id \in JobIds : Cancel(id)
             \/ Clear \/ LoadPersistedJobs \/ LoadFails \/ CleanupOldJobs \/ Restart
             \/ UNCHANGED vars
      PROVE  UNCHANGED history
  BY <1>3 DEF Dequeue, Cancel, Clear, LoadPersistedJobs, LoadFails, CleanupOldJobs, Restart,
       vars, dbVars
<1> QED
  BY <1>1, <1>2, <1>3 DEF Next, Statement

\* Once mapped, always mapped.
LEMMA MappedStays ==
  ASSUME TypeInv, [Next]_vars, NEW id, id \in MappedIds
  PROVE  id \in MappedIds'
<1>1. history \in Seq(HistoryRow)
  BY DEF TypeInv, TypeOK
<1>2. ASSUME NEW row \in HistoryRow, history' = Append(history, row) PROVE id \in MappedIds'
  BY <1>1, <1>2, AppendTyped DEF MappedIds
<1>3. CASE UNCHANGED history
  BY <1>3 DEF MappedIds
<1> QED
  BY <1>2, <1>3, HistoryGrows

\* The first process holds no job.
LEMMA DurableInit == Init => DurableInv
<1> SUFFICES ASSUME Init PROVE DurableInv
  OBVIOUS
<1>1. \A c \in Callers : call[c].pc # "admit"
  BY IdleTyped DEF Init
<1>2. \A id \in Ids : jobs[id] = NoRef
  BY DEF Init, JobIds
<1> QED
  BY <1>1, <1>2 DEF Init, DurableInv

\* Every step leaves each held or accepted job mapped in the store.
LEMMA DurableStep == TypeInv /\ DurableInv /\ [Next]_vars => DurableInv'
<1> SUFFICES ASSUME TypeInv, DurableInv, [Next]_vars PROVE DurableInv'
  OBVIOUS
<1> USE ConstAssumption
<1>1. \A id : id \in MappedIds => id \in MappedIds'
  BY MappedStays
<1>2. /\ objs \in Seq(Job) /\ DOMAIN objs = 1..Len(objs) /\ call \in [Callers -> Call]
      /\ history \in Seq(HistoryRow) /\ jobs \in [JobIds -> {NoRef} \cup DOMAIN objs]
      /\ queue \subseteq DOMAIN objs /\ Ids \subseteq JobIds
  BY DEF TypeInv, TypeOK, JobIds
\* What a step has to show that leaves the objects' ids, the map and accepted alone.
<1>3. ASSUME UNCHANGED <<jobs, accepted>>, DOMAIN objs' = DOMAIN objs,
             \A r \in DOMAIN objs : objs'[r].id = objs[r].id,
             \A c \in Callers : call'[c].pc = "admit" => call'[c].id \in MappedIds'
      PROVE  DurableInv'
  BY <1>1, <1>3 DEF DurableInv
<1>4. ASSUME NEW c \in Callers, call' = [call EXCEPT ![c] = call'[c]],
             call'[c].pc = "admit" => call'[c].id \in MappedIds'
      PROVE  \A d \in Callers : call'[d].pc = "admit" => call'[d].id \in MappedIds'
  BY <1>1, <1>2, <1>4 DEF DurableInv
<1>5. ASSUME NEW c \in Callers, CallStart(c) PROVE DurableInv'
  <2>1. CASE \E id \in Owns[c], p \in Priorities : EnqueueStart(c, id, p)
    <3>1. call' = [call EXCEPT ![c] = call'[c]] /\ call'[c].pc # "admit"
      BY <1>2, <2>1 DEF EnqueueStart, Idle
    <3>2. UNCHANGED <<jobs, objs, accepted>>
      BY <2>1 DEF EnqueueStart, memVars
    <3> QED
      BY <1>3, <1>4, <3>1, <3>2
  <2>2. ASSUME NEW id \in JobIds, NEW s \in Targets, UpdateStart(c, id, s) PROVE DurableInv'
    <3>1. jobs[id] \in DOMAIN objs /\ s \in Status /\ objs' = [objs EXCEPT ![jobs[id]].status = s]
      BY <1>2, <2>2 DEF UpdateStart
    <3>2. DOMAIN objs' = DOMAIN objs /\ \A r \in DOMAIN objs : objs'[r].id = objs[r].id
      BY <3>1, ObjTyped DEF TypeInv
    <3>3. call' = [call EXCEPT ![c] = call'[c]] /\ call'[c].pc = "resolve"
      BY <1>2, <2>2 DEF UpdateStart, Idle
    <3> QED
      BY <1>3, <1>4, <2>2, <3>2, <3>3 DEF UpdateStart
  <2> QED
    BY <1>5, <2>1, <2>2 DEF CallStart
<1>6. ASSUME NEW c \in Callers, FacadeStart(c) PROVE DurableInv'
  <2>1. call' = [call EXCEPT ![c] = call'[c]] /\ call'[c].pc # "admit"
    <3>1. CASE \E id \in FacadeIds, p \in Priorities, s \in FacadeStatuses : FacadeEnqueueStart(c, id, p, s)
      BY <1>2, <3>1 DEF FacadeEnqueueStart, Idle
    <3>2. CASE \E id \in FacadeIds, s \in FacadeStatuses : FacadeUpdateStart(c, id, s)
      BY <1>2, <3>2 DEF FacadeUpdateStart, Idle
    <3> QED
      BY <1>6, <3>1, <3>2 DEF FacadeStart
  <2>2. UNCHANGED <<jobs, objs, accepted>>
    BY <1>6 DEF FacadeStart, FacadeEnqueueStart, FacadeUpdateStart, memVars
  <2> QED
    BY <1>3, <1>4, <2>1, <2>2
<1>7. ASSUME NEW c \in Callers, Statement(c) PROVE DurableInv'
  <2>1. CASE CheckExists(c) \/ InsertRow(c) \/ Resolve(c) \/ UpdateRow(c) \/ Account(c)
    <3>1. call' = [call EXCEPT ![c] = call'[c]] /\ call'[c].pc # "admit"
      BY <1>2, <2>1 DEF CheckExists, InsertRow, Resolve, UpdateRow, Account, Reply, Idle, Call
    <3>2. UNCHANGED <<jobs, objs, accepted>>
      BY <2>1 DEF CheckExists, InsertRow, Resolve, UpdateRow, Account, memVars
    <3> QED
      BY <1>3, <1>4, <3>1, <3>2
  <2>2. CASE InsertMapping(c) \/ AppendHistory(c)
    <3>1. PICK row \in HistoryRow : history' = Append(history, row) /\ row.id = call[c].id
      <4>1. CASE InsertMapping(c)
        <5>1. [pk |-> call[c].pk, id |-> call[c].id, prio |-> call[c].prio] \in HistoryRow
          BY <1>2, <4>1 DEF TypeInv, CallOK, Call, HistoryRow, InsertMapping
        <5> QED
          BY <4>1, <5>1 DEF InsertMapping
      <4>2. CASE AppendHistory(c)
        <5>1. [pk |-> call[c].pk, id |-> call[c].id, prio |-> NoPriority] \in HistoryRow
          BY <1>2, <4>2 DEF TypeInv, CallOK, Call, HistoryRow, AppendHistory
        <5> QED
          BY <4>2, <5>1 DEF AppendHistory
      <4> QED
        BY <2>2, <4>1, <4>2
    <3>2. call[c].id \in MappedIds'
      <4>1. /\ Len(history) + 1 \in DOMAIN history'
            /\ history'[Len(history) + 1] = row
        BY <1>2, <3>1, AppendTyped
      <4> QED
        BY <3>1, <4>1 DEF MappedIds
    <3>3. call' = [call EXCEPT ![c] = call'[c]] /\ (call'[c].pc = "admit" => call'[c].id = call[c].id)
      BY <1>2, <2>2 DEF InsertMapping, AppendHistory, Reply, Idle, Call
    <3>4. UNCHANGED <<jobs, objs, accepted>>
      BY <2>2 DEF InsertMapping, AppendHistory, memVars
    <3> QED
      BY <1>3, <1>4, <3>2, <3>3, <3>4
  <2>3. CASE Admit(c)
    <3> DEFINE e == [id |-> call[c].id, prio |-> call[c].prio, status |-> "pending"]
               ref == Len(objs) + 1
    <3>1. call[c].id \in MappedIds' /\ call[c].id \in Ids /\ e \in Job /\ e.id = call[c].id
      BY <1>1, <1>2, <2>3 DEF Admit, DurableInv, TypeInv, CallOK, Job, Status
    <3>2. objs' = Append(objs, e)
      BY <2>3 DEF Admit
    <3> HIDE DEF e
    <3>3. /\ DOMAIN objs' = DOMAIN objs \cup {ref}
          /\ \A r \in DOMAIN objs : objs'[r] = objs[r]
          /\ objs'[ref] = e
      BY <1>2, <3>1, <3>2, AppendTyped
    <3>4. \A r \in DOMAIN objs' : objs'[r].id \in Ids => objs'[r].id \in MappedIds'
      BY <1>1, <3>1, <3>3 DEF DurableInv
    <3>5. \A id \in accepted' : id \in MappedIds'
      BY <1>1, <2>3, <3>1 DEF Admit, DurableInv
    <3>6. \A id \in Ids : jobs'[id] # NoRef => id \in MappedIds'
      BY <1>1, <1>2, <2>3, <3>1 DEF Admit, DurableInv
    <3>7. \A d \in Callers : call'[d].pc = "admit" => call'[d].id \in MappedIds'
      BY <1>1, <1>2, <2>3, IdleTyped DEF Admit, DurableInv
    <3> QED
      BY <3>4, <3>5, <3>6, <3>7 DEF DurableInv
  <2> QED
    BY <1>7, <2>1, <2>2, <2>3 DEF Statement
<1>8. ASSUME NEW c \in Callers, DbFailure(c) PROVE DurableInv'
  BY <1>2, <1>3, <1>4, <1>8, IdleTyped DEF DbFailure, memVars
<1>9. ASSUME NEW r \in queue, Dequeue(r) PROVE DurableInv'
  <2>1. r \in DOMAIN objs /\ objs' = [objs EXCEPT ![r].status = "running"] /\ "running" \in Status
    BY <1>2, <1>9 DEF Dequeue, Status
  <2>2. DOMAIN objs' = DOMAIN objs /\ \A q \in DOMAIN objs : objs'[q].id = objs[q].id
    BY <2>1, ObjTyped DEF TypeInv
  <2>3. \A id \in Ids : jobs'[id] # NoRef => id \in MappedIds'
    BY <1>1, <1>2, <1>9, <2>1 DEF Dequeue, DurableInv
  <2> QED
    BY <1>1, <1>9, <2>2, <2>3 DEF Dequeue, DurableInv
<1>10. ASSUME NEW id \in JobIds, Cancel(id) PROVE DurableInv'
  <2>1. jobs[id] \in DOMAIN objs /\ objs' = [objs EXCEPT ![jobs[id]].status = "cancelled"]
        /\ "cancelled" \in Status
    BY <1>2, <1>10 DEF Cancel, Status
  <2>2. DOMAIN objs' = DOMAIN objs /\ \A q \in DOMAIN objs : objs'[q].id = objs[q].id
    BY <2>1, ObjTyped DEF TypeInv
  <2> QED
    BY <1>1, <1>3, <1>10, <2>2 DEF Cancel, DurableInv
<1>11. ASSUME Clear \/ Restart PROVE DurableInv'
  BY <1>1, <1>2, <1>11, IdleTyped DEF Clear, Restart, DurableInv
<1>12. ASSUME LoadPersistedJobs PROVE DurableInv'
  <2>1. PICK loaded \in ActiveJobs :
           /\ objs' = loaded
           /\ \A id \in JobIds : jobs'[id] # NoRef => \E k \in DOMAIN loaded : loaded[k].id = id
    BY <1>12 DEF LoadPersistedJobs
  <2>2. PICK s \in [DOMAIN loaded -> JoinNames] : \A k \in DOMAIN loaded : loaded[k] = Recovered(s[k])
    BY LoadedJobs DEF TypeInv
  <2>3. \A k \in DOMAIN loaded : loaded[k].id \in Ids => loaded[k].id \in MappedIds
    BY <2>2, RecoveredJob DEF TypeInv, MappedIds
  <2>4. UNCHANGED <<accepted, call>>
    BY <1>12 DEF LoadPersistedJobs
  <2> QED
    BY <1>1, <1>2, <2>1, <2>3, <2>4 DEF DurableInv
<1>13. ASSUME LoadFails \/ CleanupOldJobs \/ UNCHANGED vars PROVE DurableInv'
  BY <1>1, <1>13 DEF LoadFails, CleanupOldJobs, DurableInv, memVars, vars
<1> QED
  BY <1>5, <1>6, <1>7, <1>8, <1>9, <1>10, <1>11, <1>12, <1>13 DEF Next

\* A job whose enqueue has returned, and every job in memory, can be found in
\* the store by its id, whatever failures and restarts there are.
THEOREM AcceptedJobsAreDurable == Spec => []AcceptedIsDurable
<1>1. DurableInv => AcceptedIsDurable
  BY MappedMeansRow DEF DurableInv, AcceptedIsDurable
<1> QED
  BY TypeInit, TypeStep, DurableInit, DurableStep, <1>1, PTL DEF Spec
-----------------------------------------------------------------------------
(***************************************************************************)
(* What the steps that change the memory do to it, object by object.       *)
(***************************************************************************)
Shapes ==
  /\ objs \in Seq(Job) /\ DOMAIN objs = 1..Len(objs) /\ Len(objs) \in Nat
  /\ \A r \in DOMAIN objs : objs[r] \in Job /\ objs[r].id \in JobIds /\ r # NoRef
  /\ queue \subseteq DOMAIN objs /\ held \subseteq DOMAIN objs /\ stats \in Stats
  /\ jobs \in [JobIds -> {NoRef} \cup DOMAIN objs] /\ Ids \subseteq JobIds
  /\ call \in [Callers -> Call] /\ up \in BOOLEAN

\* The shapes of TypeOK as the proofs below use them.
LEMMA ShapesHold == TypeOK => Shapes
<1> SUFFICES ASSUME TypeOK PROVE Shapes
  OBVIOUS
<1>1. objs \in Seq(Job)
  BY DEF TypeOK
<1>2. \A r \in DOMAIN objs : objs[r] \in Job
  BY <1>1, ElementOfSeq
<1>3. \A r \in DOMAIN objs : objs[r].id \in JobIds /\ r # NoRef
  BY <1>1, <1>2 DEF Job, NoRef
<1> QED
  BY <1>1, <1>2, <1>3 DEF TypeOK, Shapes, Stats, JobIds

\* The objects are those there were, but for the status of one.
Restated(r, s) ==
  /\ DOMAIN objs' = DOMAIN objs
  /\ \A q \in DOMAIN objs : /\ objs'[q].id = objs[q].id
                            /\ objs'[q].status = IF q = r THEN s ELSE objs[q].status

\* An assignment to job.status restates one object.
LEMMA RestatedBy ==
  ASSUME TypeOK, NEW r \in DOMAIN objs, NEW s \in Status, objs' = [objs EXCEPT ![r].status = s]
  PROVE  Restated(r, s)
BY ObjTyped DEF Restated

\* dequeue: the job leaves the heap, runs, and is what its id leads to.
LEMMA DequeueDoes ==
  ASSUME TypeOK, NEW r \in queue, Dequeue(r)
  PROVE  /\ r \in DOMAIN objs /\ Restated(r, "running")
         /\ queue' = queue \ {r} /\ held' = held \cup {r}
         /\ \A id \in JobIds : jobs'[id] = IF id = objs[r].id THEN r ELSE jobs[id]
         /\ stats'.pending = stats.pending - 1 /\ stats'.running = stats.running + 1
         /\ up /\ UNCHANGED <<rows, nextPk, history, up, call>>
<1>1. Shapes
  BY ShapesHold
<1>2. r \in DOMAIN objs /\ "running" \in Status /\ objs' = [objs EXCEPT ![r].status = "running"]
  BY <1>1 DEF Shapes, Dequeue, Status
<1>3. Restated(r, "running")
  BY <1>2, RestatedBy
<1>4. \A id \in JobIds : jobs'[id] = IF id = objs[r].id THEN r ELSE jobs[id]
  BY <1>1, <1>2 DEF Dequeue, Shapes
<1>5. stats'.pending = stats.pending - 1 /\ stats'.running = stats.running + 1
  BY <1>1 DEF Dequeue, Shapes, Stats
<1> QED
  BY <1>2, <1>3, <1>4, <1>5 DEF Dequeue, dbVars

\* cancelJob: the job is cancelled, out of the heap if it was pending, and its old
\* status counted down.
LEMMA CancelDoes ==
  ASSUME TypeOK, NEW id \in JobIds, Cancel(id)
  PROVE  LET r == jobs[id] was == objs[jobs[id]].status IN
         /\ r \in DOMAIN objs /\ Restated(r, "cancelled")
         /\ queue' = IF was = "pending" THEN queue \ {r} ELSE queue
         /\ stats'.pending = IF was = "pending" THEN stats.pending - 1 ELSE stats.pending
         /\ stats'.running = IF was = "running" THEN stats.running - 1 ELSE stats.running
         /\ up /\ UNCHANGED <<rows, nextPk, history, up, jobs, held, call>>
<1>1. Shapes
  BY ShapesHold
<1>2. jobs[id] \in DOMAIN objs /\ "cancelled" \in Status
      /\ objs' = [objs EXCEPT ![jobs[id]].status = "cancelled"]
  BY <1>1 DEF Shapes, Cancel, Status
<1>3. Restated(jobs[id], "cancelled")
  BY <1>2, RestatedBy
<1>4. /\ stats'.pending = IF objs[jobs[id]].status = "pending" THEN stats.pending - 1 ELSE stats.pending
      /\ stats'.running = IF objs[jobs[id]].status = "running" THEN stats.running - 1 ELSE stats.running
  BY <1>1 DEF Cancel, Shapes, Stats
<1> QED
  BY <1>2, <1>3, <1>4 DEF Cancel, dbVars

\* updateJobStatus before its first await: the object has the new status, and a
\* report of the end takes the job out of the worker's hands.
LEMMA UpdateDoes ==
  ASSUME TypeOK, NEW c \in Callers, NEW id \in JobIds, NEW s \in Targets, UpdateStart(c, id, s)
  PROVE  /\ jobs[id] \in DOMAIN objs /\ Restated(jobs[id], s)
         /\ \A d \in Callers \ {c} : call'[d] = call[d]
         /\ call[c].pc = "idle"
         /\ call'[c].pc = "resolve" /\ call'[c].mem /\ call'[c].id = id
         /\ call'[c].old = objs[jobs[id]].status /\ call'[c].new = s
         /\ WorkersDequeueFirst => \E h \in held : objs[h].id = id
         /\ held' = IF s = "running" THEN held ELSE {h \in held : objs[h].id # id}
         /\ up /\ UNCHANGED <<rows, nextPk, history, up, jobs, queue, stats>>
<1>1. Shapes
  BY ShapesHold
<1>2. jobs[id] \in DOMAIN objs /\ s \in Status /\ objs' = [objs EXCEPT ![jobs[id]].status = s]
  BY <1>1, ConstAssumption DEF Shapes, UpdateStart
<1>3. Restated(jobs[id], s)
  BY <1>2, RestatedBy
<1>4. call' = [call EXCEPT ![c] = [Idle EXCEPT !.pc = "resolve", !.mem = TRUE, !.id = id,
                                               !.old = objs[jobs[id]].status, !.new = s]]
  BY DEF UpdateStart
<1>5. \A d \in Callers \ {c} : call'[d] = call[d]
  BY <1>1, <1>4 DEF Shapes
<1>6. call'[c] = [Idle EXCEPT !.pc = "resolve", !.mem = TRUE, !.id = id,
                              !.old = objs[jobs[id]].status, !.new = s]
  BY <1>1, <1>4 DEF Shapes
<1>7. /\ call'[c].pc = "resolve" /\ call'[c].mem /\ call'[c].id = id
      /\ call'[c].old = objs[jobs[id]].status /\ call'[c].new = s
  BY <1>6 DEF Idle
<1> QED
  BY <1>2, <1>3, <1>5, <1>7 DEF UpdateStart, dbVars

\* The end of enqueue: a new pending object in the map, the heap and the count.
LEMMA AdmitDoes ==
  ASSUME TypeInv, NEW c \in Callers, Admit(c)
  PROVE  LET ref == Len(objs) + 1 IN
         /\ call[c].pc = "admit" /\ call[c].id \in Ids
         /\ ref \notin DOMAIN objs /\ DOMAIN objs' = DOMAIN objs \cup {ref}
         /\ \A q \in DOMAIN objs : objs'[q] = objs[q]
         /\ objs'[ref].id = call[c].id /\ objs'[ref].status = "pending"
         /\ \A id \in JobIds : jobs'[id] = IF id = call[c].id THEN ref ELSE jobs[id]
         /\ queue' = queue \cup {ref}
         /\ stats'.pending = stats.pending + 1 /\ stats'.running = stats.running
         /\ call'[c] = Idle /\ \A d \in Callers \ {c} : call'[d] = call[d]
         /\ UNCHANGED <<rows, nextPk, history, up, held>>
<1>1. Shapes
  BY ShapesHold DEF TypeInv
<1> DEFINE e == [id |-> call[c].id, prio |-> call[c].prio, status |-> "pending"]
           ref == Len(objs) + 1
<1>2. call[c].id \in Ids /\ e \in Job /\ e.id = call[c].id /\ e.status = "pending"
  BY <1>1 DEF TypeInv, Shapes, CallOK, Job, Status, Admit
<1>3. objs' = Append(objs, e)
  BY DEF Admit
<1> HIDE DEF e
<1>4. /\ DOMAIN objs' = DOMAIN objs \cup {ref} /\ ref \notin DOMAIN objs
      /\ \A q \in DOMAIN objs : objs'[q] = objs[q]
      /\ objs'[ref] = e
  BY <1>1, <1>2, <1>3, AppendTyped DEF Shapes
<1>5. /\ \A id \in JobIds : jobs'[id] = IF id = call[c].id THEN ref ELSE jobs[id]
      /\ call'[c] = Idle /\ \A d \in Callers \ {c} : call'[d] = call[d]
  BY <1>1 DEF Admit, Shapes
<1>6. stats'.pending = stats.pending + 1 /\ stats'.running = stats.running
  BY <1>1 DEF Admit, Shapes, Stats
<1> QED
  BY <1>2, <1>4, <1>5, <1>6 DEF Admit, dbVars

\* Account counts an update; the mem flag of its call says that it may.
LEMMA AccountDoes ==
  ASSUME TypeOK, NEW c \in Callers, Account(c)
  PROVE  /\ stats'.pending = stats.pending + (IF call[c].new = "pending" THEN 1 ELSE 0)
                                           - (IF call[c].old = "pending" THEN 1 ELSE 0)
         /\ stats'.running = stats.running + (IF call[c].new = "running" THEN 1 ELSE 0)
                                           - (IF call[c].old = "running" THEN 1 ELSE 0)
         /\ call[c].pc = "account" /\ call'[c] = Idle /\ \A d \in Callers \ {c} : call'[d] = call[d]
         /\ UNCHANGED <<rows, nextPk, history, up, objs, jobs, queue, held>>
<1>1. Shapes
  BY ShapesHold
<1> DEFINE Delta(t) == (IF call[c].new = t THEN 1 ELSE 0)
                - (IF call[c].old = t /\ t \in {"pending", "running"} THEN 1 ELSE 0)
<1>2. stats' = [stats EXCEPT
                 !.pending = @ + Delta("pending"), !.running = @ + Delta("running"),
                 !.completed = @ + Delta("completed"), !.failed = @ + Delta("failed"),
                 !.cancelled = @ + Delta("cancelled")]
  BY DEF Account
<1>3. /\ Delta("pending") = (IF call[c].new = "pending" THEN 1 ELSE 0)
                              - (IF call[c].old = "pending" THEN 1 ELSE 0)
      /\ Delta("running") = (IF call[c].new = "running" THEN 1 ELSE 0)
                              - (IF call[c].old = "running" THEN 1 ELSE 0)
  OBVIOUS
<1> HIDE DEF Delta
<1>4. stats'.pending = stats.pending + Delta("pending") /\ stats'.running = stats.running + Delta("running")
  BY <1>1, <1>2 DEF Shapes, Stats
<1>5. stats.pending \in Int /\ stats.running \in Int
  BY <1>1 DEF Shapes, Stats
<1>6. call'[c] = Idle /\ \A d \in Callers \ {c} : call'[d] = call[d]
  BY <1>1 DEF Account, Shapes
<1> QED
  BY <1>3, <1>4, <1>5, <1>6 DEF Account, dbVars

\* A nonempty set of numbers up to n has a last one.
LEMMA LastExists ==
  ASSUME NEW n \in Nat, NEW S, S \subseteq 1..n, S # {}
  PROVE  \E k \in S : \A j \in S : ~(j > k)
<1> DEFINE T == {n - k : k \in S}
<1>0. \A k \in S : k \in Int /\ n - k \in Nat
  OBVIOUS
<1>1. T \subseteq Nat /\ T # {}
  BY <1>0
<1>2. IsWellFoundedOn(OpToRel(<, Nat), Nat)
  BY NatLessThanWellFounded
<1>3. PICK x \in T : \A y \in T : ~(<<y, x>> \in OpToRel(<, Nat))
  BY <1>1, <1>2, WFMin
<1>4. \A y \in T : ~(y < x)
  BY <1>1, <1>3 DEF OpToRel
<1>5. PICK k \in S : x = n - k
  BY <1>3
<1>6. \A j \in S : n - j \in T
  OBVIOUS
<1>7. \A j \in S : ~(n - j < n - k)
  BY <1>4, <1>5, <1>6
<1>8. \A j \in S : ~(j > k)
  BY <1>0, <1>7
<1> QED
  BY <1>8

\* Recovery: one object per result of the join, the last one with an id in the
\* map, the pending ones in the queue, each counted.
LEMMA LoadDoes ==
  ASSUME TypeInv, LoadPersistedJobs
  PROVE  /\ ~up /\ up' /\ UNCHANGED <<rows, nextPk, history, held, call>>
         /\ \E s \in [DOMAIN objs' -> JoinNames] :
              /\ \A k \in DOMAIN objs' : objs'[k] = Recovered(s[k])
              /\ \A j, k \in DOMAIN objs' : s[j] = s[k] => j = k
              /\ \A n \in JoinNames : \E k \in DOMAIN objs' : s[k] = n
         /\ \A id \in JobIds :
              \/ jobs'[id] = NoRef /\ \A k \in DOMAIN objs' : objs'[k].id # id
              \/ /\ jobs'[id] \in DOMAIN objs' /\ jobs'[id] # NoRef
                 /\ objs'[jobs'[id]].id = id
         /\ queue' = {k \in DOMAIN objs' : objs'[k].status = "pending"}
         /\ stats'.pending = Cardinality(queue')
         /\ stats'.running = Cardinality({k \in DOMAIN objs' : objs'[k].status = "running"})
<1> DEFINE With(loaded, s) == {k \in DOMAIN loaded : loaded[k].status = s}
           LastWith(loaded, id) == {k \in DOMAIN loaded :
                               /\ loaded[k].id = id
                               /\ \A j \in DOMAIN loaded : j > k => loaded[j].id # id}
<1>1. PICK loaded \in ActiveJobs :
        /\ objs' = loaded
        /\ jobs' = [id \in JobIds |-> IF LastWith(loaded, id) = {} THEN NoRef
                                      ELSE CHOOSE k \in LastWith(loaded, id) : TRUE]
        /\ queue' = With(loaded, "pending")
        /\ stats' = [NoStats EXCEPT !.total = Len(loaded),
                                    !.pending = Cardinality(With(loaded, "pending")),
                                    !.running = Cardinality(With(loaded, "running")),
                                    !.failed = Cardinality(With(loaded, "failed"))]
  BY DEF LoadPersistedJobs
<1>2. /\ loaded \in Seq(Job)
      /\ \E s \in [DOMAIN loaded -> JoinNames] :
           /\ \A k \in DOMAIN loaded : loaded[k] = Recovered(s[k])
           /\ \A j, k \in DOMAIN loaded : s[j] = s[k] => j = k
           /\ \A n \in JoinNames : \E k \in DOMAIN loaded : s[k] = n
  BY LoadedJobs DEF TypeInv
<1>3. DOMAIN loaded = 1..Len(loaded) /\ Len(loaded) \in Nat
  BY <1>2
<1>4. ASSUME NEW id \in JobIds
      PROVE  \/ jobs'[id] = NoRef /\ \A k \in DOMAIN loaded : loaded[k].id # id
             \/ jobs'[id] \in DOMAIN loaded /\ jobs'[id] # NoRef /\ loaded[jobs'[id]].id = id
  <2> DEFINE known == {k \in DOMAIN loaded : loaded[k].id = id}
  <2>1. CASE known = {}
    <3>1. LastWith(loaded, id) = {}
      BY <2>1
    <3>2. jobs'[id] = NoRef
      BY <1>1, <3>1
    <3> QED
      BY <2>1, <3>2
  <2>2. CASE known # {}
    <3>1. PICK k \in known : \A j \in known : ~(j > k)
      BY <1>3, <2>2, LastExists
    <3>2. k \in LastWith(loaded, id)
      BY <3>1
    <3>3. jobs'[id] \in LastWith(loaded, id)
      BY <1>1, <3>2
    <3> QED
      BY <1>3, <3>3 DEF NoRef
  <2> QED
    BY <2>1, <2>2
<1>5. /\ stats'.pending = Cardinality(With(loaded, "pending"))
      /\ stats'.running = Cardinality(With(loaded, "running"))
  <2> HIDE DEF With
  <2> QED
    BY <1>1 DEF NoStats
<1>6. ~up /\ up' /\ UNCHANGED <<rows, nextPk, history, held, call>>
  BY DEF LoadPersistedJobs, dbVars
<1> HIDE DEF LastWith
<1> QED
  BY <1>1, <1>2, <1>4, <1>5, <1>6

-----------------------------------------------------------------------------
(***************************************************************************)
(* The statements, as they change the tables and their call.               *)
(***************************************************************************)
\* What a call leaves of its record when it goes on to the next statement.
Advances(c, next) ==
  /\ call'[c].pc = next /\ call'[c].mem = call[c].mem /\ call'[c].id = call[c].id
  /\ call'[c].old = call[c].old /\ call'[c].new = call[c].new
  /\ \A d \in Callers \ {c} : call'[d] = call[d]

Ends(c) == call'[c] = Idle /\ \A d \in Callers \ {c} : call'[d] = call[d]

\* One row more, for the id and the primary key of the call.
Appends(c) ==
  LET n == Len(history) + 1 IN
  /\ n \notin DOMAIN history /\ DOMAIN history' = DOMAIN history \cup {n}
  /\ \A i \in DOMAIN history : history'[i] = history[i]
  /\ history'[n].id = call[c].id /\ history'[n].pk = call[c].pk

\* A statement's reply ends a call of the facade and carries on a call of the queue.
LEMMA ReplyDoes ==
  ASSUME TypeOK, NEW c \in Callers, NEW next, Reply(c, next)
  PROVE  \/ Ends(c) /\ ~call[c].mem
         \/ Advances(c, next) /\ call[c].mem /\ call'[c].pk = call[c].pk
<1>1. call \in [Callers -> Call] /\ call[c] \in Call
  BY DEF TypeOK
<1>2. CASE call[c].mem
  <2>1. call' = [call EXCEPT ![c] = [call[c] EXCEPT !.pc = next]]
    BY <1>1, <1>2 DEF Reply
  <2>2. call'[c] = [call[c] EXCEPT !.pc = next] /\ \A d \in Callers \ {c} : call'[d] = call[d]
    BY <1>1, <2>1
  <2> DEFINE new == [call[c] EXCEPT !.pc = next]
  <2>3. /\ new.pc = next /\ new.mem = call[c].mem /\ new.id = call[c].id
        /\ new.old = call[c].old /\ new.new = call[c].new /\ new.pk = call[c].pk
    BY <1>1 DEF Call
  <2>4. call'[c] = new
    BY <2>2
  <2> HIDE DEF new
  <2> QED
    BY <1>2, <2>2, <2>3, <2>4 DEF Advances
<1>3. CASE ~call[c].mem
  BY <1>1, <1>3 DEF Reply, Ends
<1> QED
  BY <1>2, <1>3

\* An insert into job_history adds one row and changes none.
LEMMA AppendsRow ==
  ASSUME TypeOK, NEW c \in Callers, NEW row \in HistoryRow, row.id = call[c].id, row.pk = call[c].pk,
         history' = Append(history, row)
  PROVE  Appends(c)
<1>1. history \in Seq(HistoryRow)
  BY DEF TypeOK
<1> QED
  BY <1>1, AppendTyped DEF Appends

\* exists(): an id that is mapped ends the enqueue.
LEMMA CheckExistsDoes ==
  ASSUME TypeOK, NEW c \in Callers, CheckExists(c)
  PROVE  /\ call[c].pc = "exists" /\ UNCHANGED <<rows, nextPk, history>>
         /\ \/ Ends(c)
            \/ Advances(c, "insertRow") /\ \A i \in DOMAIN history : history[i].id # call[c].id
<1>1. call \in [Callers -> Call] /\ call[c] \in Call
  BY DEF TypeOK
<1>2. CASE MappedPks(call[c].id) = {}
  <2>1. call' = [call EXCEPT ![c] = [call[c] EXCEPT !.pc = "insertRow"]]
    BY <1>1, <1>2 DEF CheckExists
  <2>2. call'[c] = [call[c] EXCEPT !.pc = "insertRow"] /\ \A d \in Callers \ {c} : call'[d] = call[d]
    BY <1>1, <2>1
  <2>3. Advances(c, "insertRow")
    BY <1>1, <2>2 DEF Advances, Call
  <2>4. \A i \in DOMAIN history : history[i].id # call[c].id
    BY <1>2 DEF MappedPks
  <2> QED
    BY <2>3, <2>4 DEF CheckExists, dbVars
<1>3. CASE MappedPks(call[c].id) # {}
  BY <1>1, <1>3 DEF CheckExists, Ends, dbVars
<1> QED
  BY <1>2, <1>3

\* The first insert takes the next primary key.
LEMMA InsertRowDoes ==
  ASSUME TypeOK, NEW c \in Callers, InsertRow(c)
  PROVE  /\ call[c].pc = "insertRow" /\ Advances(c, "insertMapping") /\ call'[c].pk = nextPk
         /\ nextPk \in Pks /\ nextPk' = nextPk + 1 /\ UNCHANGED history
         /\ \A pk \in Pks : rows'[pk] = IF pk = nextPk THEN call[c].new ELSE rows[pk]
<1>1. call \in [Callers -> Call] /\ call[c] \in Call /\ rows \in [Pks -> Status \cup {"none"}]
  BY DEF TypeOK
<1>2. call' = [call EXCEPT ![c] = [call[c] EXCEPT !.pc = "insertMapping", !.pk = nextPk]]
  BY <1>1 DEF InsertRow
<1>3. call'[c] = [call[c] EXCEPT !.pc = "insertMapping", !.pk = nextPk]
      /\ \A d \in Callers \ {c} : call'[d] = call[d]
  BY <1>1, <1>2
<1>4. Advances(c, "insertMapping") /\ call'[c].pk = nextPk
  BY <1>1, <1>3 DEF Advances, Call
<1>5. nextPk \in Pks
  BY ConstAssumption DEF InsertRow, TypeOK, Pks
<1> QED
  BY <1>1, <1>4, <1>5 DEF InsertRow

\* The second insert maps the id to that key.
LEMMA InsertMappingDoes ==
  ASSUME TypeInv, NEW c \in Callers, InsertMapping(c)
  PROVE  /\ call[c].pc = "insertMapping" /\ Appends(c) /\ UNCHANGED <<rows, nextPk>>
         /\ ((Ends(c) /\ ~call[c].mem) \/ (Advances(c, "admit") /\ call[c].mem))
<1> DEFINE row == [pk |-> call[c].pk, id |-> call[c].id, prio |-> call[c].prio]
<1>1. row \in HistoryRow /\ row.id = call[c].id /\ row.pk = call[c].pk
  BY DEF TypeInv, TypeOK, CallOK, Call, HistoryRow, InsertMapping
<1>2. history' = Append(history, row)
  BY DEF InsertMapping
<1> HIDE DEF row
<1>3. Appends(c)
  BY <1>1, <1>2, AppendsRow DEF TypeInv
<1>4. (Ends(c) /\ ~call[c].mem) \/ (Advances(c, "admit") /\ call[c].mem)
  <2>1. Reply(c, "admit")
    BY DEF InsertMapping
  <2> QED
    BY <2>1, ReplyDoes DEF InsertMapping, TypeInv
<1> QED
  BY <1>3, <1>4 DEF InsertMapping

\* The lookup of updateStatus: some row of the id, or none.
LEMMA ResolveDoes ==
  ASSUME TypeInv, NEW c \in Callers, Resolve(c)
  PROVE  /\ call[c].pc = "resolve" /\ UNCHANGED <<rows, nextPk, history>>
         /\ \/ Ends(c) /\ ~call[c].mem
            \/ /\ Advances(c, "account") /\ call[c].mem
               /\ \A i \in DOMAIN history : history[i].id # call[c].id
            \/ /\ Advances(c, "updateRow")
               /\ \E i \in DOMAIN history : history[i].id = call[c].id /\ history[i].pk = call'[c].pk
<1>1. call \in [Callers -> Call] /\ call[c] \in Call
  BY DEF TypeInv, TypeOK
<1>2. CASE MappedPks(call[c].id) = {} /\ Reply(c, "account")
  <2>1. \A i \in DOMAIN history : history[i].id # call[c].id
    BY <1>2 DEF MappedPks
  <2> QED
    BY <1>2, <2>1, ReplyDoes DEF Resolve, TypeInv, dbVars
<1>3. CASE \E pk \in MappedPks(call[c].id) :
             call' = [call EXCEPT ![c].pc = "updateRow", ![c].pk = pk]
  <2>1. PICK pk \in MappedPks(call[c].id) :
               call' = [call EXCEPT ![c] = [call[c] EXCEPT !.pc = "updateRow", !.pk = pk]]
    BY <1>1, <1>3
  <2>2. call'[c] = [call[c] EXCEPT !.pc = "updateRow", !.pk = pk]
        /\ \A d \in Callers \ {c} : call'[d] = call[d]
    BY <1>1, <2>1
  <2>3. Advances(c, "updateRow") /\ call'[c].pk = pk
    BY <1>1, <2>2 DEF Advances, Call
  <2>4. \E i \in DOMAIN history : history[i].id = call[c].id /\ history[i].pk = pk
    BY DEF MappedPks
  <2> QED
    BY <2>3, <2>4 DEF Resolve, dbVars
<1> QED
  BY <1>2, <1>3 DEF Resolve

\* The update of the row, which does nothing to a row that was cleaned up.
LEMMA UpdateRowDoes ==
  ASSUME TypeInv, NEW c \in Callers, UpdateRow(c)
  PROVE  /\ call[c].pc = "updateRow" /\ Advances(c, "appendHistory") /\ call'[c].pk = call[c].pk
         /\ call[c].pk \in Pks /\ UNCHANGED <<nextPk, history>>
         /\ \A pk \in Pks : rows'[pk] = IF pk = call[c].pk /\ rows[pk] # "none" THEN call[c].new ELSE rows[pk]
<1>1. call \in [Callers -> Call] /\ call[c] \in Call /\ rows \in [Pks -> Status \cup {"none"}]
      /\ call[c].pk \in Pks
  BY DEF TypeInv, TypeOK, UpdateRow, CallOK
<1>2. call' = [call EXCEPT ![c] = [call[c] EXCEPT !.pc = "appendHistory"]]
  BY <1>1 DEF UpdateRow
<1>3. call'[c] = [call[c] EXCEPT !.pc = "appendHistory"] /\ \A d \in Callers \ {c} : call'[d] = call[d]
  BY <1>1, <1>2
<1>4. Advances(c, "appendHistory") /\ call'[c].pk = call[c].pk
  BY <1>1, <1>3 DEF Advances, Call
<1>5. \A pk \in Pks : rows'[pk] = IF pk = call[c].pk /\ rows[pk] # "none" THEN call[c].new ELSE rows[pk]
  BY <1>1 DEF UpdateRow
<1> QED
  BY <1>1, <1>4, <1>5 DEF UpdateRow

\* The last statement of updateStatus adds a history row of the same row and id.
LEMMA AppendHistoryDoes ==
  ASSUME TypeInv, NEW c \in Callers, AppendHistory(c)
  PROVE  /\ call[c].pc = "appendHistory" /\ Appends(c) /\ UNCHANGED <<rows, nextPk>>
         /\ ((Ends(c) /\ ~call[c].mem) \/ (Advances(c, "account") /\ call[c].mem))
<1> DEFINE row == [pk |-> call[c].pk, id |-> call[c].id, prio |-> NoPriority]
<1>1. row \in HistoryRow /\ row.id = call[c].id /\ row.pk = call[c].pk
  BY DEF TypeInv, TypeOK, CallOK, Call, HistoryRow, AppendHistory
<1>2. history' = Append(history, row)
  BY DEF AppendHistory
<1> HIDE DEF row
<1>3. Appends(c)
  BY <1>1, <1>2, AppendsRow DEF TypeInv
<1>4. (Ends(c) /\ ~call[c].mem) \/ (Advances(c, "account") /\ call[c].mem)
  <2>1. Reply(c, "account")
    BY DEF AppendHistory
  <2> QED
    BY <2>1, ReplyDoes DEF AppendHistory, TypeInv
<1> QED
  BY <1>3, <1>4 DEF AppendHistory

\* The steps of a call that touch the tables or nothing at all, not the memory.
Quiet(c) ==
  \/ \E id \in Owns[c], p \in Priorities : EnqueueStart(c, id, p)
  \/ FacadeStart(c)
  \/ CheckExists(c) \/ InsertRow(c) \/ InsertMapping(c)
  \/ Resolve(c) \/ UpdateRow(c) \/ AppendHistory(c)
  \/ DbFailure(c)

\* From which statement to which a call goes on with its record as it is.
GoesOn(pc, next) ==
  <<pc, next>> \in {<<"exists", "insertRow">>, <<"insertRow", "insertMapping">>,
                    <<"insertMapping", "admit">>, <<"resolve", "account">>,
                    <<"resolve", "updateRow">>, <<"updateRow", "appendHistory">>,
                    <<"appendHistory", "account">>}

\* Such a step ends the call, carries it on, or starts it.
LEMMA QuietDoes ==
  ASSUME TypeInv, NEW c \in Callers, Quiet(c)
  PROVE  /\ UNCHANGED <<objs, jobs, queue, stats, held, up>>
         /\ \A d \in Callers \ {c} : call'[d] = call[d]
         /\ up \/ call[c].pc # "idle"
         /\ \/ /\ call'[c] = Idle
               /\ DbMayFail \/ call[c].pc = "exists" \/ ~call[c].mem
            \/ /\ call'[c].mem = call[c].mem /\ call'[c].id = call[c].id
               /\ call'[c].old = call[c].old /\ call'[c].new = call[c].new
               /\ GoesOn(call[c].pc, call'[c].pc)
               /\ call'[c].pc \in {"admit", "account"} => call[c].mem
            \/ /\ call[c].pc = "idle" /\ call'[c].pc = "exists" /\ call'[c].mem
               /\ call'[c].id \in Owns[c] /\ jobs[call'[c].id] = NoRef
            \/ /\ call[c].pc = "idle" /\ call'[c].pc \in {"insertRow", "resolve"}
               /\ ~call'[c].mem /\ call'[c].id \in FacadeIds
<1>1. Shapes
  BY ShapesHold DEF TypeInv
<1>2. call \in [Callers -> Call] /\ call[c] \in Call /\ Idle \in Call
  BY <1>1, IdleTyped DEF Shapes
<1>3. CASE \E id \in Owns[c], p \in Priorities : EnqueueStart(c, id, p)
  <2>1. PICK id \in Owns[c], p \in Priorities : EnqueueStart(c, id, p)
    BY <1>3
  <2>2. call' = [call EXCEPT ![c] =
                   [Idle EXCEPT !.pc = "exists", !.mem = TRUE, !.id = id, !.prio = p]]
    BY <2>1 DEF EnqueueStart
  <2>3. call'[c] = [Idle EXCEPT !.pc = "exists", !.mem = TRUE, !.id = id, !.prio = p]
        /\ \A d \in Callers \ {c} : call'[d] = call[d]
    BY <1>2, <2>2
  <2>4. call'[c].pc = "exists" /\ call'[c].mem /\ call'[c].id = id
    BY <2>3 DEF Idle
  <2> QED
    BY <2>1, <2>3, <2>4 DEF EnqueueStart, memVars
<1>4. CASE \E id \in FacadeIds, p \in Priorities, s \in FacadeStatuses : FacadeEnqueueStart(c, id, p, s)
  <2>1. PICK id \in FacadeIds, p \in Priorities, s \in FacadeStatuses : FacadeEnqueueStart(c, id, p, s)
    BY <1>4
  <2>2. call' = [call EXCEPT ![c] =
                   [Idle EXCEPT !.pc = "insertRow", !.id = id, !.prio = p, !.new = s]]
    BY <2>1 DEF FacadeEnqueueStart
  <2>3. call'[c] = [Idle EXCEPT !.pc = "insertRow", !.id = id, !.prio = p, !.new = s]
        /\ \A d \in Callers \ {c} : call'[d] = call[d]
    BY <1>2, <2>2
  <2>4. call'[c].pc = "insertRow" /\ ~call'[c].mem /\ call'[c].id = id
    BY <2>3 DEF Idle
  <2> QED
    BY <2>1, <2>3, <2>4 DEF FacadeEnqueueStart, memVars
<1>5. CASE \E id \in FacadeIds, s \in FacadeStatuses : FacadeUpdateStart(c, id, s)
  <2>1. PICK id \in FacadeIds, s \in FacadeStatuses : FacadeUpdateStart(c, id, s)
    BY <1>5
  <2>2. call' = [call EXCEPT ![c] = [Idle EXCEPT !.pc = "resolve", !.id = id, !.new = s]]
    BY <2>1 DEF FacadeUpdateStart
  <2>3. call'[c] = [Idle EXCEPT !.pc = "resolve", !.id = id, !.new = s]
        /\ \A d \in Callers \ {c} : call'[d] = call[d]
    BY <1>2, <2>2
  <2>4. call'[c].pc = "resolve" /\ ~call'[c].mem /\ call'[c].id = id
    BY <2>3 DEF Idle
  <2> QED
    BY <2>1, <2>3, <2>4 DEF FacadeUpdateStart, memVars
<1>6. ASSUME NEW next, Advances(c, next), GoesOn(call[c].pc, next),
             next \in {"admit", "account"} => call[c].mem
      PROVE  /\ \A d \in Callers \ {c} : call'[d] = call[d]
             /\ call'[c].mem = call[c].mem /\ call'[c].id = call[c].id
             /\ call'[c].old = call[c].old /\ call'[c].new = call[c].new
             /\ GoesOn(call[c].pc, call'[c].pc)
             /\ call'[c].pc \in {"admit", "account"} => call[c].mem
  BY <1>6 DEF Advances
<1>7. /\ GoesOn("exists", "insertRow") /\ GoesOn("insertRow", "insertMapping")
      /\ GoesOn("insertMapping", "admit") /\ GoesOn("resolve", "account")
      /\ GoesOn("resolve", "updateRow") /\ GoesOn("updateRow", "appendHistory")
      /\ GoesOn("appendHistory", "account")
  BY DEF GoesOn
<1>8. ASSUME Ends(c) PROVE call'[c] = Idle /\ \A d \in Callers \ {c} : call'[d] = call[d]
  BY <1>8 DEF Ends
<1>9. CASE CheckExists(c)
  <2>1. UNCHANGED <<objs, jobs, queue, stats, held, up>> /\ call[c].pc = "exists"
        /\ (Ends(c) \/ Advances(c, "insertRow"))
    BY <1>9, CheckExistsDoes DEF CheckExists, memVars, TypeInv
  <2> QED
    BY <2>1, <1>6, <1>7, <1>8
<1>10. CASE InsertRow(c)
  <2>1. UNCHANGED <<objs, jobs, queue, stats, held, up>> /\ call[c].pc = "insertRow"
        /\ Advances(c, "insertMapping")
    BY <1>10, InsertRowDoes DEF InsertRow, memVars, TypeInv
  <2> QED
    BY <2>1, <1>6, <1>7
<1>12. CASE InsertMapping(c)
  <2>1. UNCHANGED <<objs, jobs, queue, stats, held, up>> /\ call[c].pc = "insertMapping"
        /\ ((Ends(c) /\ ~call[c].mem) \/ (Advances(c, "admit") /\ call[c].mem))
    BY <1>12, InsertMappingDoes DEF InsertMapping, memVars
  <2> QED
    BY <2>1, <1>6, <1>7, <1>8
<1>13. CASE Resolve(c)
  <2>1. UNCHANGED <<objs, jobs, queue, stats, held, up>> /\ call[c].pc = "resolve"
        /\ \/ Ends(c) /\ ~call[c].mem
           \/ Advances(c, "account") /\ call[c].mem
           \/ Advances(c, "updateRow")
    BY <1>13, ResolveDoes DEF Resolve, memVars
  <2> QED
    BY <2>1, <1>6, <1>7, <1>8
<1>14. CASE UpdateRow(c)
  <2>1. UNCHANGED <<objs, jobs, queue, stats, held, up>> /\ call[c].pc = "updateRow"
        /\ Advances(c, "appendHistory")
    BY <1>14, UpdateRowDoes DEF UpdateRow, memVars
  <2> QED
    BY <2>1, <1>6, <1>7
<1>15. CASE AppendHistory(c)
  <2>1. UNCHANGED <<objs, jobs, queue, stats, held, up>> /\ call[c].pc = "appendHistory"
        /\ ((Ends(c) /\ ~call[c].mem) \/ (Advances(c, "account") /\ call[c].mem))
    BY <1>15, AppendHistoryDoes DEF AppendHistory, memVars
  <2> QED
    BY <2>1, <1>6, <1>7, <1>8
<1>16. CASE DbFailure(c)
  BY <1>2, <1>16 DEF DbFailure, memVars
<1> QED
  BY <1>3, <1>4, <1>5, <1>9, <1>10, <1>12, <1>13, <1>14, <1>15, <1>16 DEF Quiet, FacadeStart

\* The steps there are, as the lemmas above describe them.
LEMMA StepKinds ==
  ASSUME [Next]_vars
  PROVE  \/ \E c \in Callers :
              \/ Quiet(c) \/ Admit(c) \/ Account(c)
              \/ \E id \in JobIds, s \in Targets : UpdateStart(c, id, s)
         \/ \E r \in queue : Dequeue(r)
         \/ \E id \in JobIds : Cancel(id)
         \/ Clear \/ LoadPersistedJobs \/ LoadFails \/ CleanupOldJobs \/ Restart
         \/ UNCHANGED vars
BY DEF Next, CallStart, Statement, Quiet

-----------------------------------------------------------------------------
(***************************************************************************)
(* The count of pending jobs.  It is right as long as updateJobStatus is   *)
(* only called by a worker for a job it was handed and never makes a job   *)
(* pending again, and no two callers enqueue under the same id; failures,  *)
(* clear() and the facade do not disturb it.                               *)
(***************************************************************************)
QueueDiscipline ==
  /\ WorkersDequeueFirst
  /\ "pending" \notin Targets
  /\ \A c, d \in Callers : c # d => Owns[c] \cap Owns[d] = {}

Enqueuing(c) ==
  call[c].mem /\ call[c].pc \in {"exists", "insertRow", "insertMapping", "admit"}

\* Until recovery has run, the process has an empty memory and serves no call.
FreshProcess ==
  ~up => /\ \A c \in Callers : call[c] = Idle
         /\ objs = <<>> /\ queue = {} /\ held = {} /\ stats = NoStats
         /\ \A id \in JobIds : jobs[id] = NoRef

\* An enqueue is for an id of its caller's that the map does not know yet.
NewIds ==
  \A c \in Callers :
    /\ Enqueuing(c) => call[c].id \in Owns[c] /\ jobs[call[c].id] = NoRef
    /\ call[c].pc \in {"exists", "admit", "account"} => call[c].mem

\* No update in flight is from or to pending.
NoUpdateOfPending == \A c \in Updating : call[c].old # "pending" /\ call[c].new # "pending"

\* The map knows the id of every object.
ObjsAreMapped == \A r \in DOMAIN objs : jobs[objs[r].id] # NoRef

PendingIsQueued == \A r \in DOMAIN objs : objs[r].status = "pending" <=> r \in queue

\* What the map keeps under the id of a job a worker holds is not queued.
HeldIsNotQueued == \A h \in held : jobs[objs[h].id] \notin queue

QueueInv ==
  /\ FreshProcess /\ NewIds /\ NoUpdateOfPending
  /\ ObjsAreMapped /\ PendingIsQueued /\ HeldIsNotQueued
  /\ PendingCount

\* An empty queue is counted right.
LEMMA QueueInit == Init => QueueInv
<1> SUFFICES ASSUME Init PROVE QueueInv
  OBVIOUS
<1>1. \A c \in Callers : call[c] = Idle /\ Idle.pc = "idle" /\ Idle.mem = FALSE
  BY DEF Init, Idle
<1>2. \A c \in Callers : ~Enqueuing(c) /\ c \notin Updating
  BY <1>1 DEF Enqueuing, Updating
<1>3. FreshProcess
  BY <1>1 DEF Init, FreshProcess
<1>4. PendingCount
  BY FS_EmptySet DEF Init, PendingCount, NoStats
<1>5. NewIds /\ NoUpdateOfPending
  <2>1. \A c \in Callers : call[c].pc = "idle"
    BY <1>1
  <2>2. NewIds
    BY <1>2, <2>1 DEF NewIds
  <2>3. NoUpdateOfPending
    BY <1>2 DEF NoUpdateOfPending, Updating
  <2> QED
    BY <2>2, <2>3
<1>6. DOMAIN objs = {} /\ queue = {} /\ held = {}
  BY DEF Init
<1>7. ObjsAreMapped /\ PendingIsQueued /\ HeldIsNotQueued
  BY <1>6 DEF ObjsAreMapped, PendingIsQueued, HeldIsNotQueued
<1> QED
  BY <1>3, <1>4, <1>5, <1>7 DEF QueueInv

\* The queue is finite.
LEMMA QueueFinite ==
  ASSUME TypeOK
  PROVE  IsFiniteSet(DOMAIN objs) /\ IsFiniteSet(queue) /\ Cardinality(queue) \in Nat
<1>1. Shapes
  BY ShapesHold
<1>2. IsFiniteSet(DOMAIN objs)
  BY <1>1, FS_Interval DEF Shapes
<1>3. IsFiniteSet(queue)
  BY <1>1, <1>2, FS_Subset DEF Shapes
<1> QED
  BY <1>2, <1>3, FS_CardinalityType

\* The calls' part of the invariant, for the steps that leave the map alone.
LEMMA QuietKeepsQueue ==
  ASSUME TypeInv, QueueInv, NEW c \in Callers, Quiet(c)
  PROVE  QueueInv'
<1>1. /\ UNCHANGED <<objs, jobs, queue, stats, held, up>>
      /\ \A d \in Callers \ {c} : call'[d] = call[d]
      /\ up \/ call[c].pc # "idle"
      /\ \/ call'[c] = Idle
         \/ /\ call'[c].mem = call[c].mem /\ call'[c].id = call[c].id
            /\ call'[c].old = call[c].old /\ call'[c].new = call[c].new
            /\ GoesOn(call[c].pc, call'[c].pc)
            /\ call'[c].pc \in {"admit", "account"} => call[c].mem
         \/ /\ call[c].pc = "idle" /\ call'[c].pc = "exists" /\ call'[c].mem
            /\ call'[c].id \in Owns[c] /\ jobs[call'[c].id] = NoRef
         \/ /\ call[c].pc = "idle" /\ call'[c].pc \in {"insertRow", "resolve"}
            /\ ~call'[c].mem /\ call'[c].id \in FacadeIds
  BY QuietDoes DEF TypeInv
<1>2. up
  BY <1>1, IdleTyped DEF QueueInv, FreshProcess
<1>3. Idle.pc = "idle" /\ Idle.mem = FALSE
  BY DEF Idle
<1>4. NewIds' /\ NoUpdateOfPending'
  <2>1. SUFFICES ASSUME NEW d \in Callers
                 PROVE  /\ Enqueuing(d)' => call'[d].id \in Owns[d] /\ jobs'[call'[d].id] = NoRef
                        /\ call'[d].pc \in {"exists", "admit", "account"} => call'[d].mem
                        /\ d \in Updating' => call'[d].old # "pending" /\ call'[d].new # "pending"
    BY DEF NewIds, NoUpdateOfPending, Updating
  <2>2. CASE d # c
    BY <1>1, <2>2 DEF QueueInv, NewIds, NoUpdateOfPending, Updating, Enqueuing
  <2>3. CASE d = c /\ call'[c] = Idle
    BY <1>3, <2>3 DEF Updating, Enqueuing
  <2>4. CASE /\ d = c /\ call'[c].mem = call[c].mem /\ call'[c].id = call[c].id
             /\ call'[c].old = call[c].old /\ call'[c].new = call[c].new
             /\ GoesOn(call[c].pc, call'[c].pc)
             /\ call'[c].pc \in {"admit", "account"} => call[c].mem
    <3>1. /\ Enqueuing(c)' => Enqueuing(c)
          /\ c \in Updating' => c \in Updating
          /\ call'[c].pc # "exists"
      BY <2>4 DEF GoesOn, Enqueuing, Updating
    <3> QED
      BY <1>1, <2>4, <3>1 DEF QueueInv, NewIds, NoUpdateOfPending
  <2>5. CASE /\ d = c /\ call'[c].pc = "exists" /\ call'[c].mem
             /\ call'[c].id \in Owns[c] /\ jobs[call'[c].id] = NoRef
    BY <1>1, <2>5 DEF Updating
  <2>6. CASE d = c /\ call'[c].pc \in {"insertRow", "resolve"} /\ ~call'[c].mem
    BY <2>6 DEF Updating, Enqueuing
  <2> QED
    BY <1>1, <2>2, <2>3, <2>4, <2>5, <2>6
<1>5. FreshProcess'
  BY <1>1, <1>2 DEF FreshProcess
<1> QED
  BY <1>1, <1>4, <1>5 DEF QueueInv, ObjsAreMapped, PendingIsQueued, HeldIsNotQueued, PendingCount

\* An update by the worker that holds the job leaves the queue as it is.
LEMMA UpdateKeepsQueue ==
  ASSUME TypeInv, QueueInv, QueueDiscipline,
         NEW c \in Callers, NEW id \in JobIds, NEW s \in Targets, UpdateStart(c, id, s)
  PROVE  QueueInv'
<1>1. /\ jobs[id] \in DOMAIN objs /\ Restated(jobs[id], s)
      /\ \A d \in Callers \ {c} : call'[d] = call[d]
      /\ call'[c].pc = "resolve" /\ call'[c].old = objs[jobs[id]].status /\ call'[c].new = s
      /\ WorkersDequeueFirst => \E h \in held : objs[h].id = id
      /\ held' = IF s = "running" THEN held ELSE {h \in held : objs[h].id # id}
      /\ up /\ UNCHANGED <<up, jobs, queue, stats>>
  BY UpdateDoes DEF TypeInv
<1>2. held \subseteq DOMAIN objs /\ queue \subseteq DOMAIN objs
  BY DEF TypeInv, TypeOK
<1>3. jobs[id] \notin queue /\ objs[jobs[id]].status # "pending" /\ s # "pending"
  BY <1>1 DEF QueueInv, HeldIsNotQueued, PendingIsQueued, QueueDiscipline
<1>4. NewIds' /\ NoUpdateOfPending'
  BY <1>1, <1>3 DEF QueueInv, NewIds, NoUpdateOfPending, Updating, Enqueuing
<1>5. ObjsAreMapped' /\ PendingIsQueued'
  BY <1>1, <1>3 DEF QueueInv, ObjsAreMapped, PendingIsQueued, Restated
<1>6. HeldIsNotQueued'
  BY <1>1, <1>2 DEF QueueInv, HeldIsNotQueued, Restated
<1>7. FreshProcess' /\ PendingCount'
  BY <1>1 DEF FreshProcess, QueueInv, PendingCount
<1> QED
  BY <1>4, <1>5, <1>6, <1>7 DEF QueueInv

\* A new job is queued, counted and entered under an id that nobody holds.
LEMMA AdmitKeepsQueue ==
  ASSUME TypeInv, QueueInv, QueueDiscipline, NEW c \in Callers, Admit(c)
  PROVE  QueueInv'
<1> DEFINE ref == Len(objs) + 1
<1>1. /\ call[c].pc = "admit" /\ call[c].id \in Ids
      /\ ref \notin DOMAIN objs /\ DOMAIN objs' = DOMAIN objs \cup {ref}
      /\ \A q \in DOMAIN objs : objs'[q] = objs[q]
      /\ objs'[ref].id = call[c].id /\ objs'[ref].status = "pending"
      /\ \A id \in JobIds : jobs'[id] = IF id = call[c].id THEN ref ELSE jobs[id]
      /\ queue' = queue \cup {ref}
      /\ stats'.pending = stats.pending + 1
      /\ call'[c] = Idle /\ \A d \in Callers \ {c} : call'[d] = call[d]
      /\ UNCHANGED <<up, held>>
  BY AdmitDoes
<1>2. /\ \A r \in DOMAIN objs : objs[r].id \in JobIds
      /\ queue \subseteq DOMAIN objs /\ held \subseteq DOMAIN objs /\ Ids \subseteq JobIds
      /\ ref # NoRef
  BY ShapesHold DEF TypeInv, Shapes, NoRef
<1>3. call[c].mem /\ call[c].id \in Owns[c] /\ jobs[call[c].id] = NoRef
  BY <1>1 DEF QueueInv, NewIds, Enqueuing
<1>4. up
  BY <1>1, IdleTyped DEF QueueInv, FreshProcess
<1>5. Idle.pc = "idle" /\ Idle.mem = FALSE
  BY DEF Idle
<1> HIDE DEF ref
<1>6. NewIds' /\ NoUpdateOfPending'
  <2>1. ASSUME NEW d \in Callers, Enqueuing(d)'
        PROVE  call'[d].id \in Owns[d] /\ jobs'[call'[d].id] = NoRef
    <3>1. d # c /\ call'[d] = call[d] /\ Enqueuing(d)
      BY <1>1, <1>5, <2>1 DEF Enqueuing
    <3>2. call[d].id \in Owns[d] /\ jobs[call[d].id] = NoRef /\ Owns[d] \subseteq Ids
      BY <3>1, ConstAssumption DEF QueueInv, NewIds
    <3>3. call[d].id # call[c].id
      BY <1>3, <3>1, <3>2 DEF QueueDiscipline
    <3> QED
      BY <1>1, <1>2, <3>1, <3>2, <3>3
  <2>2. \A d \in Callers : call'[d].pc \in {"exists", "admit", "account"} => call'[d].mem
    BY <1>1, <1>5 DEF QueueInv, NewIds
  <2>3. NoUpdateOfPending'
    BY <1>1, <1>5 DEF QueueInv, NoUpdateOfPending, Updating
  <2> QED
    BY <2>1, <2>2, <2>3 DEF NewIds
<1>7. ObjsAreMapped' /\ PendingIsQueued'
  BY <1>1, <1>2 DEF QueueInv, ObjsAreMapped, PendingIsQueued
<1>8. HeldIsNotQueued'
  <2>1. ASSUME NEW h \in held' PROVE jobs'[objs'[h].id] \notin queue'
    <3>1. h \in held /\ h \in DOMAIN objs /\ objs'[h] = objs[h] /\ objs[h].id \in JobIds
      BY <1>1, <1>2, <2>1
    <3>2. objs[h].id # call[c].id
      BY <1>3, <3>1 DEF QueueInv, ObjsAreMapped
    <3>3. jobs'[objs'[h].id] = jobs[objs[h].id] /\ jobs[objs[h].id] \in {NoRef} \cup DOMAIN objs
      BY <1>1, <3>1, <3>2 DEF TypeInv, TypeOK
    <3> QED
      BY <1>1, <1>2, <3>1, <3>3 DEF QueueInv, HeldIsNotQueued
  <2> QED
    BY <2>1 DEF HeldIsNotQueued
<1>9. PendingCount'
  <2>1. IsFiniteSet(queue) /\ ref \notin queue /\ Cardinality(queue) \in Nat
    BY <1>1, <1>2, QueueFinite DEF TypeInv
  <2>2. Cardinality(queue \cup {ref}) = Cardinality(queue) + 1
    BY <2>1, FS_AddElement
  <2> QED
    BY <1>1, <2>2 DEF QueueInv, PendingCount
<1>10. FreshProcess'
  BY <1>1, <1>4 DEF FreshProcess
<1> QED
  BY <1>6, <1>7, <1>8, <1>9, <1>10 DEF QueueInv

\* What is handed out leaves the queue and the count; the worker holds it.
LEMMA DequeueKeepsQueue ==
  ASSUME TypeInv, QueueInv, NEW r \in queue, Dequeue(r)
  PROVE  QueueInv'
<1>1. /\ r \in DOMAIN objs /\ Restated(r, "running")
      /\ queue' = queue \ {r} /\ held' = held \cup {r}
      /\ \A id \in JobIds : jobs'[id] = IF id = objs[r].id THEN r ELSE jobs[id]
      /\ stats'.pending = stats.pending - 1
      /\ up /\ UNCHANGED <<up, call>>
  BY DequeueDoes DEF TypeInv
<1>2. /\ \A q \in DOMAIN objs : objs[q].id \in JobIds /\ q # NoRef
      /\ queue \subseteq DOMAIN objs /\ held \subseteq DOMAIN objs /\ Ids \subseteq JobIds
  BY ShapesHold DEF TypeInv, Shapes
<1>3. NewIds' /\ NoUpdateOfPending'
  <2>1. ASSUME NEW d \in Callers, Enqueuing(d)'
        PROVE  call'[d].id \in Owns[d] /\ jobs'[call'[d].id] = NoRef
    <3>1. Enqueuing(d) /\ call'[d] = call[d]
      BY <1>1, <2>1 DEF Enqueuing
    <3>2. call[d].id \in Owns[d] /\ jobs[call[d].id] = NoRef /\ Owns[d] \subseteq Ids
      BY <3>1, ConstAssumption DEF QueueInv, NewIds
    <3>3. call[d].id # objs[r].id
      BY <1>1, <3>2 DEF QueueInv, ObjsAreMapped
    <3> QED
      BY <1>1, <1>2, <3>1, <3>2, <3>3
  <2> QED
    BY <1>1, <2>1 DEF QueueInv, NewIds, NoUpdateOfPending, Updating
<1>4. ObjsAreMapped' /\ PendingIsQueued'
  BY <1>1, <1>2 DEF QueueInv, ObjsAreMapped, PendingIsQueued, Restated
<1>5. HeldIsNotQueued'
  BY <1>1, <1>2 DEF QueueInv, HeldIsNotQueued, Restated
<1>6. PendingCount'
  <2>1. IsFiniteSet(queue) /\ r \in queue
    BY <1>1, QueueFinite DEF TypeInv
  <2>2. Cardinality(queue \ {r}) = Cardinality(queue) - 1
    BY <2>1, FS_RemoveElement
  <2> QED
    BY <1>1, <2>2 DEF QueueInv, PendingCount
<1>7. FreshProcess'
  BY <1>1 DEF FreshProcess
<1> QED
  BY <1>3, <1>4, <1>5, <1>6, <1>7 DEF QueueInv

\* A cancelled job leaves the queue and the count if it was in them.
LEMMA CancelKeepsQueue ==
  ASSUME TypeInv, QueueInv, NEW id \in JobIds, Cancel(id)
  PROVE  QueueInv'
<1> DEFINE r == jobs[id]
<1>1. /\ r \in DOMAIN objs /\ Restated(r, "cancelled")
      /\ queue' = IF objs[r].status = "pending" THEN queue \ {r} ELSE queue
      /\ stats'.pending = IF objs[r].status = "pending" THEN stats.pending - 1 ELSE stats.pending
      /\ up /\ UNCHANGED <<up, jobs, held, call>>
  BY CancelDoes DEF TypeInv
<1>2. queue \subseteq DOMAIN objs /\ held \subseteq DOMAIN objs
  BY DEF TypeInv, TypeOK
<1> HIDE DEF r
<1>3. objs[r].status = "pending" <=> r \in queue
  BY <1>1 DEF QueueInv, PendingIsQueued
<1>4. NewIds' /\ NoUpdateOfPending'
  BY <1>1 DEF QueueInv, NewIds, NoUpdateOfPending, Updating, Enqueuing
<1>5. ObjsAreMapped' /\ PendingIsQueued'
  BY <1>1, <1>2, <1>3 DEF QueueInv, ObjsAreMapped, PendingIsQueued, Restated
<1>6. HeldIsNotQueued'
  BY <1>1, <1>2 DEF QueueInv, HeldIsNotQueued, Restated
<1>7. PendingCount'
  <2>1. IsFiniteSet(queue)
    BY QueueFinite DEF TypeInv
  <2>2. CASE r \in queue
    <3>1. Cardinality(queue \ {r}) = Cardinality(queue) - 1
      BY <2>1, <2>2, FS_RemoveElement
    <3> QED
      BY <1>1, <1>3, <2>2, <3>1 DEF QueueInv, PendingCount
  <2>3. CASE r \notin queue
    BY <1>1, <1>3, <2>3 DEF QueueInv, PendingCount
  <2> QED
    BY <2>2, <2>3
<1>8. FreshProcess'
  BY <1>1 DEF FreshProcess
<1> QED
  BY <1>4, <1>5, <1>6, <1>7, <1>8 DEF QueueInv

\* Counting an update changes no pending job and no count of them.
LEMMA AccountKeepsQueue ==
  ASSUME TypeInv, QueueInv, NEW c \in Callers, Account(c)
  PROVE  QueueInv'
<1>1. /\ stats'.pending = stats.pending + (IF call[c].new = "pending" THEN 1 ELSE 0)
                                        - (IF call[c].old = "pending" THEN 1 ELSE 0)
      /\ call[c].pc = "account" /\ call'[c] = Idle /\ \A d \in Callers \ {c} : call'[d] = call[d]
      /\ UNCHANGED <<up, objs, jobs, queue, held>>
  BY AccountDoes DEF TypeInv
<1>2. c \in Updating
  BY <1>1 DEF QueueInv, NewIds, Updating
<1>3. call[c].old # "pending" /\ call[c].new # "pending"
  BY <1>2 DEF QueueInv, NoUpdateOfPending
<1>4. stats.pending \in Int
  BY DEF TypeInv, TypeOK
<1>5. stats'.pending = stats.pending
  BY <1>1, <1>3, <1>4
<1>6. Idle.pc = "idle" /\ Idle.mem = FALSE
  BY DEF Idle
<1>7. up
  BY <1>1, IdleTyped DEF QueueInv, FreshProcess
<1>8. NewIds' /\ NoUpdateOfPending'
  BY <1>1, <1>6 DEF QueueInv, NewIds, NoUpdateOfPending, Updating, Enqueuing
<1> QED
  BY <1>1, <1>5, <1>7, <1>8 DEF QueueInv, ObjsAreMapped, PendingIsQueued, HeldIsNotQueued, PendingCount,
       FreshProcess

\* A cleared queue, a new process, a recovered one.
LEMMA ProcessKeepsQueue ==
  ASSUME TypeInv, QueueInv,
         Clear \/ LoadPersistedJobs \/ LoadFails \/ CleanupOldJobs \/ Restart \/ UNCHANGED vars
  PROVE  QueueInv'
<1>1. Idle.pc = "idle" /\ Idle.mem = FALSE
  BY DEF Idle
<1>2. CASE Clear \/ Restart
  <2>1. /\ objs' = <<>> /\ queue' = {} /\ held' = {} /\ stats' = NoStats
        /\ \A id \in JobIds : jobs'[id] = NoRef
        /\ (UNCHANGED call /\ up') \/ (\A c \in Callers : call'[c] = Idle)
    BY <1>2 DEF Clear, Restart
  <2>2. NewIds'
    <3>1. CASE UNCHANGED call
      <4>1. \A c \in Callers : Owns[c] \subseteq JobIds
        BY ConstAssumption DEF JobIds
      <4> QED
        BY <2>1, <3>1, <4>1 DEF QueueInv, NewIds, Enqueuing
    <3>2. CASE \A c \in Callers : call'[c] = Idle
      BY <1>1, <3>2 DEF NewIds, Enqueuing
    <3> QED
      BY <2>1, <3>1, <3>2
  <2>3. NoUpdateOfPending'
    BY <1>1, <2>1 DEF QueueInv, NoUpdateOfPending, Updating
  <2>4. PendingCount'
    BY <2>1, FS_EmptySet DEF PendingCount, NoStats
  <2>5. FreshProcess'
    BY <2>1 DEF FreshProcess
  <2>6. DOMAIN objs' = {}
    BY <2>1
  <2> QED
    BY <2>1, <2>2, <2>3, <2>4, <2>5, <2>6 DEF QueueInv, ObjsAreMapped, PendingIsQueued, HeldIsNotQueued
<1>3. CASE LoadPersistedJobs
  <2>1. /\ ~up /\ up' /\ UNCHANGED <<held, call>>
        /\ \A id \in JobIds :
             \/ jobs'[id] = NoRef /\ \A k \in DOMAIN objs' : objs'[k].id # id
             \/ jobs'[id] # NoRef
        /\ queue' = {k \in DOMAIN objs' : objs'[k].status = "pending"}
        /\ stats'.pending = Cardinality(queue')
    BY <1>3, LoadDoes
  <2>2. held = {} /\ \A c \in Callers : call'[c] = Idle
    BY <2>1 DEF QueueInv, FreshProcess
  <2>3. \A k \in DOMAIN objs' : objs'[k].id \in JobIds
    <3>1. objs' \in Seq(Job)
      BY <1>3, ProcessStepTyped DEF TypeInv, TypeOK
    <3>2. \A k \in DOMAIN objs' : objs'[k] \in Job
      BY <3>1, ElementOfSeq
    <3> QED
      BY <3>2 DEF Job
  <2> QED
    BY <1>1, <2>1, <2>2, <2>3 DEF QueueInv, NewIds, NoUpdateOfPending, Updating, Enqueuing, ObjsAreMapped,
         PendingIsQueued, HeldIsNotQueued, PendingCount, FreshProcess
<1>4. CASE LoadFails
  <2>1. ~up /\ up' /\ UNCHANGED <<objs, jobs, queue, stats, held, call>>
    BY <1>4 DEF LoadFails, memVars
  <2> QED
    BY <2>1 DEF QueueInv, NewIds, NoUpdateOfPending, Updating, Enqueuing, ObjsAreMapped,
         PendingIsQueued, HeldIsNotQueued, PendingCount, FreshProcess
<1>5. CASE CleanupOldJobs \/ UNCHANGED vars
  <2>1. UNCHANGED <<objs, jobs, queue, stats, held, call, up>>
    BY <1>5 DEF CleanupOldJobs, vars, memVars
  <2> QED
    BY <2>1 DEF QueueInv, NewIds, NoUpdateOfPending, Updating, Enqueuing, ObjsAreMapped,
         PendingIsQueued, HeldIsNotQueued, PendingCount, FreshProcess
<1> QED
  BY <1>2, <1>3, <1>4, <1>5

\* No step miscounts the pending jobs.
LEMMA QueueStep == ASSUME QueueDiscipline PROVE TypeInv /\ QueueInv /\ [Next]_vars => QueueInv'
<1> SUFFICES ASSUME TypeInv, QueueInv, [Next]_vars PROVE QueueInv'
  OBVIOUS
<1> QED
  BY StepKinds, QuietKeepsQueue, UpdateKeepsQueue, AdmitKeepsQueue, DequeueKeepsQueue, CancelKeepsQueue,
     AccountKeepsQueue, ProcessKeepsQueue

\* getStats' pendingJobs is the number of jobs in the priority queue, through
\* failures, clear() and restarts.
THEOREM PendingIsCounted == ASSUME QueueDiscipline PROVE Spec => []PendingCount
<1>1. TypeInv /\ QueueInv /\ [Next]_vars => QueueInv'
  BY QueueStep
<1>2. QueueInv => PendingCount
  BY DEF QueueInv
<1> QED
  BY TypeInit, TypeStep, QueueInit, <1>1, <1>2, PTL DEF Spec

-----------------------------------------------------------------------------
(***************************************************************************)
(* The queue and the store.  When the queue is the only writer of its      *)
(* tables, a pending row has one history row, so recovery makes one object *)
(* of it, and every queued object is the one its id leads to.              *)
(***************************************************************************)
OnlyWriter == FacadeIds = {}

\* Every call is one of MemoryJobQueue's.
OwnCalls == \A c \in Callers : call[c].pc # "idle" => call[c].mem

\* One row of table jobs per external id, and one external id per row.
OnePkPerId ==
  \A i, j \in DOMAIN history : history[i].id = history[j].id <=> history[i].pk = history[j].pk

\* Primary keys in use come from the sequence.
OldRowPks == \A i \in DOMAIN history : history[i].pk < nextPk
OldCallPks ==
  \A c \in Callers :
    call[c].pc \in {"insertMapping", "updateRow", "appendHistory"} => call[c].pk < nextPk

\* What an insert is at work on is not mapped yet.
UnmappedYet ==
  \A c \in Callers :
    /\ call[c].pc \in {"insertRow", "insertMapping"} =>
         \A i \in DOMAIN history : history[i].id # call[c].id
    /\ call[c].pc = "insertMapping" =>
         /\ \A i \in DOMAIN history : history[i].pk # call[c].pk
         /\ \A d \in Callers : call[d].pc = "insertMapping" /\ call[d].pk = call[c].pk => d = c

\* What an update is at work on is mapped, and no longer pending once written.
UpdatesMapped ==
  \A c \in Callers :
    /\ call[c].pc \in {"updateRow", "appendHistory"} =>
         \E i \in DOMAIN history : history[i].id = call[c].id /\ history[i].pk = call[c].pk
    /\ call[c].pc = "appendHistory" => rows[call[c].pk] # "pending"

\* Only an update gives a row a second history row.
PendingHasOneRow ==
  \A i, j \in DOMAIN history :
    history[i].pk = history[j].pk /\ i # j => rows[history[i].pk] # "pending"

QueuedIsCurrent == \A r \in queue : jobs[objs[r].id] = r

StoreTables == OnePkPerId /\ OldRowPks /\ PendingHasOneRow
StoreCalls == OwnCalls /\ OldCallPks /\ UnmappedYet /\ UpdatesMapped
StoreInv == StoreTables /\ StoreCalls /\ QueuedIsCurrent

\* Empty tables.
LEMMA StoreInit == Init => StoreInv
<1> SUFFICES ASSUME Init PROVE StoreInv
  OBVIOUS
<1>1. \A c \in Callers : call[c].pc = "idle"
  BY IdleTyped DEF Init
<1>2. DOMAIN history = {} /\ queue = {}
  BY DEF Init
<1>3. StoreTables /\ QueuedIsCurrent
  BY <1>2 DEF StoreTables, OnePkPerId, OldRowPks, PendingHasOneRow, QueuedIsCurrent
<1>4. StoreCalls
  BY <1>1 DEF StoreCalls, OwnCalls, OldCallPks, UnmappedYet, UpdatesMapped
<1> QED
  BY <1>3, <1>4 DEF StoreInv

\* A primary key of a history row, and of a call that works on a row, is one.
LEMMA PksTyped ==
  ASSUME TypeInv
  PROVE  /\ \A i \in DOMAIN history : history[i].pk \in Pks /\ history[i].pk \in Nat /\ history[i].id \in Ids
         /\ \A c \in Callers : call[c].pc \in {"insertMapping", "updateRow", "appendHistory"}
              => call[c].pk \in Pks /\ call[c].pk \in Nat
         /\ nextPk \in Nat
<1>1. Pks \subseteq Nat
  BY DEF Pks
<1>2. \A i \in DOMAIN history : history[i] \in HistoryRow
  BY HistoryRowType DEF TypeInv
<1>3. nextPk \in Nat
  BY ConstAssumption DEF TypeInv, TypeOK
<1>4. \A c \in Callers : CallOK(c)
  BY DEF TypeInv
<1> QED
  BY <1>1, <1>2, <1>3, <1>4 DEF CallOK, HistoryRow

\* A step that leaves the tables alone, and no call at a statement it was not at.
LEMMA StoreRests ==
  ASSUME StoreTables, StoreCalls, UNCHANGED <<rows, nextPk, history>>,
         \A d \in Callers :
           \/ call'[d] = call[d]
           \/ call'[d].pc = "idle"
           \/ call'[d].mem /\ call'[d].pc \notin {"insertRow", "insertMapping", "updateRow", "appendHistory"}
  PROVE  StoreTables' /\ StoreCalls'
<1>1. StoreTables'
  BY DEF StoreTables, OnePkPerId, OldRowPks, PendingHasOneRow
<1>2. OwnCalls' /\ OldCallPks'
  BY DEF StoreCalls, OwnCalls, OldCallPks
<1>3. UnmappedYet' /\ UpdatesMapped'
  BY DEF StoreCalls, UnmappedYet, UpdatesMapped
<1> QED
  BY <1>1, <1>2, <1>3 DEF StoreCalls

\* An enqueue goes on to its first insert only if the store knows no such id.
LEMMA CheckExistsKeepsStore ==
  ASSUME TypeInv, StoreTables, StoreCalls, NEW c \in Callers, CheckExists(c)
  PROVE  StoreTables' /\ StoreCalls'
<1>1. /\ call[c].pc = "exists" /\ UNCHANGED <<rows, nextPk, history>>
      /\ \/ Ends(c)
         \/ Advances(c, "insertRow") /\ \A i \in DOMAIN history : history[i].id # call[c].id
  BY CheckExistsDoes DEF TypeInv
<1>2. CASE Ends(c)
  BY <1>1, <1>2, StoreRests, IdleTyped DEF Ends
<1>3. CASE Advances(c, "insertRow") /\ \A i \in DOMAIN history : history[i].id # call[c].id
  <2>1. StoreTables'
    BY <1>1 DEF StoreTables, OnePkPerId, OldRowPks, PendingHasOneRow
  <2>2. OwnCalls' /\ OldCallPks' /\ UpdatesMapped'
    BY <1>1, <1>3 DEF StoreCalls, OwnCalls, OldCallPks, UpdatesMapped, Advances
  <2>3. UnmappedYet'
    BY <1>1, <1>3 DEF StoreCalls, UnmappedYet, Advances
  <2> QED
    BY <2>1, <2>2, <2>3 DEF StoreCalls
<1> QED
  BY <1>1, <1>2, <1>3

\* The new row gets a primary key that no row and no call had.
LEMMA InsertRowKeepsStore ==
  ASSUME TypeInv, StoreTables, StoreCalls, NEW c \in Callers, InsertRow(c)
  PROVE  StoreTables' /\ StoreCalls'
<1>1. /\ call[c].pc = "insertRow" /\ Advances(c, "insertMapping") /\ call'[c].pk = nextPk
      /\ nextPk \in Pks /\ nextPk' = nextPk + 1 /\ UNCHANGED history
      /\ \A pk \in Pks : rows'[pk] = IF pk = nextPk THEN call[c].new ELSE rows[pk]
  BY InsertRowDoes DEF TypeInv
<1>2. /\ \A i \in DOMAIN history : history[i].pk \in Pks /\ history[i].pk \in Nat
      /\ \A d \in Callers : call[d].pc \in {"insertMapping", "updateRow", "appendHistory"}
           => call[d].pk \in Pks /\ call[d].pk \in Nat
      /\ nextPk \in Nat
  BY PksTyped
<1>3. \A pk \in Pks : pk \in Nat /\ pk < nextPk => rows'[pk] = rows[pk]
  BY <1>1, <1>2
<1>4. StoreTables'
  BY <1>1, <1>2, <1>3 DEF StoreTables, OnePkPerId, OldRowPks, PendingHasOneRow
<1>5. OwnCalls' /\ OldCallPks'
  BY <1>1, <1>2 DEF StoreCalls, OwnCalls, OldCallPks, Advances
<1>6. UnmappedYet'
  <2>1. \A i \in DOMAIN history : history[i].pk # nextPk
    BY <1>2 DEF StoreTables, OldRowPks
  <2>2. \A d \in Callers : call[d].pc = "insertMapping" => call[d].pk # nextPk
    BY <1>2 DEF StoreCalls, OldCallPks
  <2> QED
    BY <1>1, <2>1, <2>2 DEF StoreCalls, UnmappedYet, Advances
<1>7. UpdatesMapped'
  <2>1. \A d \in Callers : call[d].pc = "appendHistory" => rows'[call[d].pk] = rows[call[d].pk]
    BY <1>2, <1>3 DEF StoreCalls, OldCallPks
  <2> QED
    BY <1>1, <2>1 DEF StoreCalls, UpdatesMapped, Advances
<1> QED
  BY <1>4, <1>5, <1>6, <1>7 DEF StoreCalls

\* The row gets its only history row, under an id of its caller's own.
LEMMA InsertMappingKeepsStore ==
  ASSUME TypeInv, NewIds, QueueDiscipline, StoreTables, StoreCalls, NEW c \in Callers, InsertMapping(c)
  PROVE  StoreTables' /\ StoreCalls'
<1> DEFINE n == Len(history) + 1
<1>1. /\ call[c].pc = "insertMapping" /\ UNCHANGED <<rows, nextPk>>
      /\ Ends(c) \/ (Advances(c, "admit") /\ call[c].mem)
  BY InsertMappingDoes
<1>2. /\ n \notin DOMAIN history /\ DOMAIN history' = DOMAIN history \cup {n}
      /\ \A i \in DOMAIN history : history'[i] = history[i]
      /\ history'[n].id = call[c].id /\ history'[n].pk = call[c].pk
  BY InsertMappingDoes DEF Appends
<1> HIDE DEF n
<1>3. /\ \A i \in DOMAIN history : history[i].id # call[c].id /\ history[i].pk # call[c].pk
      /\ call[c].pk < nextPk /\ call[c].mem
  BY <1>1 DEF StoreCalls, UnmappedYet, OldCallPks, OwnCalls
<1>4. /\ \A d \in Callers \ {c} : call'[d] = call[d]
      /\ call'[c].pc \in {"idle", "admit"} /\ (call'[c].pc # "idle" => call'[c].mem)
  BY <1>1, <1>3, IdleTyped DEF Ends, Advances
<1>5. StoreTables'
  <2>1. OnePkPerId'
    BY <1>2, <1>3 DEF StoreTables, OnePkPerId
  <2>2. OldRowPks'
    BY <1>1, <1>2, <1>3 DEF StoreTables, OldRowPks
  <2>3. PendingHasOneRow'
    BY <1>1, <1>2, <1>3 DEF StoreTables, PendingHasOneRow
  <2> QED
    BY <2>1, <2>2, <2>3 DEF StoreTables
<1>6. OwnCalls' /\ OldCallPks'
  BY <1>1, <1>4 DEF StoreCalls, OwnCalls, OldCallPks
<1>7. UpdatesMapped'
  BY <1>1, <1>2, <1>4 DEF StoreCalls, UpdatesMapped
<1>8. UnmappedYet'
  <2>1. ASSUME NEW d \in Callers, d # c, call[d].pc \in {"insertRow", "insertMapping"}
        PROVE  call[d].id # call[c].id
    <3>1. Enqueuing(c) /\ Enqueuing(d)
      BY <1>1, <2>1 DEF Enqueuing, StoreCalls, OwnCalls
    <3> QED
      BY <2>1, <3>1 DEF NewIds, QueueDiscipline
  <2>2. ASSUME NEW d \in Callers, d # c, call[d].pc = "insertMapping"
        PROVE  call[d].pk # call[c].pk
    BY <1>1, <2>2 DEF StoreCalls, UnmappedYet
  <2> QED
    BY <1>2, <1>4, <2>1, <2>2 DEF StoreCalls, UnmappedYet
<1> QED
  BY <1>5, <1>6, <1>7, <1>8 DEF StoreCalls

\* The lookup finds the row of the id.
LEMMA ResolveKeepsStore ==
  ASSUME TypeInv, StoreTables, StoreCalls, NEW c \in Callers, Resolve(c)
  PROVE  StoreTables' /\ StoreCalls'
<1>1. /\ call[c].pc = "resolve" /\ UNCHANGED <<rows, nextPk, history>>
      /\ \/ Ends(c)
         \/ Advances(c, "account")
         \/ /\ Advances(c, "updateRow")
            /\ \E i \in DOMAIN history : history[i].id = call[c].id /\ history[i].pk = call'[c].pk
  BY ResolveDoes
<1>2. call[c].mem
  BY <1>1 DEF StoreCalls, OwnCalls
<1>3. CASE Ends(c) \/ Advances(c, "account")
  BY <1>1, <1>2, <1>3, StoreRests, IdleTyped DEF Ends, Advances
<1>4. CASE /\ Advances(c, "updateRow")
           /\ \E i \in DOMAIN history : history[i].id = call[c].id /\ history[i].pk = call'[c].pk
  <2>1. StoreTables'
    BY <1>1 DEF StoreTables, OnePkPerId, OldRowPks, PendingHasOneRow
  <2>2. OwnCalls' /\ OldCallPks'
    BY <1>1, <1>2, <1>4 DEF StoreTables, OldRowPks, StoreCalls, OwnCalls, OldCallPks, Advances
  <2>3. UnmappedYet' /\ UpdatesMapped'
    BY <1>1, <1>4 DEF StoreCalls, UnmappedYet, UpdatesMapped, Advances
  <2> QED
    BY <2>1, <2>2, <2>3 DEF StoreCalls
<1> QED
  BY <1>1, <1>3, <1>4

\* An update never writes pending.
LEMMA UpdateRowKeepsStore ==
  ASSUME TypeInv, NoUpdateOfPending, StoreTables, StoreCalls, NEW c \in Callers, UpdateRow(c)
  PROVE  StoreTables' /\ StoreCalls'
<1>1. /\ call[c].pc = "updateRow" /\ Advances(c, "appendHistory") /\ call'[c].pk = call[c].pk
      /\ call[c].pk \in Pks /\ UNCHANGED <<nextPk, history>>
      /\ \A pk \in Pks : rows'[pk] = IF pk = call[c].pk /\ rows[pk] # "none" THEN call[c].new ELSE rows[pk]
  BY UpdateRowDoes
<1>2. call[c].mem /\ call[c].new # "pending"
  BY <1>1 DEF StoreCalls, OwnCalls, NoUpdateOfPending, Updating
<1>3. /\ \A i \in DOMAIN history : history[i].pk \in Pks
      /\ \A d \in Callers : call[d].pc = "appendHistory" => call[d].pk \in Pks
  BY PksTyped
<1>4. /\ \A pk \in Pks : rows[pk] # "pending" => rows'[pk] # "pending"
      /\ rows'[call[c].pk] # "pending"
  BY <1>1, <1>2
<1>5. StoreTables'
  BY <1>1, <1>3, <1>4 DEF StoreTables, OnePkPerId, OldRowPks, PendingHasOneRow
<1>6. OwnCalls' /\ OldCallPks' /\ UnmappedYet'
  <2>1. OwnCalls' /\ OldCallPks'
    BY <1>1, <1>2 DEF StoreCalls, OwnCalls, OldCallPks, Advances
  <2>2. UnmappedYet'
    BY <1>1 DEF StoreCalls, UnmappedYet, Advances
  <2> QED
    BY <2>1, <2>2
<1>7. UpdatesMapped'
  BY <1>1, <1>3, <1>4 DEF StoreCalls, UpdatesMapped, Advances
<1> QED
  BY <1>5, <1>6, <1>7 DEF StoreCalls

\* A second history row comes only after the row stopped being pending.
LEMMA AppendHistoryKeepsStore ==
  ASSUME TypeInv, StoreTables, StoreCalls, NEW c \in Callers, AppendHistory(c)
  PROVE  StoreTables' /\ StoreCalls'
<1> DEFINE n == Len(history) + 1
<1>1. /\ call[c].pc = "appendHistory" /\ UNCHANGED <<rows, nextPk>>
      /\ Ends(c) \/ Advances(c, "account")
  BY AppendHistoryDoes
<1>2. /\ n \notin DOMAIN history /\ DOMAIN history' = DOMAIN history \cup {n}
      /\ \A i \in DOMAIN history : history'[i] = history[i]
      /\ history'[n].id = call[c].id /\ history'[n].pk = call[c].pk
  BY AppendHistoryDoes DEF Appends
<1> HIDE DEF n
<1>3. PICK k \in DOMAIN history : history[k].id = call[c].id /\ history[k].pk = call[c].pk
  BY <1>1 DEF StoreCalls, UpdatesMapped
<1>4. rows[call[c].pk] # "pending" /\ call[c].mem
  BY <1>1 DEF StoreCalls, UpdatesMapped, OwnCalls
<1>5. /\ \A d \in Callers \ {c} : call'[d] = call[d]
      /\ call'[c].pc \in {"idle", "account"} /\ (call'[c].pc # "idle" => call'[c].mem)
  BY <1>1, <1>4, IdleTyped DEF Ends, Advances
<1>6. StoreTables'
  <2>1. OnePkPerId'
    <3>1. \A i \in DOMAIN history : history[i].id = call[c].id <=> history[i].pk = call[c].pk
      BY <1>3 DEF StoreTables, OnePkPerId
    <3> QED
      BY <1>2, <3>1 DEF StoreTables, OnePkPerId
  <2>2. OldRowPks'
    BY <1>1, <1>2, <1>3 DEF StoreTables, OldRowPks
  <2>3. PendingHasOneRow'
    BY <1>1, <1>2, <1>4 DEF StoreTables, PendingHasOneRow
  <2> QED
    BY <2>1, <2>2, <2>3 DEF StoreTables
<1>7. OwnCalls' /\ OldCallPks'
  BY <1>1, <1>5 DEF StoreCalls, OwnCalls, OldCallPks
<1>8. UpdatesMapped'
  BY <1>1, <1>2, <1>5 DEF StoreCalls, UpdatesMapped
<1>9. UnmappedYet'
  <2>1. \A d \in Callers : /\ call[d].pc \in {"insertRow", "insertMapping"} => call[d].id # call[c].id
                           /\ call[d].pc = "insertMapping" => call[d].pk # call[c].pk
    BY <1>3 DEF StoreCalls, UnmappedYet
  <2> QED
    BY <1>2, <1>5, <2>1 DEF StoreCalls, UnmappedYet
<1> QED
  BY <1>6, <1>7, <1>8, <1>9 DEF StoreCalls

\* Steps other than the two inserts, the update and cleanup write no table, and
\* put no call where a table is written next.
LEMMA StoreStep ==
  ASSUME QueueDiscipline, OnlyWriter, TypeInv, QueueInv, StoreTables, StoreCalls, [Next]_vars
  PROVE  StoreTables' /\ StoreCalls'
<1>1. ASSUME NEW c \in Callers, Quiet(c) PROVE StoreTables' /\ StoreCalls'
  <2>1. CASE \/ \E id \in Owns[c], p \in Priorities : EnqueueStart(c, id, p)
             \/ DbFailure(c)
    <3>1. UNCHANGED <<rows, nextPk, history>>
      BY <2>1 DEF EnqueueStart, DbFailure, dbVars
    <3>2. CASE \E id \in Owns[c], p \in Priorities : EnqueueStart(c, id, p)
      <4>1. PICK id \in Owns[c], p \in Priorities : EnqueueStart(c, id, p)
        BY <3>2
      <4>2. call' = [call EXCEPT ![c] =
                       [Idle EXCEPT !.pc = "exists", !.mem = TRUE, !.id = id, !.prio = p]]
        BY <4>1 DEF EnqueueStart
      <4>3. \A d \in Callers : \/ call'[d] = call[d]
                               \/ call'[d].mem /\ call'[d].pc = "exists"
        BY <4>2 DEF TypeInv, TypeOK, Idle
      <4> QED
        BY <3>1, <4>3, StoreRests
    <3>3. CASE DbFailure(c)
      <4>1. \A d \in Callers : call'[d] = call[d] \/ call'[d].pc = "idle"
        BY <3>3, IdleTyped DEF DbFailure, TypeInv, TypeOK
      <4> QED
        BY <3>1, <4>1, StoreRests
    <3> QED
      BY <2>1, <3>2, <3>3
  <2>2. ~FacadeStart(c)
    BY DEF OnlyWriter, FacadeStart
  <2> QED
    BY <1>1, <2>1, <2>2, CheckExistsKeepsStore, InsertRowKeepsStore, InsertMappingKeepsStore,
       ResolveKeepsStore, UpdateRowKeepsStore, AppendHistoryKeepsStore DEF Quiet, QueueInv
<1>2. ASSUME NEW c \in Callers, Admit(c) \/ Account(c) PROVE StoreTables' /\ StoreCalls'
  <2>1. UNCHANGED <<rows, nextPk, history>> /\ call'[c] = Idle /\ \A d \in Callers \ {c} : call'[d] = call[d]
    BY <1>2, AdmitDoes, AccountDoes DEF TypeInv
  <2> QED
    BY <2>1, StoreRests, IdleTyped
<1>3. ASSUME NEW c \in Callers, NEW id \in JobIds, NEW s \in Targets, UpdateStart(c, id, s)
      PROVE  StoreTables' /\ StoreCalls'
  <2>1. /\ UNCHANGED <<rows, nextPk, history>> /\ \A d \in Callers \ {c} : call'[d] = call[d]
        /\ call'[c].pc = "resolve" /\ call'[c].mem
    BY <1>3, UpdateDoes DEF TypeInv
  <2> QED
    BY <2>1, StoreRests
<1>4. CASE UNCHANGED <<rows, nextPk, history, call>>
  BY <1>4, StoreRests
<1>5. CASE Restart
  <2>1. UNCHANGED <<rows, nextPk, history>> /\ \A c \in Callers : call'[c].pc = "idle"
    BY <1>5, IdleTyped DEF Restart, dbVars
  <2> QED
    BY <2>1, StoreRests
<1>6. CASE CleanupOldJobs
  <2>1. UNCHANGED <<nextPk, history, call>>
        /\ \A pk \in Pks : rows[pk] # "pending" => rows'[pk] # "pending"
    BY <1>6 DEF CleanupOldJobs
  <2>2. /\ \A i \in DOMAIN history : history[i].pk \in Pks
        /\ \A c \in Callers : call[c].pc = "appendHistory" => call[c].pk \in Pks
    BY PksTyped
  <2>3. StoreTables'
    BY <2>1, <2>2 DEF StoreTables, OnePkPerId, OldRowPks, PendingHasOneRow
  <2>4. StoreCalls'
    BY <2>1, <2>2 DEF StoreCalls, OwnCalls, OldCallPks, UnmappedYet, UpdatesMapped
  <2> QED
    BY <2>3, <2>4
<1>7. ASSUME \/ \E r \in queue : Dequeue(r)
             \/ \E id \in JobIds : Cancel(id)
             \/ Clear \/ LoadPersistedJobs \/ LoadFails \/ UNCHANGED vars
      PROVE  UNCHANGED <<rows, nextPk, history, call>>
  BY <1>7 DEF Dequeue, Cancel, Clear, LoadPersistedJobs, LoadFails, vars, dbVars
<1> QED
  BY StepKinds, <1>1, <1>2, <1>3, <1>4, <1>5, <1>6, <1>7

\* Recovery makes one object of a pending row.
LEMMA RecoveredPendingOnce ==
  ASSUME TypeOK, OnePkPerId, PendingHasOneRow, NEW m \in JoinNames, NEW n \in JoinNames,
         Recovered(m).id = Recovered(n).id, Recovered(m).status = "pending"
  PROVE  m = n
<1>1. CASE Recovered(m).id \in Ids
  <2>1. /\ m \in DOMAIN history /\ history[m].id = Recovered(m).id
        /\ Recovered(m).status = rows[history[m].pk]
        /\ n \in DOMAIN history /\ history[n].id = Recovered(m).id
    BY <1>1, RecoveredJob
  <2>2. history[m].pk = history[n].pk
    BY <2>1 DEF OnePkPerId
  <2> QED
    BY <2>1, <2>2 DEF PendingHasOneRow
<1>2. CASE Recovered(m).id \notin Ids
  BY <1>2, RecoveredJob
<1> QED
  BY <1>1, <1>2

\* A queued object stays the one its id leads to.
LEMMA CurrentStep ==
  ASSUME QueueDiscipline, TypeInv, QueueInv, OnePkPerId, PendingHasOneRow, QueuedIsCurrent, [Next]_vars
  PROVE  QueuedIsCurrent'
<1>1. /\ \A r \in DOMAIN objs : objs[r].id \in JobIds /\ r # NoRef
      /\ queue \subseteq DOMAIN objs
  BY ShapesHold DEF TypeInv, Shapes
<1>2. ASSUME NEW c \in Callers, Admit(c) PROVE QueuedIsCurrent'
  <2> DEFINE ref == Len(objs) + 1
  <2>1. /\ call[c].pc = "admit" /\ call[c].id \in Ids /\ Ids \subseteq JobIds
        /\ ref \notin DOMAIN objs /\ DOMAIN objs' = DOMAIN objs \cup {ref}
        /\ \A q \in DOMAIN objs : objs'[q] = objs[q]
        /\ objs'[ref].id = call[c].id
        /\ \A id \in JobIds : jobs'[id] = IF id = call[c].id THEN ref ELSE jobs[id]
        /\ queue' = queue \cup {ref}
    BY <1>2, AdmitDoes DEF JobIds
  <2> HIDE DEF ref
  <2>2. jobs[call[c].id] = NoRef
    BY <2>1 DEF QueueInv, NewIds, Enqueuing
  <2>3. \A q \in queue : objs[q].id # call[c].id
    BY <1>1, <2>2 DEF QueuedIsCurrent
  <2> QED
    BY <1>1, <2>1, <2>3 DEF QueuedIsCurrent
<1>3. ASSUME NEW r \in queue, Dequeue(r) PROVE QueuedIsCurrent'
  <2>1. /\ r \in DOMAIN objs /\ Restated(r, "running") /\ queue' = queue \ {r}
        /\ \A id \in JobIds : jobs'[id] = IF id = objs[r].id THEN r ELSE jobs[id]
    BY <1>3, DequeueDoes DEF TypeInv
  <2>2. \A q \in queue' : objs[q].id # objs[r].id
    BY <2>1 DEF QueuedIsCurrent
  <2> QED
    BY <1>1, <2>1, <2>2 DEF QueuedIsCurrent, Restated
<1>4. ASSUME NEW id \in JobIds, Cancel(id) PROVE QueuedIsCurrent'
  <2>1. /\ Restated(jobs[id], "cancelled") /\ queue' \subseteq queue /\ UNCHANGED jobs
    BY <1>4, CancelDoes DEF TypeInv
  <2> QED
    BY <1>1, <2>1 DEF QueuedIsCurrent, Restated
<1>5. ASSUME NEW c \in Callers, NEW id \in JobIds, NEW s \in Targets, UpdateStart(c, id, s)
      PROVE  QueuedIsCurrent'
  <2>1. Restated(jobs[id], s) /\ UNCHANGED <<jobs, queue>>
    BY <1>5, UpdateDoes DEF TypeInv
  <2> QED
    BY <1>1, <2>1 DEF QueuedIsCurrent, Restated
<1>6. CASE LoadPersistedJobs
  <2>1. /\ \A id \in JobIds :
             \/ jobs'[id] = NoRef /\ \A k \in DOMAIN objs' : objs'[k].id # id
             \/ jobs'[id] \in DOMAIN objs' /\ objs'[jobs'[id]].id = id
        /\ queue' = {k \in DOMAIN objs' : objs'[k].status = "pending"}
    BY <1>6, LoadDoes
  <2>2. PICK s \in [DOMAIN objs' -> JoinNames] :
          /\ \A k \in DOMAIN objs' : objs'[k] = Recovered(s[k])
          /\ \A j, k \in DOMAIN objs' : s[j] = s[k] => j = k
    BY <1>6, LoadDoes
  <2>3. ASSUME NEW k \in queue' PROVE jobs'[objs'[k].id] = k
    <3>1. k \in DOMAIN objs' /\ objs'[k].status = "pending" /\ s[k] \in JoinNames
      BY <2>1, <2>2, <2>3
    <3>2. objs'[k] \in Job
      BY <2>2, <3>1, RecoveredJob DEF TypeInv
    <3>3. objs'[k].id \in JobIds
      BY <3>2 DEF Job
    <3> DEFINE j == jobs'[objs'[k].id]
    <3>4. j \in DOMAIN objs' /\ objs'[j].id = objs'[k].id
      BY <2>1, <3>1, <3>3
    <3> HIDE DEF j
    <3>5. s[j] \in JoinNames /\ objs'[j] = Recovered(s[j]) /\ objs'[k] = Recovered(s[k])
      BY <2>2, <3>1, <3>4
    <3>6. Recovered(s[k]).id = Recovered(s[j]).id /\ Recovered(s[k]).status = "pending"
      BY <3>1, <3>4, <3>5
    <3>7. s[k] = s[j]
      BY <3>1, <3>5, <3>6, RecoveredPendingOnce DEF TypeInv
    <3>8. k = j
      BY <2>2, <3>1, <3>4, <3>7
    <3> QED
      BY <3>8 DEF j
  <2> QED
    BY <2>3 DEF QueuedIsCurrent
<1>7. CASE Clear \/ Restart
  BY <1>7 DEF Clear, Restart, QueuedIsCurrent
<1>8. CASE UNCHANGED <<objs, jobs, queue>>
  BY <1>8 DEF QueuedIsCurrent
<1>9. ASSUME NEW c \in Callers, Quiet(c) \/ Account(c) PROVE UNCHANGED <<objs, jobs, queue>>
  BY <1>9, QuietDoes, AccountDoes DEF TypeInv
<1>10. ASSUME LoadFails \/ CleanupOldJobs \/ UNCHANGED vars PROVE UNCHANGED <<objs, jobs, queue>>
  BY <1>10 DEF LoadFails, CleanupOldJobs, vars, memVars
<1> QED
  BY StepKinds, <1>2, <1>3, <1>4, <1>5, <1>6, <1>7, <1>8, <1>9, <1>10

\* No step breaks the correspondence of queue and store.
LEMMA StoreInvStep ==
  ASSUME QueueDiscipline, OnlyWriter
  PROVE  TypeInv /\ QueueInv /\ StoreInv /\ [Next]_vars => StoreInv'
BY StoreStep, CurrentStep DEF StoreInv, StoreTables

\* The priority queue holds exactly the pending objects, and each is the one its
\* id leads to, through failed statements, clear(), cancels and restarts.
THEOREM PendingMeansQueued ==
  ASSUME QueueDiscipline, OnlyWriter
  PROVE  Spec => []PendingIffQueued
<1>1. TypeInv /\ QueueInv /\ [Next]_vars => QueueInv'
  BY QueueStep
<1>2. TypeInv /\ QueueInv /\ StoreInv /\ [Next]_vars => StoreInv'
  BY StoreInvStep
<1>3. QueueInv /\ StoreInv => PendingIffQueued
  BY DEF QueueInv, StoreInv, PendingIffQueued, PendingIsQueued, QueuedIsCurrent
<1> QED
  BY TypeInit, TypeStep, QueueInit, StoreInit, <1>1, <1>2, <1>3, PTL DEF Spec

\* The map leads from an id to an object with that id.
MapById == \A id \in JobIds : jobs[id] # NoRef => objs[jobs[id]].id = id

\* An empty map.
LEMMA MapByIdInit == Init => MapById
BY DEF Init, MapById

\* Every assignment to the map is under the id of the object.
LEMMA MapByIdStep == TypeInv /\ MapById /\ [Next]_vars => MapById'
<1> SUFFICES ASSUME TypeInv, MapById, [Next]_vars PROVE MapById'
  OBVIOUS
<1>1. /\ \A r \in DOMAIN objs : objs[r].id \in JobIds /\ r # NoRef
      /\ \A id \in JobIds : jobs[id] # NoRef => jobs[id] \in DOMAIN objs
  BY ShapesHold DEF TypeInv, Shapes
<1>2. ASSUME NEW c \in Callers, Admit(c) PROVE MapById'
  BY <1>1, <1>2, AdmitDoes DEF MapById
<1>3. ASSUME NEW r \in queue, Dequeue(r) PROVE MapById'
  <2>1. /\ r \in DOMAIN objs /\ Restated(r, "running")
        /\ \A id \in JobIds : jobs'[id] = IF id = objs[r].id THEN r ELSE jobs[id]
    BY <1>3, DequeueDoes DEF TypeInv
  <2> QED
    BY <1>1, <2>1 DEF MapById, Restated
<1>4. ASSUME NEW i \in JobIds, NEW s, Restated(jobs[i], s), UNCHANGED jobs PROVE MapById'
  BY <1>1, <1>4 DEF MapById, Restated
<1>5. ASSUME NEW i \in JobIds, Cancel(i) PROVE MapById'
  BY <1>4, <1>5, CancelDoes DEF TypeInv
<1>6. ASSUME NEW c \in Callers, NEW i \in JobIds, NEW s \in Targets, UpdateStart(c, i, s) PROVE MapById'
  BY <1>4, <1>6, UpdateDoes DEF TypeInv
<1>7. CASE LoadPersistedJobs
  BY <1>7, LoadDoes DEF MapById
<1>8. CASE Clear \/ Restart
  BY <1>8 DEF Clear, Restart, MapById
<1>9. CASE UNCHANGED <<objs, jobs>>
  BY <1>9 DEF MapById
<1>10. ASSUME NEW c \in Callers, Quiet(c) \/ Account(c) PROVE UNCHANGED <<objs, jobs>>
  BY <1>10, QuietDoes, AccountDoes DEF TypeInv
<1>11. ASSUME LoadFails \/ CleanupOldJobs \/ UNCHANGED vars PROVE UNCHANGED <<objs, jobs>>
  BY <1>11 DEF LoadFails, CleanupOldJobs, vars, memVars
<1> QED
  BY StepKinds, <1>2, <1>3, <1>5, <1>6, <1>7, <1>8, <1>9, <1>10, <1>11

\* What a step makes of a job that was cancelled and that no worker holds.
LEMMA CancelledStays ==
  ASSUME TypeInv, QueueInv, StoreInv, MapById, QueueDiscipline, [Next]_vars,
         NEW id \in Ids, jobs[id] # NoRef, jobs'[id] # NoRef,
         objs[jobs[id]].status = "cancelled", \A h \in held : objs[h].id # id
  PROVE  objs'[jobs'[id]].status = "cancelled"
<1>1. Shapes
  BY ShapesHold DEF TypeInv
<1> DEFINE r == jobs[id]
<1>2. id \in JobIds /\ r \in DOMAIN objs /\ r \notin queue
  BY <1>1 DEF Shapes, QueueInv, PendingIsQueued
<1>3. ASSUME NEW c \in Callers, Admit(c) PROVE objs'[jobs'[id]].status = "cancelled"
  <2>1. jobs[call[c].id] = NoRef
    BY <1>3 DEF Admit, QueueInv, NewIds, Enqueuing
  <2>2. jobs'[id] = r /\ objs'[r] = objs[r]
    BY <1>2, <1>3, <2>1, AdmitDoes
  <2> QED
    BY <2>2
<1>4. ASSUME NEW q \in queue, Dequeue(q) PROVE objs'[jobs'[id]].status = "cancelled"
  <2>1. objs[q].id # id
    BY <1>2 DEF StoreInv, QueuedIsCurrent
  <2>2. jobs'[id] = r /\ Restated(q, "running") /\ q # r
    BY <1>2, <1>4, <2>1, DequeueDoes DEF TypeInv
  <2> QED
    BY <1>2, <2>2 DEF Restated
<1>5. ASSUME NEW i \in JobIds, Cancel(i) PROVE objs'[jobs'[id]].status = "cancelled"
  BY <1>2, <1>5, CancelDoes DEF TypeInv, Restated
<1>6. ASSUME NEW c \in Callers, NEW i \in JobIds, NEW s \in Targets, UpdateStart(c, i, s)
      PROVE  objs'[jobs'[id]].status = "cancelled"
  <2>1. /\ Restated(jobs[i], s) /\ UNCHANGED jobs /\ jobs[i] \in DOMAIN objs
        /\ \E h \in held : objs[h].id = i
    BY <1>6, UpdateDoes DEF TypeInv, QueueDiscipline
  <2>2. objs[jobs[i]].id = i /\ objs[r].id = id
    BY <1>1, <1>2, <2>1 DEF MapById, Shapes
  <2> QED
    BY <1>2, <2>1, <2>2 DEF Restated
<1>7. ~Clear /\ ~Restart
  BY <1>2 DEF Clear, Restart
<1>8. ~LoadPersistedJobs
  BY <1>2 DEF LoadPersistedJobs, QueueInv, FreshProcess
<1>9. ASSUME UNCHANGED <<objs, jobs>> PROVE objs'[jobs'[id]].status = "cancelled"
  BY <1>9
<1>10. ASSUME NEW c \in Callers, Quiet(c) \/ Account(c) PROVE UNCHANGED <<objs, jobs>>
  BY <1>10, QuietDoes, AccountDoes DEF TypeInv
<1>11. ASSUME LoadFails \/ CleanupOldJobs \/ UNCHANGED vars PROVE UNCHANGED <<objs, jobs>>
  BY <1>11 DEF LoadFails, CleanupOldJobs, vars, memVars
<1> QED
  BY StepKinds, <1>3, <1>4, <1>5, <1>6, <1>7, <1>8, <1>9, <1>10, <1>11

\* A job cancelled before any worker held it stays cancelled for the life of the
\* process: neither a dequeue nor an update in flight brings it back.
THEOREM CancelledJobsStay ==
  ASSUME QueueDiscipline, OnlyWriter
  PROVE  Spec => CancelSticks
<1>1. TypeInv /\ QueueInv /\ [Next]_vars => QueueInv'
  BY QueueStep
<1>2. TypeInv /\ QueueInv /\ StoreInv /\ [Next]_vars => StoreInv'
  BY StoreInvStep
<1>3. TypeInv /\ QueueInv /\ StoreInv /\ MapById /\ [Next]_vars =>
        [\A id \in Ids :
           (jobs[id] # NoRef /\ jobs'[id] # NoRef) =>
             (objs[jobs[id]].status = "cancelled" /\ (\A h \in held : objs[h].id # id)
                => objs'[jobs'[id]].status = "cancelled")]_vars
  BY CancelledStays
<1> QED
  BY TypeInit, TypeStep, QueueInit, StoreInit, MapByIdInit, MapByIdStep, <1>1, <1>2, <1>3, PTL
     DEF Spec, CancelSticks

-----------------------------------------------------------------------------
(* Recovery. *)

\* The join has a result for each history row of an active row.
LEMMA RecoveryMissesNothing ==
  ASSUME TypeInv, LoadPersistedJobs, NEW id \in Ids, NEW pk \in MappedPks(id)
  PROVE  /\ rows[pk] \in Active => jobs'[id] # NoRef
         /\ rows[pk] = "pending" => \E r \in queue' : objs'[r].id = id
<1>1. PICK i \in DOMAIN history : history[i].id = id /\ history[i].pk = pk
  BY DEF MappedPks
<1>2. pk \in Pks /\ id \in JobIds /\ "pending" \in Active /\ i <= MaxHistory
  BY <1>1, PksTyped, ConstAssumption DEF JobIds, Active, TypeInv, TypeOK
<1>3. SUFFICES ASSUME rows[pk] \in Active
               PROVE  /\ jobs'[id] # NoRef
                      /\ rows[pk] = "pending" => \E r \in queue' : objs'[r].id = id
  BY <1>2
<1>4. i \in JoinNames
  BY <1>1, <1>2, <1>3 DEF JoinNames, JoinedHistory, ActivePks
<1>5. Recovered(i).id = id /\ Recovered(i).status = rows[pk]
  BY <1>1, <1>2 DEF Recovered
<1>6. PICK k \in DOMAIN objs' : objs'[k] = Recovered(i)
  BY <1>4, LoadDoes
<1>7. jobs'[id] # NoRef
  BY <1>2, <1>5, <1>6, LoadDoes
<1>8. rows[pk] = "pending" => k \in queue'
  BY <1>5, <1>6, LoadDoes
<1> QED
  BY <1>5, <1>6, <1>7, <1>8

\* Every active row that is mapped is back in the map under its external id after
\* a restart, and every pending one is back in the queue.
THEOREM RecoveryIsComplete == Spec => RecoveryComplete
<1>1. TypeInv /\ [Next]_vars =>
        [LoadPersistedJobs =>
           \A id \in Ids : \A pk \in MappedPks(id) :
             /\ rows[pk] \in Active => jobs'[id] # NoRef
             /\ rows[pk] = "pending" => \E r \in queue' : objs'[r].id = id]_vars
  BY RecoveryMissesNothing
<1> QED
  BY TypeInit, TypeStep, <1>1, PTL DEF Spec, RecoveryComplete

-----------------------------------------------------------------------------
(***************************************************************************)
(* The count of running jobs.  A statement that fails takes the update     *)
(* that was to count its job with it, and clear() leaves the updates in    *)
(* flight to count jobs that are gone; without these the count is right.   *)
(***************************************************************************)
NothingUncounted == ~DbMayFail /\ ~MayClear

RunningObjs == {r \in DOMAIN objs : objs[r].status = "running"}
FromRunning == {c \in Updating : call[c].old = "running"}
ToRunning == {c \in Updating : call[c].new = "running"}

CountInv == IsFiniteSet(Updating) /\ RunningCount

\* RunningCount by these names.
LEMMA CountNamed ==
  /\ RunningCount <=> stats.running = Cardinality(RunningObjs) + Cardinality(FromRunning)
                                        - Cardinality(ToRunning)
  /\ RunningCount' <=> stats'.running = Cardinality(RunningObjs') + Cardinality(FromRunning')
                                          - Cardinality(ToRunning')
BY DEF RunningCount, RunningObjs, FromRunning, ToRunning

\* What RunningCount counts is finite.
LEMMA CountedFinite ==
  ASSUME TypeOK, IsFiniteSet(Updating)
  PROVE  /\ IsFiniteSet(RunningObjs) /\ IsFiniteSet(FromRunning) /\ IsFiniteSet(ToRunning)
         /\ Cardinality(RunningObjs) \in Int /\ Cardinality(FromRunning) \in Int
         /\ Cardinality(ToRunning) \in Int
<1>1. RunningObjs \in SUBSET DOMAIN objs /\ FromRunning \in SUBSET Updating /\ ToRunning \in SUBSET Updating
  BY DEF RunningObjs, FromRunning, ToRunning
<1>2. IsFiniteSet(RunningObjs) /\ IsFiniteSet(FromRunning) /\ IsFiniteSet(ToRunning)
  BY <1>1, QueueFinite, FS_Subset
<1> QED
  BY <1>2, FS_CardinalityType

\* Putting one element into a finite set or taking one out, as a change of its size.
LEMMA SizeChange ==
  ASSUME NEW S, NEW T, NEW x, IsFiniteSet(S), NEW in, NEW out,
         \A y : y \in T <=> IF y = x THEN in ELSE y \in S,
         out <=> x \in S, in \in BOOLEAN
  PROVE  IsFiniteSet(T) /\ Cardinality(T) = Cardinality(S) + (IF in THEN 1 ELSE 0) - (IF out THEN 1 ELSE 0)
<1>1. Cardinality(S) \in Int
  BY FS_CardinalityType
<1>2. CASE in
  <2>1. T = S \cup {x}
    BY <1>2
  <2> QED
    BY <1>1, <1>2, <2>1, FS_AddElement
<1>3. CASE ~in
  <2>1. T = S \ {x}
    BY <1>3
  <2> QED
    BY <1>1, <1>3, <2>1, FS_RemoveElement
<1> QED
  BY <1>2, <1>3

\* Nothing runs at first.
LEMMA CountInit == Init => CountInv
<1> SUFFICES ASSUME Init PROVE CountInv
  OBVIOUS
<1>1. Updating = {} /\ DOMAIN objs = {} /\ stats.running = 0
  BY DEF Init, Updating, Idle, NoStats
<1>2. RunningObjs = {} /\ FromRunning = {} /\ ToRunning = {}
  BY <1>1 DEF RunningObjs, FromRunning, ToRunning
<1> QED
  BY <1>1, <1>2, FS_EmptySet, CountNamed DEF CountInv

\* Statements start, carry on and end no update of the memory's.
LEMMA QuietKeepsCount ==
  ASSUME NothingUncounted, TypeInv, CountInv, NEW c \in Callers, Quiet(c)
  PROVE  CountInv'
<1>1. /\ UNCHANGED <<objs, stats>> /\ \A d \in Callers \ {c} : call'[d] = call[d]
      /\ \/ /\ call'[c] = Idle
            /\ call[c].pc = "exists" \/ ~call[c].mem
         \/ /\ call'[c].mem = call[c].mem
            /\ call'[c].old = call[c].old /\ call'[c].new = call[c].new
            /\ GoesOn(call[c].pc, call'[c].pc)
         \/ call[c].pc = "idle" /\ call'[c].pc = "exists"
         \/ call[c].pc = "idle" /\ ~call'[c].mem
  BY QuietDoes DEF NothingUncounted, TypeInv
<1>2. Idle.mem = FALSE
  BY DEF Idle
<1>3. c \in Updating' <=> c \in Updating
  <2>1. CASE call'[c].mem = call[c].mem /\ GoesOn(call[c].pc, call'[c].pc)
    BY <2>1 DEF GoesOn, Updating
  <2> QED
    BY <1>1, <1>2, <2>1 DEF Updating
<1>4. c \in Updating => call'[c].old = call[c].old /\ call'[c].new = call[c].new
  BY <1>1 DEF Updating
<1>5. Updating' = Updating /\ RunningObjs' = RunningObjs
  BY <1>1, <1>3 DEF Updating, RunningObjs
<1>6. FromRunning' = FromRunning /\ ToRunning' = ToRunning
  BY <1>1, <1>4, <1>5 DEF FromRunning, ToRunning, Updating
<1> QED
  BY <1>1, <1>5, <1>6, CountNamed DEF CountInv

\* An update in flight accounts for the change of its object.
LEMMA UpdateKeepsCount ==
  ASSUME TypeInv, CountInv,
         NEW c \in Callers, NEW id \in JobIds, NEW s \in Targets, UpdateStart(c, id, s)
  PROVE  CountInv'
<1> DEFINE r == jobs[id]
           was == objs[r].status = "running"
           is == s = "running"
<1>1. /\ r \in DOMAIN objs /\ Restated(r, s)
      /\ \A d \in Callers \ {c} : call'[d] = call[d]
      /\ call[c].pc = "idle"
      /\ call'[c].pc = "resolve" /\ call'[c].mem
      /\ call'[c].old = objs[r].status /\ call'[c].new = s /\ UNCHANGED stats
  BY UpdateDoes DEF TypeInv
<1> HIDE DEF r
<1>2. c \notin Updating /\ \A d : d \in Updating' <=> IF d = c THEN TRUE ELSE d \in Updating
  BY <1>1 DEF Updating
<1>3. /\ \A q : q \in RunningObjs' <=> IF q = r THEN is ELSE q \in RunningObjs
      /\ r \in RunningObjs <=> was
  BY <1>1 DEF RunningObjs, Restated
<1>4. /\ \A d : d \in FromRunning' <=> IF d = c THEN was ELSE d \in FromRunning
      /\ \A d : d \in ToRunning' <=> IF d = c THEN is ELSE d \in ToRunning
      /\ c \notin FromRunning /\ c \notin ToRunning
  BY <1>1, <1>2 DEF FromRunning, ToRunning, Updating
<1>5. was \in BOOLEAN /\ is \in BOOLEAN
  OBVIOUS
<1> HIDE DEF was, is
<1>6. /\ IsFiniteSet(RunningObjs) /\ IsFiniteSet(FromRunning) /\ IsFiniteSet(ToRunning)
      /\ Cardinality(RunningObjs) \in Int /\ Cardinality(FromRunning) \in Int
      /\ Cardinality(ToRunning) \in Int /\ IsFiniteSet(Updating)
  BY CountedFinite DEF TypeInv, CountInv
<1>7. IsFiniteSet(Updating')
  <2>1. Updating' = Updating \cup {c}
    BY <1>2
  <2> QED
    BY <1>6, <2>1, FS_AddElement
<1>8. Cardinality(RunningObjs') = Cardinality(RunningObjs) + (IF is THEN 1 ELSE 0) - (IF was THEN 1 ELSE 0)
  BY <1>3, <1>5, <1>6, SizeChange
<1>9. Cardinality(FromRunning') = Cardinality(FromRunning) + (IF was THEN 1 ELSE 0) - (IF FALSE THEN 1 ELSE 0)
  BY <1>4, <1>5, <1>6, SizeChange
<1>10. Cardinality(ToRunning') = Cardinality(ToRunning) + (IF is THEN 1 ELSE 0) - (IF FALSE THEN 1 ELSE 0)
  BY <1>4, <1>5, <1>6, SizeChange
<1>11. RunningCount'
  BY <1>1, <1>6, <1>8, <1>9, <1>10, CountNamed DEF CountInv
<1> QED
  BY <1>7, <1>11 DEF CountInv

\* Counting an update moves it from the updates in flight into the statistics.
LEMMA AccountKeepsCount ==
  ASSUME TypeInv, QueueInv, CountInv, NEW c \in Callers, Account(c)
  PROVE  CountInv'
<1> DEFINE was == call[c].old = "running"
           is == call[c].new = "running"
<1>1. /\ stats'.running = stats.running + (IF is THEN 1 ELSE 0) - (IF was THEN 1 ELSE 0)
      /\ call[c].pc = "account" /\ call'[c] = Idle /\ \A d \in Callers \ {c} : call'[d] = call[d]
      /\ UNCHANGED objs
  BY AccountDoes DEF TypeInv
<1>2. Idle.mem = FALSE
  BY DEF Idle
<1>3. c \in Updating /\ \A d : d \in Updating' <=> IF d = c THEN FALSE ELSE d \in Updating
  BY <1>1, <1>2 DEF Updating, QueueInv, NewIds
<1>4. /\ \A d : d \in FromRunning' <=> IF d = c THEN FALSE ELSE d \in FromRunning
      /\ \A d : d \in ToRunning' <=> IF d = c THEN FALSE ELSE d \in ToRunning
      /\ c \in FromRunning <=> was
      /\ c \in ToRunning <=> is
  BY <1>1, <1>3 DEF FromRunning, ToRunning, Updating
<1>5. RunningObjs' = RunningObjs
  BY <1>1 DEF RunningObjs
<1> HIDE DEF was, is
<1>6. /\ IsFiniteSet(FromRunning) /\ IsFiniteSet(ToRunning)
      /\ Cardinality(RunningObjs) \in Int /\ Cardinality(FromRunning) \in Int
      /\ Cardinality(ToRunning) \in Int /\ IsFiniteSet(Updating)
  BY CountedFinite DEF TypeInv, CountInv
<1>7. IsFiniteSet(Updating')
  <2>1. Updating' = Updating \ {c}
    BY <1>3
  <2> QED
    BY <1>6, <2>1, FS_RemoveElement
<1>8. Cardinality(FromRunning') = Cardinality(FromRunning) + (IF FALSE THEN 1 ELSE 0) - (IF was THEN 1 ELSE 0)
  BY <1>4, <1>6, SizeChange
<1>9. Cardinality(ToRunning') = Cardinality(ToRunning) + (IF FALSE THEN 1 ELSE 0) - (IF is THEN 1 ELSE 0)
  BY <1>4, <1>6, SizeChange
<1>10. RunningCount'
  BY <1>1, <1>5, <1>6, <1>8, <1>9, CountNamed DEF CountInv
<1> QED
  BY <1>7, <1>10 DEF CountInv

\* A job handed out or cancelled is counted at once.
LEMMA QueueKeepsCount ==
  ASSUME TypeInv, QueueInv, CountInv
  PROVE  /\ \A r \in queue : Dequeue(r) => CountInv'
         /\ \A id \in JobIds : Cancel(id) => CountInv'
         /\ \A c \in Callers : Admit(c) => CountInv'
<1>1. /\ IsFiniteSet(RunningObjs)
      /\ Cardinality(RunningObjs) \in Int /\ Cardinality(FromRunning) \in Int
      /\ Cardinality(ToRunning) \in Int /\ stats.running \in Int
  BY CountedFinite DEF TypeInv, TypeOK, CountInv
<1>2. ASSUME UNCHANGED call
      PROVE  Updating' = Updating /\ FromRunning' = FromRunning /\ ToRunning' = ToRunning
  BY <1>2 DEF Updating, FromRunning, ToRunning
<1>3. ASSUME NEW r \in queue, Dequeue(r) PROVE CountInv'
  <2>1. r \in DOMAIN objs /\ Restated(r, "running") /\ stats'.running = stats.running + 1 /\ UNCHANGED call
    BY <1>3, DequeueDoes DEF TypeInv
  <2>2. r \notin RunningObjs
    BY <2>1 DEF QueueInv, PendingIsQueued, RunningObjs
  <2>3. \A q : q \in RunningObjs' <=> IF q = r THEN TRUE ELSE q \in RunningObjs
    BY <2>1 DEF RunningObjs, Restated
  <2>4. Cardinality(RunningObjs') = Cardinality(RunningObjs) + (IF TRUE THEN 1 ELSE 0) - (IF FALSE THEN 1 ELSE 0)
    BY <1>1, <2>2, <2>3, SizeChange
  <2> QED
    BY <1>1, <1>2, <2>1, <2>4, CountNamed DEF CountInv
<1>4. ASSUME NEW id \in JobIds, Cancel(id) PROVE CountInv'
  <2> DEFINE r == jobs[id]
             was == objs[r].status = "running"
  <2>1. /\ r \in DOMAIN objs /\ Restated(r, "cancelled") /\ UNCHANGED call
        /\ stats'.running = IF was THEN stats.running - 1 ELSE stats.running
    BY <1>4, CancelDoes DEF TypeInv
  <2> HIDE DEF r
  <2>2. /\ \A q : q \in RunningObjs' <=> IF q = r THEN FALSE ELSE q \in RunningObjs
        /\ r \in RunningObjs <=> was
    BY <2>1 DEF RunningObjs, Restated
  <2> HIDE DEF was
  <2>3. Cardinality(RunningObjs') = Cardinality(RunningObjs) + (IF FALSE THEN 1 ELSE 0) - (IF was THEN 1 ELSE 0)
    BY <1>1, <2>2, SizeChange
  <2> QED
    BY <1>1, <1>2, <2>1, <2>3, CountNamed DEF CountInv
<1>5. ASSUME NEW c \in Callers, Admit(c) PROVE CountInv'
  <2> DEFINE ref == Len(objs) + 1
  <2>1. /\ call[c].pc = "admit" /\ ref \notin DOMAIN objs /\ DOMAIN objs' = DOMAIN objs \cup {ref}
        /\ \A q \in DOMAIN objs : objs'[q] = objs[q]
        /\ objs'[ref].status = "pending" /\ stats'.running = stats.running
        /\ call'[c] = Idle /\ \A d \in Callers \ {c} : call'[d] = call[d]
    BY <1>5, AdmitDoes
  <2> HIDE DEF ref
  <2>2. RunningObjs' = RunningObjs
    BY <2>1 DEF RunningObjs
  <2>3. c \notin Updating /\ c \notin Updating'
    BY <2>1 DEF Updating, Idle
  <2>4. Updating' = Updating /\ FromRunning' = FromRunning /\ ToRunning' = ToRunning
    BY <2>1, <2>3 DEF Updating, FromRunning, ToRunning
  <2> QED
    BY <2>1, <2>2, <2>4, CountNamed DEF CountInv
<1> QED
  BY <1>3, <1>4, <1>5

\* Recovery counts what it recovers, before the process serves any call.
LEMMA ProcessKeepsCount ==
  ASSUME NothingUncounted, TypeInv, QueueInv, CountInv,
         Clear \/ LoadPersistedJobs \/ LoadFails \/ CleanupOldJobs \/ Restart \/ UNCHANGED vars
  PROVE  CountInv'
<1>1. Idle.mem = FALSE
  BY DEF Idle
<1>2. ASSUME \A c \in Callers : call'[c] = Idle, stats'.running = Cardinality(RunningObjs'),
             Cardinality(RunningObjs') \in Int
      PROVE  CountInv'
  <2>1. Updating' = {}
    BY <1>1, <1>2 DEF Updating
  <2>2. FromRunning' = {} /\ ToRunning' = {}
    BY <2>1 DEF FromRunning, ToRunning
  <2> QED
    BY <1>2, <2>1, <2>2, FS_EmptySet, CountNamed DEF CountInv
<1>3. CASE LoadPersistedJobs
  <2>1. /\ ~up /\ UNCHANGED call
        /\ stats'.running = Cardinality(RunningObjs')
    BY <1>3, LoadDoes DEF RunningObjs
  <2>2. stats'.running \in Int
    BY <1>3, ProcessStepTyped DEF TypeInv, TypeOK
  <2> QED
    BY <1>2, <2>1, <2>2 DEF QueueInv, FreshProcess
<1>4. CASE Restart
  <2>1. (\A c \in Callers : call'[c] = Idle) /\ DOMAIN objs' = {} /\ stats'.running = 0
    BY <1>4 DEF Restart, NoStats
  <2>2. RunningObjs' = {}
    BY <2>1 DEF RunningObjs
  <2> QED
    BY <1>2, <2>1, <2>2, FS_EmptySet
<1>5. CASE CleanupOldJobs \/ UNCHANGED vars
  <2>1. UNCHANGED <<objs, stats, call>>
    BY <1>5 DEF CleanupOldJobs, vars, memVars
  <2> QED
    BY <2>1 DEF CountInv, RunningCount, Updating
<1>6. ~Clear /\ ~LoadFails
  BY DEF Clear, LoadFails, NothingUncounted
<1> QED
  BY <1>3, <1>4, <1>5, <1>6

\* No step miscounts the running jobs.
LEMMA CountStep ==
  ASSUME NothingUncounted
  PROVE  TypeInv /\ QueueInv /\ CountInv /\ [Next]_vars => CountInv'
BY StepKinds, QuietKeepsCount, UpdateKeepsCount, AccountKeepsCount, QueueKeepsCount, ProcessKeepsCount

\* getStats' runningJobs is the number of running jobs, up to the updates whose
\* statements are still under way.
THEOREM RunningIsCounted ==
  ASSUME QueueDiscipline, NothingUncounted
  PROVE  Spec => []RunningCount
<1>1. TypeInv /\ QueueInv /\ [Next]_vars => QueueInv'
  BY QueueStep
<1>2. TypeInv /\ QueueInv /\ CountInv /\ [Next]_vars => CountInv'
  BY CountStep
<1>3. CountInv => RunningCount
  BY DEF CountInv
<1> QED
  BY TypeInit, TypeStep, QueueInit, CountInit, <1>1, <1>2, <1>3, PTL DEF Spec

-----------------------------------------------------------------------------
(***************************************************************************)
(* What a worker reported finished is written.  A report has to be the     *)
(* last one of its job: an update to running leaves the job with the       *)
(* worker, and two updates of one job may reach the store in either order. *)
(***************************************************************************)
ReportsAreFinal == "running" \notin Targets

\* The job of an update in flight is in nobody's hands and in no other update, and
\* only a cancel can have changed it since.
OneUpdate ==
  \A c \in Updating :
    /\ call[c].id \in JobIds /\ jobs[call[c].id] # NoRef
    /\ objs[jobs[call[c].id]].status \in {call[c].new, "cancelled"}
    /\ \A r \in held \cup queue : objs[r].id # call[c].id
    /\ \A d \in Updating : call[d].id = call[c].id => d = c

Finished == {"completed", "failed"}

\* An update on its way to the row will write what the object says.
OnItsWay(id, s) ==
  \E c \in Updating : /\ call[c].id = id /\ call[c].new = s
                      /\ call[c].pc \in {"resolve", "updateRow"}

Written(id, s) == \A i \in DOMAIN history : history[i].id = id => rows[history[i].pk] \in {s, "none"}

FinishedAs(id, s) == jobs[id] # NoRef /\ objs[jobs[id]].status = s

FinishedIsWritten ==
  \A id \in Ids, s \in Finished : FinishedAs(id, s) => OnItsWay(id, s) \/ Written(id, s)

FinishedInv == OneUpdate /\ FinishedIsWritten

\* Nothing is finished at first.
LEMMA FinishedInit == Init => FinishedInv
<1> SUFFICES ASSUME Init PROVE FinishedInv
  OBVIOUS
<1>1. Updating = {} /\ \A id \in Ids : jobs[id] = NoRef
  BY DEF Init, Updating, Idle, JobIds
<1> QED
  BY <1>1 DEF FinishedInv, OneUpdate, FinishedIsWritten, FinishedAs

\* With no failure, a statement of an update that is not its last keeps it in flight.
LEMMA QuietKeepsUpdating ==
  ASSUME NothingUncounted, TypeInv, NEW c \in Callers, Quiet(c)
  PROVE  Updating' = Updating /\ \A d \in Updating : call'[d].id = call[d].id /\ call'[d].new = call[d].new
<1>1. /\ \A d \in Callers \ {c} : call'[d] = call[d]
      /\ \/ /\ call'[c] = Idle
            /\ call[c].pc = "exists" \/ ~call[c].mem
         \/ /\ call'[c].mem = call[c].mem /\ call'[c].id = call[c].id
            /\ call'[c].old = call[c].old /\ call'[c].new = call[c].new
            /\ GoesOn(call[c].pc, call'[c].pc)
         \/ call[c].pc = "idle" /\ call'[c].pc = "exists"
         \/ call[c].pc = "idle" /\ ~call'[c].mem
  BY QuietDoes DEF NothingUncounted, TypeInv
<1>2. Idle.mem = FALSE
  BY DEF Idle
<1>3. c \in Updating' <=> c \in Updating
  <2>1. CASE call'[c].mem = call[c].mem /\ GoesOn(call[c].pc, call'[c].pc)
    BY <2>1 DEF GoesOn, Updating
  <2> QED
    BY <1>1, <1>2, <2>1 DEF Updating
<1>4. c \in Updating => call'[c].id = call[c].id /\ call'[c].new = call[c].new
  BY <1>1 DEF Updating
<1> QED
  BY <1>1, <1>3, <1>4 DEF Updating

\* No step starts a second update of a job: the first one took it from its worker.
LEMMA OneUpdateStep ==
  ASSUME QueueDiscipline, NothingUncounted, ReportsAreFinal,
         TypeInv, QueueInv, MapById, QueuedIsCurrent, OneUpdate, [Next]_vars
  PROVE  OneUpdate'
<1>1. /\ \A r \in DOMAIN objs : objs[r].id \in JobIds /\ r # NoRef
      /\ queue \subseteq DOMAIN objs /\ held \subseteq DOMAIN objs
      /\ \A id \in JobIds : jobs[id] # NoRef => jobs[id] \in DOMAIN objs
  BY ShapesHold DEF TypeInv, Shapes
<1>2. ASSUME NEW c \in Callers, Quiet(c) PROVE OneUpdate'
  <2>1. Updating' = Updating /\ \A d \in Updating : call'[d].id = call[d].id /\ call'[d].new = call[d].new
    BY <1>2, QuietKeepsUpdating
  <2>2. UNCHANGED <<objs, jobs, queue, held>>
    BY <1>2, QuietDoes DEF TypeInv
  <2> QED
    BY <2>1, <2>2 DEF OneUpdate
<1>3. ASSUME NEW c \in Callers, NEW id \in JobIds, NEW s \in Targets, UpdateStart(c, id, s)
      PROVE  OneUpdate'
  <2>1. /\ jobs[id] \in DOMAIN objs /\ jobs[id] # NoRef /\ Restated(jobs[id], s)
        /\ \A d \in Callers \ {c} : call'[d] = call[d]
        /\ call[c].pc = "idle"
        /\ call'[c].pc = "resolve" /\ call'[c].mem /\ call'[c].id = id /\ call'[c].new = s
        /\ \E h \in held : objs[h].id = id
        /\ held' = {h \in held : objs[h].id # id}
        /\ UNCHANGED <<jobs, queue>>
    BY <1>1, <1>3, UpdateDoes DEF TypeInv, QueueDiscipline, ReportsAreFinal
  <2>2. c \notin Updating /\ \A d \in Callers : d \in Updating' <=> d = c \/ d \in Updating
    BY <2>1 DEF Updating
  <2>3. \A d \in Updating : call[d].id # id
    BY <2>1 DEF OneUpdate
  <2>4. \A r \in held' \cup queue' : objs'[r].id # id
    <3>1. jobs[id] \notin queue
      BY <2>1 DEF QueueInv, HeldIsNotQueued
    <3>2. \A r \in queue : objs[r].id # id
      BY <3>1 DEF QueuedIsCurrent
    <3> QED
      BY <1>1, <2>1, <3>2 DEF Restated
  <2>5. ASSUME NEW d \in Updating'
        PROVE  /\ call'[d].id \in JobIds /\ jobs'[call'[d].id] # NoRef
               /\ objs'[jobs'[call'[d].id]].status \in {call'[d].new, "cancelled"}
               /\ \A r \in held' \cup queue' : objs'[r].id # call'[d].id
    <3>1. CASE d = c
      BY <2>1, <2>4, <3>1 DEF Restated
    <3>2. CASE d # c
      <4>1. d \in Updating /\ call'[d] = call[d]
        BY <2>1, <2>2, <3>2 DEF Updating
      <4>2. jobs[call[d].id] \in DOMAIN objs /\ jobs[call[d].id] # jobs[id]
        BY <1>1, <2>1, <2>3, <4>1 DEF OneUpdate, MapById
      <4> QED
        BY <1>1, <2>1, <4>1, <4>2 DEF OneUpdate, Restated
    <3> QED
      BY <3>1, <3>2
  <2>6. \A d, e \in Updating' : call'[d].id = call'[e].id => d = e
    BY <2>1, <2>2, <2>3 DEF OneUpdate, Updating
  <2> QED
    BY <2>5, <2>6 DEF OneUpdate
\* What is left of the updates in flight after a step that ends one or none.
<1>4. ASSUME NEW c \in Callers, call'[c] = Idle \/ call'[c] = call[c],
             \A d \in Callers \ {c} : call'[d] = call[d],
             \A d \in Updating :
               /\ jobs'[call[d].id] # NoRef
               /\ objs'[jobs'[call[d].id]].status \in {call[d].new, "cancelled"}
               /\ \A r \in held' \cup queue' : objs'[r].id # call[d].id
      PROVE  OneUpdate'
  <2>1. \A d \in Updating' : d \in Updating /\ call'[d] = call[d]
    BY <1>4 DEF Updating, Idle
  <2> QED
    BY <1>4, <2>1 DEF OneUpdate
<1>5. ASSUME NEW c \in Callers, Account(c) PROVE OneUpdate'
  <2>1. /\ call'[c] = Idle /\ \A d \in Callers \ {c} : call'[d] = call[d]
        /\ UNCHANGED <<objs, jobs, queue, held>>
    BY <1>5, AccountDoes DEF TypeInv
  <2> QED
    BY <1>4, <2>1 DEF OneUpdate
<1>6. ASSUME NEW c \in Callers, Admit(c) PROVE OneUpdate'
  <2> DEFINE ref == Len(objs) + 1
  <2>1. /\ call[c].pc = "admit" /\ DOMAIN objs' = DOMAIN objs \cup {ref}
        /\ \A q \in DOMAIN objs : objs'[q] = objs[q]
        /\ objs'[ref].id = call[c].id
        /\ \A id \in JobIds : jobs'[id] = IF id = call[c].id THEN ref ELSE jobs[id]
        /\ queue' = queue \cup {ref} /\ UNCHANGED held
        /\ call'[c] = Idle /\ \A d \in Callers \ {c} : call'[d] = call[d]
    BY <1>6, AdmitDoes
  <2> HIDE DEF ref
  <2>2. jobs[call[c].id] = NoRef
    BY <2>1 DEF QueueInv, NewIds, Enqueuing
  <2>3. \A d \in Updating : call[d].id # call[c].id
    BY <2>2 DEF OneUpdate
  <2>4. \A d \in Updating : jobs'[call[d].id] = jobs[call[d].id] /\ jobs[call[d].id] \in DOMAIN objs
    BY <1>1, <2>1, <2>3 DEF OneUpdate
  <2> QED
    BY <1>1, <1>4, <2>1, <2>3, <2>4 DEF OneUpdate
<1>7. ASSUME NEW r \in queue, Dequeue(r) PROVE OneUpdate'
  <2>1. /\ r \in DOMAIN objs /\ Restated(r, "running")
        /\ queue' = queue \ {r} /\ held' = held \cup {r}
        /\ \A id \in JobIds : jobs'[id] = IF id = objs[r].id THEN r ELSE jobs[id]
        /\ UNCHANGED call
    BY <1>7, DequeueDoes DEF TypeInv
  <2>2. \A d \in Updating : /\ call[d].id # objs[r].id /\ jobs'[call[d].id] = jobs[call[d].id]
                            /\ jobs[call[d].id] \in DOMAIN objs /\ jobs[call[d].id] # r
    BY <1>1, <2>1 DEF OneUpdate, MapById
  <2>3. \A d \in Updating :
          /\ jobs'[call[d].id] # NoRef
          /\ objs'[jobs'[call[d].id]].status \in {call[d].new, "cancelled"}
          /\ \A q \in held' \cup queue' : objs'[q].id # call[d].id
    BY <1>1, <2>1, <2>2 DEF OneUpdate, Restated
  <2> QED
    BY <2>1, <2>3 DEF OneUpdate, Updating
<1>8. ASSUME NEW id \in JobIds, Cancel(id) PROVE OneUpdate'
  <2>1. /\ Restated(jobs[id], "cancelled") /\ queue' \subseteq queue /\ UNCHANGED <<jobs, held, call>>
    BY <1>8, CancelDoes DEF TypeInv
  <2>2. \A d \in Updating :
          /\ jobs'[call[d].id] # NoRef
          /\ objs'[jobs'[call[d].id]].status \in {call[d].new, "cancelled"}
          /\ \A q \in held' \cup queue' : objs'[q].id # call[d].id
    BY <1>1, <2>1 DEF OneUpdate, Restated
  <2> QED
    BY <2>1, <2>2 DEF OneUpdate, Updating
<1>9. CASE LoadPersistedJobs \/ Restart
  <2>1. \A c \in Callers : call'[c] = Idle
    BY <1>9 DEF LoadPersistedJobs, Restart, QueueInv, FreshProcess
  <2>2. Updating' = {}
    BY <2>1 DEF Updating, Idle
  <2> QED
    BY <2>2 DEF OneUpdate
<1>10. CASE CleanupOldJobs \/ UNCHANGED vars
  <2>1. UNCHANGED <<objs, jobs, queue, held, call>>
    BY <1>10 DEF CleanupOldJobs, vars, memVars
  <2> QED
    BY <2>1 DEF OneUpdate, Updating
<1>11. ~Clear /\ ~LoadFails
  BY DEF Clear, LoadFails, NothingUncounted
<1> QED
  BY StepKinds, <1>2, <1>3, <1>5, <1>6, <1>7, <1>8, <1>9, <1>10, <1>11

\* The statements: an update stays on its way until its row is written, and no
\* other statement writes the row of a job in the map.
LEMMA StatementKeepsWritten ==
  ASSUME QueueDiscipline, OnlyWriter, NothingUncounted,
         TypeInv, QueueInv, StoreInv, OneUpdate, NEW c \in Callers, Quiet(c),
         NEW id \in Ids, NEW s \in Finished, FinishedAs(id, s), OnItsWay(id, s) \/ Written(id, s)
  PROVE  OnItsWay(id, s)' \/ Written(id, s)'
<1>1. Updating' = Updating /\ \A d \in Updating : call'[d].id = call[d].id /\ call'[d].new = call[d].new
  BY QuietKeepsUpdating
<1>2. \A d \in Callers \ {c} : call'[d] = call[d]
  BY QuietDoes DEF TypeInv
<1>3. /\ \A i \in DOMAIN history : history[i].pk \in Pks /\ history[i].pk \in Nat
      /\ nextPk \in Nat
  BY PksTyped
\* Only the call that takes the step may leave its way.
<1>4. ASSUME OnItsWay(id, s),
             ~(call[c].id = id /\ call[c].new = s /\ call[c].pc \in {"resolve", "updateRow"})
               \/ call'[c].pc \in {"resolve", "updateRow"}
      PROVE  OnItsWay(id, s)'
  <2>1. PICK d \in Updating : /\ call[d].id = id /\ call[d].new = s
                              /\ call[d].pc \in {"resolve", "updateRow"}
    BY <1>4 DEF OnItsWay
  <2>2. d \in Updating' /\ call'[d].id = id /\ call'[d].new = s
    BY <1>1, <2>1
  <2>3. call'[d].pc \in {"resolve", "updateRow"}
    <3>1. CASE d = c
      BY <1>4, <2>1, <3>1
    <3>2. CASE d # c
      BY <1>2, <2>1, <3>2 DEF Updating
    <3> QED
      BY <3>1, <3>2
  <2> QED
    BY <2>2, <2>3 DEF OnItsWay
<1>5. CASE CheckExists(c) \/ \E i \in Owns[c], p \in Priorities : EnqueueStart(c, i, p)
  <2>1. call[c].pc \in {"idle", "exists"} /\ UNCHANGED <<rows, history>>
    BY <1>5 DEF CheckExists, EnqueueStart, dbVars
  <2> QED
    BY <1>4, <2>1 DEF Written
<1>6. CASE InsertRow(c)
  <2>1. /\ call[c].pc = "insertRow" /\ UNCHANGED history
        /\ \A pk \in Pks : rows'[pk] = IF pk = nextPk THEN call[c].new ELSE rows[pk]
    BY <1>6, InsertRowDoes DEF TypeInv
  <2>2. \A i \in DOMAIN history : rows'[history[i].pk] = rows[history[i].pk]
    BY <1>3, <2>1 DEF StoreInv, StoreTables, OldRowPks
  <2> QED
    BY <1>4, <2>1, <2>2 DEF Written
<1>7. CASE InsertMapping(c)
  <2> DEFINE n == Len(history) + 1
  <2>1. call[c].pc = "insertMapping" /\ UNCHANGED rows
    BY <1>7, InsertMappingDoes
  <2>2. /\ DOMAIN history' = DOMAIN history \cup {n}
        /\ \A i \in DOMAIN history : history'[i] = history[i]
        /\ history'[n].id = call[c].id
    BY <1>7, InsertMappingDoes DEF Appends
  <2> HIDE DEF n
  <2>3. call[c].id # id
    BY <2>1 DEF StoreInv, StoreCalls, OwnCalls, QueueInv, NewIds, Enqueuing, FinishedAs
  <2> QED
    BY <1>4, <2>1, <2>2, <2>3 DEF Written
<1>8. CASE Resolve(c)
  <2>1. /\ call[c].pc = "resolve" /\ UNCHANGED <<rows, history>>
        /\ \/ \A i \in DOMAIN history : history[i].id # call[c].id
           \/ call'[c].pc = "updateRow"
    <3>1. call[c].mem
      BY <1>8 DEF Resolve, StoreInv, StoreCalls, OwnCalls
    <3> QED
      BY <1>8, <3>1, ResolveDoes DEF Advances
  <2>2. CASE call[c].id = id /\ \A i \in DOMAIN history : history[i].id # call[c].id
    BY <2>1, <2>2 DEF Written
  <2> QED
    BY <1>4, <2>1, <2>2 DEF Written
<1>9. CASE UpdateRow(c)
  <2>1. /\ call[c].pc = "updateRow" /\ UNCHANGED history
        /\ \A pk \in Pks : rows'[pk] = IF pk = call[c].pk /\ rows[pk] # "none" THEN call[c].new ELSE rows[pk]
    BY <1>9, UpdateRowDoes
  <2>2. c \in Updating
    BY <2>1 DEF StoreInv, StoreCalls, OwnCalls, Updating
  <2>3. PICK k \in DOMAIN history : history[k].id = call[c].id /\ history[k].pk = call[c].pk
    BY <2>1 DEF StoreInv, StoreCalls, UpdatesMapped
  <2>4. \A i \in DOMAIN history : history[i].id = call[c].id <=> history[i].pk = call[c].pk
    BY <2>3 DEF StoreInv, StoreTables, OnePkPerId
  <2>5. CASE call[c].id = id
    <3>1. call[c].new = s
      BY <2>2, <2>5 DEF OneUpdate, FinishedAs, Finished
    <3>2. Written(id, s)'
      BY <1>3, <2>1, <2>4, <2>5, <3>1 DEF Written
    <3> QED
      BY <3>2
  <2>6. CASE call[c].id # id
    <3>1. \A i \in DOMAIN history : history[i].id = id => rows'[history[i].pk] = rows[history[i].pk]
      BY <1>3, <2>1, <2>4, <2>6
    <3> QED
      BY <1>4, <2>1, <2>6, <3>1 DEF Written
  <2> QED
    BY <2>5, <2>6
<1>10. CASE AppendHistory(c)
  <2> DEFINE n == Len(history) + 1
  <2>1. call[c].pc = "appendHistory" /\ UNCHANGED rows
    BY <1>10, AppendHistoryDoes
  <2>2. /\ DOMAIN history' = DOMAIN history \cup {n}
        /\ \A i \in DOMAIN history : history'[i] = history[i]
        /\ history'[n].id = call[c].id /\ history'[n].pk = call[c].pk
    BY <1>10, AppendHistoryDoes DEF Appends
  <2> HIDE DEF n
  <2>3. PICK k \in DOMAIN history : history[k].id = call[c].id /\ history[k].pk = call[c].pk
    BY <2>1 DEF StoreInv, StoreCalls, UpdatesMapped
  <2> QED
    BY <1>4, <2>1, <2>2, <2>3 DEF Written
<1>11. ~FacadeStart(c) /\ ~DbFailure(c)
  BY DEF OnlyWriter, FacadeStart, NothingUncounted, DbFailure
<1> QED
  BY <1>5, <1>6, <1>7, <1>8, <1>9, <1>10, <1>11 DEF Quiet

\* No step leaves a finished job without its row written or about to be.
LEMMA WrittenStep ==
  ASSUME QueueDiscipline, OnlyWriter, NothingUncounted,
         TypeInv, QueueInv, StoreInv, MapById, OneUpdate, FinishedIsWritten, [Next]_vars
  PROVE  FinishedIsWritten'
<1> SUFFICES ASSUME NEW id \in Ids, NEW s \in Finished, FinishedAs(id, s)'
             PROVE  OnItsWay(id, s)' \/ Written(id, s)'
  BY DEF FinishedIsWritten
<1>1. /\ \A r \in DOMAIN objs : objs[r].id \in JobIds /\ r # NoRef
      /\ queue \subseteq DOMAIN objs /\ id \in JobIds
      /\ \A i \in JobIds : jobs[i] # NoRef => jobs[i] \in DOMAIN objs
  BY ShapesHold DEF TypeInv, Shapes
<1>2. FinishedAs(id, s) => OnItsWay(id, s) \/ Written(id, s)
  BY DEF FinishedIsWritten
\* A step that ends no update on its way to the row, and writes no table.
<1>3. ASSUME FinishedAs(id, s), UNCHANGED <<rows, history>>,
             \A d \in Updating : call[d].pc \in {"resolve", "updateRow"} => call'[d] = call[d]
      PROVE  OnItsWay(id, s)' \/ Written(id, s)'
  <2>1. CASE OnItsWay(id, s)
    <3>1. PICK d \in Updating : /\ call[d].id = id /\ call[d].new = s
                                /\ call[d].pc \in {"resolve", "updateRow"}
      BY <2>1 DEF OnItsWay
    <3>2. d \in Updating' /\ call'[d] = call[d]
      BY <1>3, <3>1 DEF Updating
    <3>3. OnItsWay(id, s)'
      BY <3>1, <3>2 DEF OnItsWay
    <3> QED
      BY <3>3
  <2>2. CASE Written(id, s)
    BY <1>3, <2>2 DEF Written
  <2> QED
    BY <1>2, <1>3, <2>1, <2>2
<1>4. ASSUME NEW c \in Callers, Quiet(c) PROVE OnItsWay(id, s)' \/ Written(id, s)'
  <2>1. FinishedAs(id, s)
    BY <1>4, QuietDoes DEF TypeInv, FinishedAs
  <2> QED
    BY <1>2, <1>4, <2>1, StatementKeepsWritten
<1>5. ASSUME NEW c \in Callers, NEW i \in JobIds, NEW t \in Targets, UpdateStart(c, i, t)
      PROVE  OnItsWay(id, s)' \/ Written(id, s)'
  <2>1. /\ jobs[i] \in DOMAIN objs /\ jobs[i] # NoRef /\ Restated(jobs[i], t)
        /\ \A d \in Callers \ {c} : call'[d] = call[d]
        /\ call[c].pc = "idle"
        /\ call'[c].pc = "resolve" /\ call'[c].mem /\ call'[c].id = i /\ call'[c].new = t
        /\ UNCHANGED <<rows, history, jobs>>
    BY <1>1, <1>5, UpdateDoes DEF TypeInv
  <2>2. CASE i = id
    <3>1. t = s
      BY <2>1, <2>2 DEF FinishedAs, Restated
    <3>2. c \in Updating'
      BY <2>1 DEF Updating
    <3>3. OnItsWay(id, s)'
      BY <2>1, <2>2, <3>1, <3>2 DEF OnItsWay
    <3> QED
      BY <3>3
  <2>3. CASE i # id
    <3>1. jobs[id] # jobs[i] /\ jobs[id] \in DOMAIN objs
      BY <1>1, <2>1, <2>3 DEF MapById, FinishedAs
    <3>2. FinishedAs(id, s)
      BY <2>1, <3>1 DEF FinishedAs, Restated
    <3>3. \A d \in Updating : call'[d] = call[d]
      BY <2>1 DEF Updating
    <3> QED
      BY <1>3, <2>1, <3>2, <3>3
  <2> QED
    BY <2>2, <2>3
<1>6. ASSUME NEW c \in Callers, Account(c) PROVE OnItsWay(id, s)' \/ Written(id, s)'
  <2>1. /\ call[c].pc = "account" /\ \A d \in Callers \ {c} : call'[d] = call[d]
        /\ UNCHANGED <<rows, history, objs, jobs>>
    BY <1>6, AccountDoes DEF TypeInv
  <2> QED
    BY <1>3, <2>1 DEF FinishedAs, Updating
<1>7. ASSUME NEW c \in Callers, Admit(c) PROVE OnItsWay(id, s)' \/ Written(id, s)'
  <2> DEFINE ref == Len(objs) + 1
  <2>1. /\ call[c].pc = "admit" /\ \A d \in Callers \ {c} : call'[d] = call[d]
        /\ \A q \in DOMAIN objs : objs'[q] = objs[q]
        /\ objs'[ref].status = "pending"
        /\ \A i \in JobIds : jobs'[i] = IF i = call[c].id THEN ref ELSE jobs[i]
        /\ UNCHANGED <<rows, history>>
    BY <1>7, AdmitDoes
  <2> HIDE DEF ref
  <2>2. id # call[c].id
    BY <1>1, <2>1 DEF FinishedAs, Finished
  <2>3. FinishedAs(id, s)
    BY <1>1, <2>1, <2>2 DEF FinishedAs
  <2> QED
    BY <1>3, <2>1, <2>3 DEF Updating
<1>8. ASSUME NEW r \in queue, Dequeue(r) PROVE OnItsWay(id, s)' \/ Written(id, s)'
  <2>1. /\ r \in DOMAIN objs /\ Restated(r, "running")
        /\ \A i \in JobIds : jobs'[i] = IF i = objs[r].id THEN r ELSE jobs[i]
        /\ UNCHANGED <<rows, history, call>>
    BY <1>8, DequeueDoes DEF TypeInv
  <2>2. id # objs[r].id
    BY <1>1, <2>1 DEF FinishedAs, Finished, Restated
  <2>3. jobs'[id] = jobs[id] /\ jobs[id] \in DOMAIN objs /\ jobs[id] # r
    BY <1>1, <2>1, <2>2 DEF FinishedAs, MapById
  <2>4. FinishedAs(id, s)
    BY <2>1, <2>3 DEF FinishedAs, Restated
  <2> QED
    BY <1>3, <2>1, <2>4
<1>9. ASSUME NEW i \in JobIds, Cancel(i) PROVE OnItsWay(id, s)' \/ Written(id, s)'
  <2>1. /\ jobs[i] \in DOMAIN objs /\ Restated(jobs[i], "cancelled")
        /\ UNCHANGED <<rows, history, call, jobs>>
    BY <1>9, CancelDoes DEF TypeInv
  <2>2. FinishedAs(id, s)
    BY <1>1, <2>1 DEF FinishedAs, Finished, Restated
  <2> QED
    BY <1>3, <2>1, <2>2
<1>10. CASE LoadPersistedJobs
  <2>1. /\ jobs'[id] \in DOMAIN objs' /\ objs'[jobs'[id]].id = id /\ UNCHANGED <<rows, history>>
        /\ \E f \in [DOMAIN objs' -> JoinNames] : \A k \in DOMAIN objs' : objs'[k] = Recovered(f[k])
    BY <1>1, <1>10, LoadDoes DEF FinishedAs
  <2>2. PICK n \in JoinNames : objs'[jobs'[id]] = Recovered(n)
    BY <2>1
  <2>3. n \in DOMAIN history /\ history[n].id = id /\ s = rows[history[n].pk]
    BY <2>1, <2>2, RecoveredJob DEF FinishedAs, TypeInv
  <2>4. Written(id, s)'
    BY <2>1, <2>3 DEF Written, StoreInv, StoreTables, OnePkPerId
  <2> QED
    BY <2>4
<1>11. CASE CleanupOldJobs
  <2>1. /\ UNCHANGED <<history, objs, jobs, call>>
        /\ \A pk \in Pks : rows'[pk] \in {rows[pk], "none"}
    BY <1>11 DEF CleanupOldJobs, memVars
  <2>2. FinishedAs(id, s) /\ \A i \in DOMAIN history : history[i].pk \in Pks
    BY <2>1, PksTyped DEF FinishedAs
  <2>3. CASE OnItsWay(id, s)
    BY <2>1, <2>3 DEF OnItsWay, Updating
  <2>4. CASE Written(id, s)
    <3>1. Written(id, s)'
      BY <2>1, <2>2, <2>4 DEF Written
    <3> QED
      BY <3>1
  <2> QED
    BY <1>2, <2>2, <2>3, <2>4
<1>12. CASE UNCHANGED vars
  BY <1>3, <1>12 DEF vars, dbVars, memVars, FinishedAs
<1>13. ~Clear /\ ~LoadFails /\ ~Restart
  BY <1>1 DEF Clear, LoadFails, Restart, NothingUncounted, FinishedAs
<1> QED
  BY StepKinds, <1>4, <1>5, <1>6, <1>7, <1>8, <1>9, <1>10, <1>11, <1>12, <1>13

\* A job that a worker reported completed or failed is so in the store as soon as
\* the report has returned, so no restart recovers it to run again.
THEOREM FinishedJobsArePersisted ==
  ASSUME QueueDiscipline, OnlyWriter, NothingUncounted, ReportsAreFinal
  PROVE  Spec => []FinishedIsPersisted
<1>1. TypeInv /\ QueueInv /\ [Next]_vars => QueueInv'
  BY QueueStep
<1>2. TypeInv /\ QueueInv /\ StoreInv /\ [Next]_vars => StoreInv'
  BY StoreInvStep
<1>3. TypeInv /\ QueueInv /\ StoreInv /\ MapById /\ FinishedInv /\ [Next]_vars => FinishedInv'
  BY OneUpdateStep, WrittenStep DEF FinishedInv, StoreInv
<1>4. FinishedInv => FinishedIsPersisted
  <2> SUFFICES ASSUME FinishedInv, NEW id \in Ids, jobs[id] # NoRef,
                      \A c \in Callers : call[c].pc = "idle" \/ call[c].id # id,
                      objs[jobs[id]].status \in Finished, NEW pk \in MappedPks(id)
               PROVE  rows[pk] \in {objs[jobs[id]].status, "none"}
    BY DEF FinishedIsPersisted, Finished
  <2> DEFINE s == objs[jobs[id]].status
  <2>1. FinishedAs(id, s) /\ ~OnItsWay(id, s)
    BY DEF FinishedAs, OnItsWay, Updating
  <2>2. Written(id, s)
    BY <2>1 DEF FinishedInv, FinishedIsWritten
  <2>3. PICK i \in DOMAIN history : history[i].id = id /\ pk = history[i].pk
    BY DEF MappedPks
  <2> QED
    BY <2>2, <2>3 DEF Written
<1> QED
  BY TypeInit, TypeStep, QueueInit, StoreInit, MapByIdInit, MapByIdStep, FinishedInit,
     <1>1, <1>2, <1>3, <1>4, PTL DEF Spec
=============================================================================
