------------------------------ MODULE JobQueue ------------------------------
(***************************************************************************)
(* MemoryJobQueue (lib/jobs/memory-job-queue.ts) over the tables kept by   *)
(* PostgresJobRepository (lib/database/job-repository.ts), with the facade *)
(* PostgresJobQueue (lib/jobs/postgres-job-queue.ts) writing to the same   *)
(* tables.                                                                 *)
(*                                                                         *)
(* One Node process runs the queue.  Its code is single-threaded, so every *)
(* stretch between two awaits is one action; enqueue and updateJobStatus   *)
(* await several database statements, and each statement is an action of   *)
(* its own that interleaves with everything else.  A restart throws away   *)
(* the memory and every call in flight, and keeps the tables.              *)
(***************************************************************************)
EXTENDS Integers, Sequences, FiniteSets, SequencesExt

CONSTANTS
  Ids,                 \* external job ids (IJob.id)
  Callers,             \* concurrent async calls of the API
  Owns,                \* the ids a caller may enqueue
  Priorities,          \* JobPriority values in use
  DefaultPriority,     \* JobPriority.MEDIUM
  Targets,             \* statuses passed to updateJobStatus
  FacadeIds,           \* ids used with PostgresJobQueue
  FacadeStatuses,      \* statuses passed to PostgresJobQueue
  WorkersDequeueFirst, \* updateJobStatus is only called by the worker that
                       \* was handed a job with that id
  DbMayFail,           \* a statement or its reply may be lost
  MayClear,            \* clear() is called
  MaxRows,             \* bound: rows ever inserted in table jobs
  MaxHistory,          \* bound: rows of table job_history
  MaxObjs,             \* bound: job objects created in one process life
  MaxRestarts          \* bound: process restarts

Status == {"pending", "running", "completed", "failed", "cancelled", "timeout"}
Pks == 1..MaxRows
\* A row without a mapping is recovered under String(pk), so keys of the
\* jobs map are external ids or primary keys.
JobIds == Ids \cup Pks
Refs == 1..MaxObjs
NoRef == 0
NoId == 0
NoPriority == 0

ASSUME ConstAssumption ==
  /\ MaxRows \in Nat /\ MaxHistory \in Nat /\ MaxObjs \in Nat
  /\ MaxRestarts \in Nat
  /\ Priorities \subseteq Nat \ {NoPriority}
  /\ DefaultPriority \in Priorities
  /\ Targets \subseteq Status /\ FacadeStatuses \subseteq Status
  /\ Ids \cap Nat = {}
  /\ Owns \in [Callers -> SUBSET Ids] /\ FacadeIds \subseteq Ids
  /\ {WorkersDequeueFirst, DbMayFail, MayClear} \subseteq BOOLEAN

VARIABLES
  rows,     \* table jobs: status of the row with a primary key, or "none"
  nextPk,   \* the bigserial sequence of table jobs
  history,  \* table job_history: the rows whose details carry an externalId
  up,       \* the process has finished loadPersistedJobs
  objs,     \* the IJob objects of this process life, by reference
  jobs,     \* this.jobs: the object a key maps to
  queue,    \* the references in this.priorityQueue
  stats,    \* this.stats
  held,     \* the references workers were handed and have not finished
  call,     \* the async call each caller is in
  accepted, \* history variable: ids whose enqueue has returned
  restarts

dbVars == <<rows, nextPk, history>>
memVars == <<objs, jobs, queue, stats, held>>
vars == <<dbVars, up, memVars, call, accepted, restarts>>

-----------------------------------------------------------------------------
Idle == [pc |-> "idle", mem |-> FALSE, id |-> NoId, prio |-> NoPriority,
         old |-> "pending", new |-> "pending", pk |-> 0]

NoStats == [total |-> 0, pending |-> 0, running |-> 0, completed |-> 0,
            failed |-> 0, cancelled |-> 0]

Init ==
  /\ rows = [pk \in Pks |-> "none"]
  /\ nextPk = 1
  /\ history = <<>>
  /\ up = FALSE
  /\ objs = <<>>
  /\ jobs = [id \in JobIds |-> NoRef]
  /\ queue = {}
  /\ stats = NoStats
  /\ held = {}
  /\ call = [c \in Callers |-> Idle]
  /\ accepted = {}
  /\ restarts = 0

-----------------------------------------------------------------------------
(* The repository's queries. *)

\* exists() and updateStatus() look an external id up in job_history.
MappedPks(id) == {history[i].pk : i \in {j \in DOMAIN history : history[j].id = id}}

Active == {"pending", "running", "failed"}

\* loadActiveJobs left-joins each active row with its history rows that carry
\* an externalId: one result per such history row (named here by its index),
\* or one result without details (named MaxHistory + pk) if there is none.
ActivePks == {pk \in Pks : rows[pk] \in Active}
JoinedHistory == {i \in DOMAIN history : history[i].pk \in ActivePks}
OrphanPks == ActivePks \ {history[i].pk : i \in JoinedHistory}
JoinNames == JoinedHistory \cup {MaxHistory + pk : pk \in OrphanPks}

\* A result without details is named String(pk) and gets the default priority;
\* so does one whose details come from updateStatus, which writes no priority.
Recovered(n) ==
  IF n <= MaxHistory
  THEN [id |-> history[n].id, status |-> rows[history[n].pk],
        prio |-> IF history[n].prio = NoPriority THEN DefaultPriority
                 ELSE history[n].prio]
  ELSE [id |-> n - MaxHistory, status |-> rows[n - MaxHistory],
        prio |-> DefaultPriority]

\* SQL leaves the order of the results open.
ActiveJobs == {[k \in DOMAIN s |-> Recovered(s[k])] : s \in SetToSeqs(JoinNames)}

-----------------------------------------------------------------------------
(* enqueue: the check of the map, the check of the store, the two inserts of *)
(* JobRepository.insert, and the update of the memory.                       *)

\* A known id throws and changes nothing.
EnqueueStart(c, id, p) ==
  /\ up /\ call[c].pc = "idle"
  /\ jobs[id] = NoRef
  /\ call' = [call EXCEPT ![c] =
                [Idle EXCEPT !.pc = "exists", !.mem = TRUE, !.id = id, !.prio = p]]
  /\ UNCHANGED <<dbVars, up, memVars, accepted, restarts>>

\* Mutant: only the map is checked for duplicates, not the store.
CheckExists_MapOnly(c) ==
  /\ call[c].pc = "exists"
  /\ call' = [call EXCEPT ![c].pc = "insertRow"]
  /\ UNCHANGED <<dbVars, up, memVars, accepted, restarts>>

CheckExists(c) ==
  /\ call[c].pc = "exists"
  /\ call' = [call EXCEPT ![c] = IF MappedPks(call[c].id) = {}
                                 THEN [@ EXCEPT !.pc = "insertRow"]
                                 ELSE Idle]
  /\ UNCHANGED <<dbVars, up, memVars, accepted, restarts>>

\* PostgresJobQueue.enqueue persists a job in whatever status it is given and
\* checks neither the map nor the store.
FacadeEnqueueStart(c, id, p, s) ==
  /\ up /\ call[c].pc = "idle"
  /\ call' = [call EXCEPT ![c] =
                [Idle EXCEPT !.pc = "insertRow", !.id = id, !.prio = p, !.new = s]]
  /\ UNCHANGED <<dbVars, up, memVars, accepted, restarts>>

\* Mutant: the reply of the first insert is taken for the end of insert().
InsertRow_WithoutMapping(c) ==
  /\ call[c].pc = "insertRow"
  /\ nextPk <= MaxRows
  /\ rows' = [rows EXCEPT ![nextPk] = call[c].new]
  /\ nextPk' = nextPk + 1
  /\ call' = [call EXCEPT ![c] = IF @.mem THEN [@ EXCEPT !.pc = "admit"] ELSE Idle]
  /\ UNCHANGED <<history, up, memVars, accepted, restarts>>

InsertRow(c) ==
  /\ call[c].pc = "insertRow"
  /\ nextPk <= MaxRows
  /\ rows' = [rows EXCEPT ![nextPk] = call[c].new]
  /\ nextPk' = nextPk + 1
  /\ call' = [call EXCEPT ![c].pc = "insertMapping", ![c].pk = nextPk]
  /\ UNCHANGED <<history, up, memVars, accepted, restarts>>

\* The call returns, or goes on in the queue's memory if it came from there.
Reply(c, pc) == call' = [call EXCEPT ![c] = IF @.mem THEN [@ EXCEPT !.pc = pc] ELSE Idle]

InsertMapping(c) ==
  /\ call[c].pc = "insertMapping"
  /\ Len(history) < MaxHistory
  /\ history' = Append(history,
                  [pk |-> call[c].pk, id |-> call[c].id, prio |-> call[c].prio])
  /\ Reply(c, "admit")
  /\ UNCHANGED <<rows, nextPk, up, memVars, accepted, restarts>>

\* Mutant: the job is queued but not entered in the map.
Admit_WithoutMap(c) ==
  LET ref == Len(objs) + 1
  IN  /\ call[c].pc = "admit"
      /\ ref \in Refs
      /\ objs' = Append(objs, [id |-> call[c].id, prio |-> call[c].prio,
                               status |-> "pending"])
      /\ queue' = queue \cup {ref}
      /\ stats' = [stats EXCEPT !.total = @ + 1, !.pending = @ + 1]
      /\ accepted' = accepted \cup {call[c].id}
      /\ call' = [call EXCEPT ![c] = Idle]
      /\ UNCHANGED <<dbVars, up, jobs, held, restarts>>

Admit(c) ==
  LET ref == Len(objs) + 1
  IN  /\ call[c].pc = "admit"
      /\ ref \in Refs
      /\ objs' = Append(objs, [id |-> call[c].id, prio |-> call[c].prio,
                               status |-> "pending"])
      /\ jobs' = [jobs EXCEPT ![call[c].id] = ref]
      /\ queue' = queue \cup {ref}
      /\ stats' = [stats EXCEPT !.total = @ + 1, !.pending = @ + 1]
      /\ accepted' = accepted \cup {call[c].id}
      /\ call' = [call EXCEPT ![c] = Idle]
      /\ UNCHANGED <<dbVars, up, held, restarts>>

-----------------------------------------------------------------------------
(* dequeue, cancel and clear await nothing: each is one action. *)

\* The heap hands out some job of the highest priority queued (PriorityHeap).
Heads == {r \in queue : \A q \in queue : objs[q].prio <= objs[r].prio}

Dequeue(r) ==
  /\ up
  /\ r \in Heads
  /\ queue' = queue \ {r}
  /\ objs' = [objs EXCEPT ![r].status = "running"]
  /\ jobs' = [jobs EXCEPT ![objs[r].id] = r]
  /\ stats' = [stats EXCEPT !.pending = @ - 1, !.running = @ + 1]
  /\ held' = held \cup {r}
  /\ UNCHANGED <<dbVars, up, call, accepted, restarts>>

\* Mutants: a cancel that leaves the job in the heap, one that does not count
\* running jobs down, and one that does not count pending jobs down.
CancelBut(id, keepQueued, keepRunning, keepPending) ==
  LET r == jobs[id]
      was == objs[r].status
  IN  /\ up
      /\ r # NoRef
      /\ stats.cancelled < MaxObjs
      /\ queue' = IF was = "pending" /\ ~keepQueued THEN queue \ {r} ELSE queue
      /\ objs' = [objs EXCEPT ![r].status = "cancelled"]
      /\ stats' = [stats EXCEPT
                     !.pending = IF was = "pending" /\ ~keepPending THEN @ - 1 ELSE @,
                     !.running = IF was = "running" /\ ~keepRunning THEN @ - 1 ELSE @,
                     !.cancelled = @ + 1]
      /\ UNCHANGED <<dbVars, up, jobs, held, call, accepted, restarts>>
Cancel_StaysQueued(id) == CancelBut(id, TRUE, FALSE, FALSE)
Cancel_StaysRunning(id) == CancelBut(id, FALSE, TRUE, FALSE)
Cancel_StaysPending(id) == CancelBut(id, FALSE, FALSE, TRUE)

\* cancel accepts a job in any status, and writes nothing to the store.
Cancel(id) ==
  LET r == jobs[id]
      was == objs[r].status
  IN  /\ up
      /\ r # NoRef
      /\ stats.cancelled < MaxObjs   \* bound: repeated cancels of a job
      /\ queue' = IF was = "pending" THEN queue \ {r} ELSE queue
      /\ objs' = [objs EXCEPT ![r].status = "cancelled"]
      /\ stats' = [stats EXCEPT
                     !.pending = IF was = "pending" THEN @ - 1 ELSE @,
                     !.running = IF was = "running" THEN @ - 1 ELSE @,
                     !.cancelled = @ + 1]
      /\ UNCHANGED <<dbVars, up, jobs, held, call, accepted, restarts>>

\* Mutant: the priority queue is not cleared.
Clear_KeepsHeap ==
  /\ up /\ MayClear
  /\ objs' = <<>>
  /\ jobs' = [id \in JobIds |-> NoRef]
  /\ stats' = NoStats
  /\ held' = {}
  /\ UNCHANGED <<dbVars, up, queue, call, accepted, restarts>>

Clear ==
  /\ up /\ MayClear
  /\ objs' = <<>>
  /\ jobs' = [id \in JobIds |-> NoRef]
  /\ queue' = {}
  /\ stats' = NoStats
  /\ held' = {}
  /\ UNCHANGED <<dbVars, up, call, accepted, restarts>>

-----------------------------------------------------------------------------
(* updateJobStatus: the memory changes first, then the three statements of   *)
(* JobRepository.updateStatus run, and only then are the statistics changed. *)

\* The object stays in the priority queue if it is there, and is not put there
\* if it is not.
UpdateStart(c, id, s) ==
  LET r == jobs[id]
  IN  /\ up /\ call[c].pc = "idle"
      /\ r # NoRef
      /\ WorkersDequeueFirst => \E h \in held : objs[h].id = id
      /\ objs' = [objs EXCEPT ![r].status = s]
      /\ call' = [call EXCEPT ![c] =
                    [Idle EXCEPT !.pc = "resolve", !.mem = TRUE, !.id = id,
                                 !.old = objs[r].status, !.new = s]]
      /\ held' = IF s = "running" THEN held
                 ELSE {h \in held : objs[h].id # id}
      /\ UNCHANGED <<dbVars, up, jobs, queue, stats, accepted, restarts>>

\* PostgresJobQueue.updateStatus goes straight to the store.
FacadeUpdateStart(c, id, s) ==
  /\ up /\ call[c].pc = "idle"
  /\ call' = [call EXCEPT ![c] = [Idle EXCEPT !.pc = "resolve", !.id = id, !.new = s]]
  /\ UNCHANGED <<dbVars, up, memVars, accepted, restarts>>

\* LIMIT 1 without an order: any of the rows mapped to the id.  None is only a
\* warning, and the update of the store is skipped.
Resolve(c) ==
  LET pks == MappedPks(call[c].id)
  IN  /\ call[c].pc = "resolve"
      /\ \/ pks = {} /\ Reply(c, "account")
         \/ \E pk \in pks :
              call' = [call EXCEPT ![c].pc = "updateRow", ![c].pk = pk]
      /\ UNCHANGED <<dbVars, up, memVars, accepted, restarts>>

\* Updating a row that was cleaned up affects no row.
UpdateRow(c) ==
  LET pk == call[c].pk
  IN  /\ call[c].pc = "updateRow"
      /\ rows' = IF rows[pk] = "none" THEN rows
                 ELSE [rows EXCEPT ![pk] = call[c].new]
      /\ call' = [call EXCEPT ![c].pc = "appendHistory"]
      /\ UNCHANGED <<nextPk, history, up, memVars, accepted, restarts>>

AppendHistory(c) ==
  /\ call[c].pc = "appendHistory"
  /\ Len(history) < MaxHistory
  /\ history' = Append(history,
                  [pk |-> call[c].pk, id |-> call[c].id, prio |-> NoPriority])
  /\ Reply(c, "account")
  /\ UNCHANGED <<rows, nextPk, up, memVars, accepted, restarts>>

\* updateJobStats: only pending and running are ever counted down.
Account(c) ==
  LET Delta(s) == (IF call[c].new = s THEN 1 ELSE 0)
                    - (IF call[c].old = s /\ s \in {"pending", "running"} THEN 1 ELSE 0)
  IN  /\ call[c].pc = "account"
      /\ stats' = [stats EXCEPT
                     !.pending = @ + Delta("pending"),
                     !.running = @ + Delta("running"),
                     !.completed = @ + Delta("completed"),
                     !.failed = @ + Delta("failed"),
                     !.cancelled = @ + Delta("cancelled")]
      /\ call' = [call EXCEPT ![c] = Idle]
      /\ UNCHANGED <<dbVars, up, objs, jobs, queue, held, accepted, restarts>>

\* A statement fails, or its reply is lost after it was executed: the error
\* leaves enqueue or updateJobStatus where it stood.
DbFailure(c) ==
  /\ DbMayFail
  /\ call[c].pc # "idle"
  /\ call' = [call EXCEPT ![c] = Idle]
  /\ UNCHANGED <<dbVars, up, memVars, accepted, restarts>>

-----------------------------------------------------------------------------
(* Recovery, cleanup and restarts. *)

\* Mutant: recovered jobs are not put back into the priority queue.
LoadPersistedJobs_WithoutRequeue ==
  /\ ~up
  /\ \E loaded \in ActiveJobs :
       /\ Len(loaded) <= MaxObjs
       /\ objs' = loaded
       /\ jobs' = [id \in JobIds |->
                     LET known == {k \in DOMAIN loaded : loaded[k].id = id}
                     IN  IF known = {} THEN NoRef
                         ELSE CHOOSE k \in known : \A j \in known : j <= k]
       /\ stats' = [NoStats EXCEPT !.total = Len(loaded)]
  /\ up' = TRUE
  /\ UNCHANGED <<dbVars, queue, held, call, accepted, restarts>>

\* The rows processed in order: the last one with an id is what the map keeps,
\* each pending one is queued, and each is counted.
LoadPersistedJobs ==
  /\ ~up
  /\ \E loaded \in ActiveJobs :
       LET With(s) == {k \in DOMAIN loaded : loaded[k].status = s}
           LastWith(id) == {k \in DOMAIN loaded :
                              /\ loaded[k].id = id
                              /\ \A j \in DOMAIN loaded : j > k => loaded[j].id # id}
       IN  /\ Len(loaded) <= MaxObjs
           /\ objs' = loaded
           /\ jobs' = [id \in JobIds |-> IF LastWith(id) = {} THEN NoRef
                                         ELSE CHOOSE k \in LastWith(id) : TRUE]
           /\ queue' = With("pending")
           /\ stats' = [NoStats EXCEPT !.total = Len(loaded),
                                       !.pending = Cardinality(With("pending")),
                                       !.running = Cardinality(With("running")),
                                       !.failed = Cardinality(With("failed"))]
  /\ up' = TRUE
  /\ UNCHANGED <<dbVars, held, call, accepted, restarts>>

\* A failing query is logged and the process goes on with an empty queue.
LoadFails ==
  /\ ~up /\ DbMayFail
  /\ up' = TRUE
  /\ UNCHANGED <<dbVars, memVars, call, accepted, restarts>>

\* cleanupOldJobs: some completed rows are past the retention time.  Their
\* history stays.
CleanupOldJobs ==
  \E old \in SUBSET {pk \in Pks : rows[pk] = "completed"} :
    /\ up
    /\ rows' = [pk \in Pks |-> IF pk \in old THEN "none" ELSE rows[pk]]
    /\ UNCHANGED <<nextPk, history, up, memVars, call, accepted, restarts>>

Restart ==
  /\ up /\ restarts < MaxRestarts
  /\ up' = FALSE
  /\ objs' = <<>>
  /\ jobs' = [id \in JobIds |-> NoRef]
  /\ queue' = {}
  /\ stats' = NoStats
  /\ held' = {}
  /\ call' = [c \in Callers |-> Idle]
  /\ restarts' = restarts + 1
  /\ UNCHANGED <<dbVars, accepted>>

-----------------------------------------------------------------------------
Statement(c) ==
  \/ CheckExists(c) \/ InsertRow(c) \/ InsertMapping(c) \/ Admit(c)
  \/ Resolve(c) \/ UpdateRow(c) \/ AppendHistory(c) \/ Account(c)

CallStart(c) ==
  \/ \E id \in Owns[c], p \in Priorities : EnqueueStart(c, id, p)
  \/ \E id \in JobIds, s \in Targets : UpdateStart(c, id, s)

FacadeStart(c) ==
  \/ \E id \in FacadeIds, p \in Priorities, s \in FacadeStatuses : FacadeEnqueueStart(c, id, p, s)
  \/ \E id \in FacadeIds, s \in FacadeStatuses : FacadeUpdateStart(c, id, s)

Next ==
  \/ \E c \in Callers :
       CallStart(c) \/ FacadeStart(c) \/ Statement(c) \/ DbFailure(c)
  \/ \E r \in queue : Dequeue(r)
  \/ \E id \in JobIds : Cancel(id)
  \/ Clear
  \/ LoadPersistedJobs \/ LoadFails \/ CleanupOldJobs \/ Restart

Spec == Init /\ [][Next]_vars

-----------------------------------------------------------------------------
(* Properties. *)

Job == [id : JobIds, prio : Priorities, status : Status]
HistoryRow == [pk : Pks, id : Ids, prio : Priorities \cup {NoPriority}]
Call == [pc : {"idle", "exists", "insertRow", "insertMapping", "admit",
               "resolve", "updateRow", "appendHistory", "account"},
         mem : BOOLEAN, id : JobIds \cup {NoId}, prio : Priorities \cup {NoPriority},
         old : Status, new : Status, pk : 0..MaxRows]

\* Every table, map, queue and call record keeps its shape, and references
\* point into the objects of the current process life.
TypeOK ==
  /\ rows \in [Pks -> Status \cup {"none"}]
  /\ nextPk \in 1..(MaxRows + 1)
  /\ history \in Seq(HistoryRow)
  /\ Len(history) <= MaxHistory
  /\ up \in BOOLEAN
  /\ objs \in Seq(Job)
  /\ jobs \in [JobIds -> {NoRef} \cup DOMAIN objs]
  /\ queue \subseteq DOMAIN objs
  /\ held \subseteq DOMAIN objs
  /\ stats \in [total : Int, pending : Int, running : Int, completed : Int,
                failed : Int, cancelled : Int]
  /\ call \in [Callers -> Call]
  /\ accepted \subseteq Ids
  /\ restarts \in Nat

\* No job waits forever unseen and no job is handed out that should not be:
\* the priority queue holds exactly the objects that are pending, whatever
\* cancels, crashes, recoveries and failed statements came before.  Each is the one
\* its id leads to, so cancel and updateJobStatus reach it and no other copy of it
\* can be handed out (enqueue rejects duplicates).
PendingIffQueued == 
  /\ \A r \in DOMAIN objs : objs[r].status = "pending" <=> r \in queue
  /\ \A r \in queue : jobs[objs[r].id] = r

\* getStats' pendingJobs is the number of jobs dequeue still has to hand out.
PendingCount == stats.pending = Cardinality(queue)

\* getStats' runningJobs is the number of running jobs, up to the updates that
\* have changed a job and are still waiting for the store to count it.
Updating == {c \in Callers : call[c].mem
                               /\ call[c].pc \in {"resolve", "updateRow", "appendHistory", "account"}}
RunningCount ==
  stats.running = Cardinality({r \in DOMAIN objs : objs[r].status = "running"})
                    + Cardinality({c \in Updating : call[c].old = "running"})
                    - Cardinality({c \in Updating : call[c].new = "running"})

\* Once enqueue has returned, or a job is in memory under its external id, the
\* store maps the id to a row, so a crash cannot lose the job.
AcceptedIsDurable ==
  \A id \in Ids : id \in accepted \/ jobs[id] # NoRef => MappedPks(id) # {}

\* Recovery after a restart misses nothing: every active row is back in the map
\* under its external id, and every pending one is back in the queue.
RecoveryComplete ==
  [][LoadPersistedJobs =>
       \A id \in Ids : \A pk \in MappedPks(id) :
         /\ rows[pk] \in Active => jobs'[id] # NoRef
         /\ rows[pk] = "pending" => \E r \in queue' : objs'[r].id = id]_vars

\* A job cancelled before any worker held it stays cancelled for the life of
\* the process: no dequeue, update or recovery brings it back.
CancelSticks ==
  [][\A id \in Ids :
       (jobs[id] # NoRef /\ jobs'[id] # NoRef) =>
         (objs[jobs[id]].status = "cancelled" /\ (\A h \in held : objs[h].id # id)
            => objs'[jobs'[id]].status = "cancelled")]_vars

\* When no call is at work on a job that was reported finished, the store says
\* so too (or has cleaned it up), so a restart cannot run it again.
FinishedIsPersisted ==
  \A id \in Ids :
    (jobs[id] # NoRef /\ \A c \in Callers : call[c].pc = "idle" \/ call[c].id # id) =>
      (objs[jobs[id]].status \in {"completed", "failed"} =>
         \A pk \in MappedPks(id) : rows[pk] \in {objs[jobs[id]].status, "none"})

-----------------------------------------------------------------------------
(* What a comment says of the program, and the code does not do. *)

\* "Join jobs with the earliest history row that contains externalId metadata":
\* one object per job.
RecoveredOnce == \A r1, r2 \in DOMAIN objs : objs[r1].id = objs[r2].id => r1 = r2
=============================================================================
