------------------------------ MODULE Scheduler ------------------------------
(***************************************************************************)
(* MemoryJobScheduler (lib/jobs/memory-job-scheduler.ts): jobs that run    *)
(* once at a time, every so often, or both, by timers of Node and by a     *)
(* check of all jobs every second, which know nothing of one another.      *)
(*                                                                         *)
(* Time is counted in checks of a second.  Node fires a timer that is due  *)
(* before time goes on, and timers due together in any order, except that  *)
(* the two intervals of one job keep the order they were set in.  A delay  *)
(* beyond TimerRange (2^31 - 1 ms) fires at once: setTimeout replaces it   *)
(* by 1 ms.                                                                *)
(***************************************************************************)
EXTENDS Naturals, FiniteSets

CONSTANTS
  JobIds,
  Refs,        \* one for each job object that schedule() creates
  Specs,       \* the schedules asked for: [at, every, max], 0 for absent
  TimerRange,  \* the longest delay a timer can wait for
  NoJob, NoTime,
  MaxTime, MaxCopies  \* bounds on the clock and on executions counted per job

VARIABLES
  clock,
  objs,      \* ref -> the job object, or NoJob before schedule() creates it
  jobs,      \* the map: id -> ref or NoJob
  checkAt,   \* when the one-second check is due, NoTime while not running
  timer,     \* ref -> when its setTimeout is due
  interval,  \* ref -> when the first setInterval is due
  counted,   \* ref -> when the interval that counts recurrences is due
  count,     \* ref -> recurrences counted
  starts,    \* ref -> executions started of the job object itself
  copies,    \* ref -> executions started of copies by the intervals
  cancelled  \* history: refs that unschedule or stop took out of the map

timers == <<checkAt, timer, interval, counted, count>>
executions == <<starts, copies>>
vars == <<clock, objs, jobs, timers, executions, cancelled>>

Running == checkAt # NoTime
Live == {r \in Refs : objs[r] # NoJob}
Statuses == {"pending", "running", "completed"}
Times == 0 .. 2 * MaxTime
AtMost(n, max) == IF n < max THEN n ELSE max

Init ==
  /\ clock = 1  \* a timestamp; 0 stands for absent
  /\ objs = [r \in Refs |-> NoJob] /\ jobs = [i \in JobIds |-> NoJob]
  /\ checkAt = NoTime
  /\ timer = [r \in Refs |-> NoTime]
  /\ interval = timer /\ counted = timer
  /\ count = [r \in Refs |-> 0]
  /\ starts = count /\ copies = count
  /\ cancelled = {}

\* validateScheduledJob: a time or an interval, and neither negative.
ValidSchedule(s) == s.at # 0 \/ s.every # 0

\* Mutant: the delay is rounded up to the next second.
DelayRoundedUp(at) == IF at <= clock \/ at - clock > TimerRange THEN 0 ELSE at - clock + 1

\* The delay setTimeout keeps to.
Delay(at) ==
  IF at <= clock \/ at - clock > TimerRange THEN 0 ELSE at - clock

\* schedule(id, s), which creates the object r.
Schedule(i, r, s) ==
  /\ ValidSchedule(s) /\ jobs[i] = NoJob /\ objs[r] = NoJob
  /\ objs' = [objs EXCEPT ![r] =
       [id |-> i, at |-> s.at, every |-> s.every, max |-> s.max,
        due |-> clock + (IF s.at > clock THEN s.at - clock ELSE 0),
        far |-> s.at > clock + TimerRange, status |-> "pending", running |-> 0]]
  /\ timer' = IF s.at = 0 THEN timer ELSE [timer EXCEPT ![r] = clock + Delay(s.at)]
  /\ interval' = IF s.every = 0 THEN interval ELSE [interval EXCEPT ![r] = clock + s.every]
  /\ counted' = IF s.every = 0 \/ s.max = 0 THEN counted
                ELSE [counted EXCEPT ![r] = clock + s.every]
  /\ jobs' = [jobs EXCEPT ![i] = r]
  /\ UNCHANGED <<clock, checkAt, count, executions, cancelled>>

\* Mutant: only the interval is cleared.
ClearsIntervalsOnly(S) ==
  /\ interval' = [r \in Refs |-> IF r \in S /\ counted[r] = NoTime THEN NoTime ELSE interval[r]]
  /\ counted' = [r \in Refs |-> IF r \in S THEN NoTime ELSE counted[r]]
  /\ UNCHANGED timer

\* What clearTimeout(timerId) and clearInterval(intervalId) reach: of two
\* intervals only the one that counts.
Clears(S) ==
  /\ timer' = [r \in Refs |-> IF r \in S THEN NoTime ELSE timer[r]]
  /\ interval' = [r \in Refs |-> IF r \in S /\ counted[r] = NoTime THEN NoTime ELSE interval[r]]
  /\ counted' = [r \in Refs |-> IF r \in S THEN NoTime ELSE counted[r]]

Unschedule(i) ==
  /\ jobs[i] # NoJob
  /\ Clears({jobs[i]})
  /\ cancelled' = cancelled \cup {jobs[i]}
  /\ jobs' = [jobs EXCEPT ![i] = NoJob]
  /\ UNCHANGED <<clock, objs, checkAt, count, executions>>

Start ==
  /\ ~Running
  /\ checkAt' = clock + 1
  /\ UNCHANGED <<clock, objs, jobs, timer, interval, counted, count, executions, cancelled>>

Mapped == {jobs[i] : i \in JobIds} \ {NoJob}

Stop ==
  /\ Running
  /\ checkAt' = NoTime
  /\ Clears(Mapped)
  /\ cancelled' = cancelled \cup Mapped
  /\ jobs' = [i \in JobIds |-> NoJob]
  /\ UNCHANGED <<clock, objs, count, executions>>

\* executeImmediate(job) up to the await of executeJob, for the jobs of S.
Executes(S) ==
  /\ objs' = [r \in Refs |-> IF r \notin S THEN objs[r]
                ELSE [objs[r] EXCEPT !.status = "running", !.running = @ + 1]]
  /\ starts' = [r \in Refs |-> IF r \in S THEN starts[r] + 1 ELSE starts[r]]

\* The end of executeJob; nothing in it fails.
ExecutionEnds(r) ==
  /\ r \in Live /\ objs[r].running > 0
  /\ objs' = [objs EXCEPT ![r].status = "completed", ![r].running = @ - 1]
  /\ UNCHANGED <<clock, jobs, timers, executions, cancelled>>

Due(t) == t # NoTime /\ t <= clock

TimerFires(r) ==
  /\ Due(timer[r])
  /\ timer' = [timer EXCEPT ![r] = NoTime]
  /\ Executes({r})
  /\ UNCHANGED <<clock, jobs, checkAt, interval, counted, count, copies, cancelled>>

\* A copy of the job under an id of its own is executed.
CopyStarts(r) == copies' = [copies EXCEPT ![r] = AtMost(@ + 1, MaxCopies)]

IntervalFires(r) ==
  /\ Due(interval[r])
  /\ interval' = [interval EXCEPT ![r] = clock + objs[r].every]
  /\ CopyStarts(r)
  /\ UNCHANGED <<clock, objs, jobs, checkAt, timer, counted, count, starts, cancelled>>

\* Mutant: at the end only the interval that counts is cleared.
EndsRecurrencesByHalf(r) ==
  /\ counted' = [counted EXCEPT ![r] = NoTime]
  /\ jobs' = [jobs EXCEPT ![objs[r].id] = NoJob]
  /\ interval' = interval

EndsRecurrences(r) ==
  /\ counted' = [counted EXCEPT ![r] = NoTime]
  /\ interval' = [interval EXCEPT ![r] = NoTime]
  /\ jobs' = [jobs EXCEPT ![objs[r].id] = NoJob]

CountedFires(r) ==
  /\ Due(counted[r]) /\ ~Due(interval[r])
  /\ CopyStarts(r)
  /\ count' = [count EXCEPT ![r] = @ + 1]
  /\ \/ /\ count'[r] < objs[r].max
        /\ counted' = [counted EXCEPT ![r] = clock + objs[r].every]
        /\ UNCHANGED <<interval, jobs>>
     \/ count'[r] >= objs[r].max /\ EndsRecurrences(r)
  /\ UNCHANGED <<clock, objs, checkAt, timer, starts, cancelled>>

\* getDueJobs
DueJobs == {r \in Mapped : objs[r].at # 0 /\ objs[r].at <= clock}

\* checkAndExecuteDueJobs: due jobs without an interval leave the map and run;
\* their timers are not cleared.
Check ==
  /\ Due(checkAt)
  /\ LET once == {r \in DueJobs : objs[r].every = 0} IN
       /\ Executes(once)
       /\ jobs' = [i \in JobIds |-> IF jobs[i] \in once THEN NoJob ELSE jobs[i]]
  /\ checkAt' = clock + 1
  /\ UNCHANGED <<clock, timer, interval, counted, count, copies, cancelled>>

Tick ==
  /\ clock < MaxTime
  /\ ~Due(checkAt)
  /\ \A r \in Refs : ~Due(timer[r]) /\ ~Due(interval[r]) /\ ~Due(counted[r])
  /\ clock' = clock + 1
  /\ UNCHANGED <<objs, jobs, timers, executions, cancelled>>

Next ==
  \/ \E i \in JobIds, r \in Refs, s \in Specs : Schedule(i, r, s)
  \/ \E i \in JobIds : Unschedule(i)
  \/ Start \/ Stop \/ Check \/ Tick
  \/ \E r \in Refs : TimerFires(r) \/ IntervalFires(r) \/ CountedFires(r) \/ ExecutionEnds(r)

Spec == Init /\ [][Next]_vars

-----------------------------------------------------------------------------
\* Types: what schedule, the timers and the check put into their fields.
TypeOK ==
  /\ clock \in 1 .. MaxTime
  /\ \A r \in Live :
       /\ objs[r].status \in Statuses /\ objs[r].running \in Nat
       /\ objs[r].status = "running" => objs[r].running > 0
  /\ \A t \in {checkAt} \cup {timer[r] : r \in Refs} \cup {interval[r] : r \in Refs}
              \cup {counted[r] : r \in Refs} : t = NoTime \/ t \in Times

\* A job with a time runs at that time or at the next check, never before it,
\* unless its delay is beyond what a timer can wait for.
OnTime ==
  \A r \in Live : objs[r].at # 0 =>
    /\ starts[r] > 0 => objs[r].at <= clock \/ objs[r].far
    /\ objs[r].due < clock => starts[r] > 0 \/ r \in cancelled

\* The recurrences of a job that has a bound, and that nobody cancels, are counted
\* until there are as many as were asked for, and then both of its intervals and its
\* place in the map go together: none is left to repeat it.
RecurrencesEnd ==
  \A r \in Live : objs[r].every > 0 /\ objs[r].max > 0 /\ r \notin cancelled =>
    IF count[r] < objs[r].max
    THEN interval[r] # NoTime /\ counted[r] # NoTime
    ELSE /\ count[r] = objs[r].max
         /\ interval[r] = NoTime /\ counted[r] = NoTime /\ r \notin Mapped

\* A job without an interval is executed one time ("one-time execution",
\* memory-job-scheduler.ts:251).  It is not: the check does not clear the timer.
ExecutedOneTime == \A r \in Live : objs[r].every = 0 => starts[r] <= 1

\* What unschedule or stop took out of the map does not start again, except
\* by the interval of a bounded recurring job, which they do not clear.
NoLateStart ==
  \A r \in cancelled : starts'[r] = starts[r] /\ (objs[r].max = 0 => copies'[r] = copies[r])

CancelledJobsStayQuiet == [][NoLateStart]_vars
=============================================================================
