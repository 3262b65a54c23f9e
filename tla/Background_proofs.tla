--------------------------- MODULE Background_proofs ---------------------------
(***************************************************************************)
(* Proofs about what runs in the background of a server: the coordinator    *)
(* that elects a leader among the pods, the job scheduler, the advanced     *)
(* memory cache, the heap of the job queue, and the alerts and bottlenecks  *)
(* of the monitoring. Each is proved about for any values of its constants, *)
(* by itself as MCBackground's instance of it (Leaders, Schedules, Memory,  *)
(* Detector, Dashboard) and in the composition that MCBackground checks.    *)
(***************************************************************************)
EXTENDS MCBackground, KeyOrders_proofs, FiniteSetsExt

(* The places of MCBackground, by the names of the component that takes them:  *)
(* one component has the variables at a time.                                  *)

\* Those of Coordinator.
key == v1
status == v2
isLeader == v3
info == v4
beats == v5
follows == v6
expiries == v7
retries == v8
handle == v9
election == v10
beat == v11
lapsed == v12
faults == v13

\* Those of Scheduler.
clock == v1
objs == v2
jobs == v3
checkAt == v4
timer == v5
interval == v6
counted == v7
count == v8
starts == v9
copies == v10
cancelled == v11

\* Those of AdvancedCache.
time == v1
policy == v2
lru == v3
mode == v4
stored == v5
order == v6
used == v7
hits == v8
misses == v9
sets == v12

USE DEF key, status, isLeader, info, beats, follows, expiries, retries, handle, election,
        beat, lapsed, faults, clock, objs, jobs, checkAt, timer, interval, counted, count,
        starts, copies, cancelled, time, policy, lru, mode, stored, order, used, hits,
        misses, sets

-----------------------------------------------------------------------------
(* The pod coordinator (lib/coordination/pod-coordinator.ts), the instance    *)
(* Leaders.                                                                  *)

NoPodIsNone == Nil \notin Pods /\ MaxTimers \in Nat \ {0} /\ LeaderFaults \in Nat

Election == [at : Leaders!Stages, read : Pods \cup {Nil}]

\* The pods that have the key as far as they know, or are about to learn it: those
\* that lead, those whose heartbeat is on its way, and those whose election was won
\* or has read their own name.
Holds(p) ==
  \/ isLeader[p]
  \/ beat[p] = "sent"
  \/ \E c \in LeaderCalls : \/ election[p][c].at = "won"
                      \/ (election[p][c].at = "read" /\ election[p][c].read = p)

HoldersHoldTheKey == ~lapsed => \A p \in Pods : Holds(p) => key = p

CoordinatorInv == Leaders!TypeOK /\ HoldersHoldTheKey

-----------------------------------------------------------------------------
(* Types.                                                                    *)

Counts == [Pods -> 0 .. MaxTimers]

\* Counting an armed timer or retry up keeps the counts natural.
LEMMA MoreCounts ==
  ASSUME NoPodIsNone, NEW f \in Counts, NEW g, NEW p \in Pods,
         g = [f EXCEPT ![p] = IF @ < MaxTimers THEN @ + 1 ELSE @]
  PROVE  g \in Counts
BY DEF NoPodIsNone, Counts

\* Counting one down keeps them natural, as it was there.
LEMMA FewerCounts ==
  ASSUME NoPodIsNone, NEW f \in Counts, NEW g, NEW p \in Pods, f[p] > 0,
         g = [f EXCEPT ![p] = @ - 1]
  PROVE  g \in Counts
BY DEF NoPodIsNone, Counts

\* A call of electLeader starts with a call record of the right shape.
LEMMA ElectsTypes ==
  ASSUME NEW p \in Pods, election \in [Pods -> [LeaderCalls -> Election]], Leaders!Elects(p)
  PROVE  election' \in [Pods -> [LeaderCalls -> Election]]
BY DEF Leaders!Elects, Election, Leaders!Sent, Leaders!Stages

\* A call record that moves to another stage keeps its shape.
LEMMA AtTypes ==
  ASSUME NEW p \in Pods, NEW c \in LeaderCalls, NEW stage \in Leaders!Stages,
         election \in [Pods -> [LeaderCalls -> Election]], Leaders!At(p, c, stage)
  PROVE  election' \in [Pods -> [LeaderCalls -> Election]]
BY DEF Leaders!At, Election

\* Every step keeps the shapes.
LEMMA TypeStep ==
  ASSUME NoPodIsNone, Leaders!TypeOK, [Leaders!Next]_(Leaders!vars)
  PROVE  Leaders!TypeOK'
<1> USE DEF NoPodIsNone, Leaders!TypeOK
<1>1. ASSUME Leaders!LeaseExpires PROVE Leaders!TypeOK'
  BY <1>1 DEF Leaders!LeaseExpires, Leaders!Fault, Leaders!local, Leaders!timers
<1>2. ASSUME NEW p \in Pods, Leaders!Connect(p) PROVE Leaders!TypeOK'
  BY <1>2, ElectsTypes DEF Leaders!Connect, Leaders!local, Leaders!timers, Election
<1>3. ASSUME NEW p \in Pods, Leaders!ConnectFails(p) PROVE Leaders!TypeOK'
  BY <1>3 DEF Leaders!ConnectFails, Leaders!Fault, Leaders!local, Leaders!timers
<1>4. ASSUME NEW p \in Pods, Leaders!Crash(p) PROVE Leaders!TypeOK'
  <2>1. beats' \in Counts /\ follows' \in Counts /\ expiries' \in Counts /\ retries' \in Counts
    BY <1>4 DEF Leaders!Crash, Counts
  <2>2. election' \in [Pods -> [LeaderCalls -> Election]]
    BY <1>4 DEF Leaders!Crash, Leaders!Sent, Leaders!Idle, Leaders!Stages, Election
  <2>3. beat' \in [Pods -> {"none", "sent", "run"}]
    BY <1>4 DEF Leaders!Crash
  <2> QED BY <1>4, <2>1, <2>2, <2>3 DEF Leaders!Crash, Leaders!Fault, Election, Counts
<1>5. ASSUME NEW p \in Pods, Leaders!Shutdown(p) PROVE Leaders!TypeOK'
  <2>1. beats' \in Counts
    BY <1>5, FewerCounts DEF Leaders!Shutdown, Leaders!Fewer, Counts
  <2>2. expiries' \in Counts
    BY <1>5, FewerCounts DEF Leaders!Shutdown, Leaders!Fewer, Counts
  <2>3. follows' \in Counts
    BY <1>5, FewerCounts DEF Leaders!Shutdown, Leaders!Fewer, Counts
  <2> QED BY <1>5, <2>1, <2>2, <2>3 DEF Leaders!Shutdown, Leaders!local, Counts
<1>6. ASSUME NEW p \in Pods, Leaders!LeadershipExpires(p) PROVE Leaders!TypeOK'
  <2>1. expiries' \in Counts
    BY <1>6, FewerCounts DEF Leaders!LeadershipExpires, Leaders!Fewer, Counts
  <2> QED BY <1>6, <2>1, ElectsTypes DEF Leaders!LeadershipExpires, Election, Counts
<1>7. ASSUME NEW p \in Pods, Leaders!FollowerSuspects(p) PROVE Leaders!TypeOK'
  BY <1>7, ElectsTypes DEF Leaders!FollowerSuspects, Leaders!local, Leaders!timers, Election
<1>8. ASSUME NEW p \in Pods, Leaders!HeartbeatSends(p) PROVE Leaders!TypeOK'
  BY <1>8 DEF Leaders!HeartbeatSends, Leaders!local, Leaders!timers
<1>9. ASSUME NEW p \in Pods, Leaders!HeartbeatRuns(p) PROVE Leaders!TypeOK'
  BY <1>9 DEF Leaders!HeartbeatRuns, Leaders!local, Leaders!timers
<1>10. ASSUME NEW p \in Pods, Leaders!HeartbeatReturns(p) PROVE Leaders!TypeOK'
  BY <1>10 DEF Leaders!HeartbeatReturns, Leaders!timers
<1>11. ASSUME NEW p \in Pods, Leaders!HeartbeatFails(p) PROVE Leaders!TypeOK'
  <2>1. retries' \in Counts
    BY <1>11, MoreCounts DEF Leaders!HeartbeatFails, Leaders!More, Counts
  <2>2. isLeader' \in [Pods -> BOOLEAN] /\ beat' \in [Pods -> {"none", "sent", "run"}]
    BY <1>11 DEF Leaders!HeartbeatFails
  <2> QED BY <1>11, <2>1, <2>2 DEF Leaders!HeartbeatFails, Leaders!Fault, Counts
<1>12. ASSUME NEW p \in Pods, Leaders!RetryFires(p) PROVE Leaders!TypeOK'
  <2>1. retries' \in Counts
    BY <1>12, FewerCounts DEF Leaders!RetryFires, Leaders!Fewer, Counts
  <2> QED BY <1>12, <2>1, ElectsTypes DEF Leaders!RetryFires, Leaders!local, Election,
    Counts
<1>13. ASSUME NEW p \in Pods, NEW c \in LeaderCalls, Leaders!SetRuns(p, c) PROVE Leaders!TypeOK'
  <2>1. election' \in [Pods -> [LeaderCalls -> Election]]
    BY <1>13, AtTypes DEF Leaders!SetRuns, Leaders!Stages, Election
  <2> QED BY <1>13, <2>1 DEF Leaders!SetRuns, Leaders!local, Leaders!timers, Election
<1>14. ASSUME NEW p \in Pods, NEW c \in LeaderCalls, Leaders!Wins(p, c) PROVE Leaders!TypeOK'
  <2>1. beats' \in Counts /\ expiries' \in Counts
    BY <1>14, MoreCounts DEF Leaders!Wins, Leaders!More, Counts
  <2> QED BY <1>14, <2>1 DEF Leaders!Wins, Leaders!Idle, Leaders!Stages, Counts
<1>15. ASSUME NEW p \in Pods, NEW c \in LeaderCalls, Leaders!GetRuns(p, c) PROVE Leaders!TypeOK'
  BY <1>15 DEF Leaders!GetRuns, Leaders!local, Leaders!timers, Leaders!Stages
<1>16. ASSUME NEW p \in Pods, NEW c \in LeaderCalls, Leaders!Learns(p, c) PROVE Leaders!TypeOK'
  <2>1. follows' \in Counts
    BY <1>16, MoreCounts DEF Leaders!Learns, Leaders!More, Counts
  <2>2. election[p][c].read \in Pods \cup {Nil}
    BY <1>16
  <2>3. handle' \in [Pods -> {"none", "timeout", "interval"}]
    BY <1>16 DEF Leaders!Learns
  <2>4. election' \in [Pods -> [LeaderCalls -> Election]]
    BY <1>16 DEF Leaders!Learns, Leaders!Idle, Leaders!Stages, Election
  <2> QED BY <1>16, <2>1, <2>2, <2>3, <2>4 DEF Leaders!Learns, Election, Counts
<1>17. ASSUME NEW p \in Pods, NEW c \in LeaderCalls, Leaders!ElectionFails(p, c) PROVE Leaders!TypeOK'
  BY <1>17 DEF Leaders!ElectionFails, Leaders!Fault, Leaders!local, Leaders!timers,
    Leaders!Idle, Leaders!Stages
<1>18. CASE UNCHANGED Leaders!vars
  BY <1>18 DEF Leaders!vars, Leaders!local, Leaders!timers
<1> QED BY <1>1, <1>2, <1>3, <1>4, <1>5, <1>6, <1>7, <1>8, <1>9, <1>10, <1>11, <1>12, <1>13,
           <1>14, <1>15, <1>16, <1>17, <1>18 DEF Leaders!Next

-----------------------------------------------------------------------------
(* The key.                                                                  *)

\* While no lease has lapsed the key passes only from nobody to the pod whose
\* election runs, and from a pod that does not count on it to nobody.
LEMMA KeyStep ==
  ASSUME NoPodIsNone, CoordinatorInv, [Leaders!Next]_(Leaders!vars)
  PROVE  HoldersHoldTheKey'
<1> SUFFICES ASSUME ~lapsed', NEW q \in Pods, Holds(q)'
             PROVE  key' = q
  BY DEF HoldersHoldTheKey
<1> USE DEF NoPodIsNone, CoordinatorInv, Leaders!TypeOK, HoldersHoldTheKey, Holds
<1>1. ASSUME Leaders!LeaseExpires PROVE key' = q
  <2>1. \A c \in LeaderCalls : election[key][c].at # "idle" => election[key][c] # Leaders!Idle
    BY DEF Leaders!Idle
  <2>2. Holds(q)
    BY <1>1 DEF Leaders!LeaseExpires, Leaders!local
  <2>3. key = q /\ Leaders!CountsOnLease(q)
    BY <1>1, <2>1, <2>2 DEF Leaders!LeaseExpires, Leaders!CountsOnLease
  <2> QED BY <1>1, <2>3 DEF Leaders!LeaseExpires
<1>2. ASSUME NEW p \in Pods, Leaders!Connect(p) PROVE key' = q
  BY <1>2 DEF Leaders!Connect, Leaders!Elects, Leaders!Sent, Leaders!local, Leaders!timers
<1>3. ASSUME NEW p \in Pods, Leaders!ConnectFails(p) PROVE key' = q
  BY <1>3 DEF Leaders!ConnectFails, Leaders!local, Leaders!timers
<1>4. ASSUME NEW p \in Pods, Leaders!Crash(p) PROVE key' = q
  BY <1>4 DEF Leaders!Crash, Leaders!Sent, Leaders!Idle
<1>5. ASSUME NEW p \in Pods, Leaders!Shutdown(p) PROVE key' = q
  BY <1>5 DEF Leaders!Shutdown, Leaders!local
<1>6. ASSUME NEW p \in Pods, Leaders!LeadershipExpires(p) PROVE key' = q
  BY <1>6 DEF Leaders!LeadershipExpires, Leaders!Elects, Leaders!Sent
<1>7. ASSUME NEW p \in Pods, Leaders!FollowerSuspects(p) PROVE key' = q
  BY <1>7 DEF Leaders!FollowerSuspects, Leaders!Elects, Leaders!Sent, Leaders!local,
    Leaders!timers
<1>8. ASSUME NEW p \in Pods, Leaders!HeartbeatSends(p) PROVE key' = q
  BY <1>8 DEF Leaders!HeartbeatSends, Leaders!local, Leaders!timers
<1>9. ASSUME NEW p \in Pods, Leaders!HeartbeatRuns(p) PROVE key' = q
  <2>1. key = p /\ key' = p
    BY <1>9 DEF Leaders!HeartbeatRuns
  <2> QED BY <1>9, <2>1 DEF Leaders!HeartbeatRuns, Leaders!local, Leaders!timers
<1>10. ASSUME NEW p \in Pods, Leaders!HeartbeatReturns(p) PROVE key' = q
  BY <1>10 DEF Leaders!HeartbeatReturns, Leaders!timers
<1>11. ASSUME NEW p \in Pods, Leaders!HeartbeatFails(p) PROVE key' = q
  BY <1>11 DEF Leaders!HeartbeatFails
<1>12. ASSUME NEW p \in Pods, Leaders!RetryFires(p) PROVE key' = q
  BY <1>12 DEF Leaders!RetryFires, Leaders!Elects, Leaders!Sent, Leaders!local
<1>13. ASSUME NEW p \in Pods, NEW c \in LeaderCalls, Leaders!SetRuns(p, c) PROVE key' = q
  <2>1. CASE key = Nil
    <3>1. ~Holds(q)
      BY <1>13, <2>1 DEF Leaders!SetRuns
    <3>2. q # p => ~Holds(q)'
      BY <1>13, <2>1, <3>1 DEF Leaders!SetRuns, Leaders!At, Leaders!local
    <3> QED BY <1>13, <2>1, <3>2 DEF Leaders!SetRuns
  <2>2. CASE key # Nil
    <3>1. key' = key /\ Leaders!At(p, c, "lost")
      BY <1>13, <2>2 DEF Leaders!SetRuns
    <3>2. \A d \in LeaderCalls : election'[q][d] = election[q][d] \/ election'[q][d].at = "lost"
      BY <3>1 DEF Leaders!At
    <3>3. Holds(q)
      BY <1>13, <3>2 DEF Leaders!SetRuns, Leaders!local
    <3> QED BY <1>13, <3>1, <3>3 DEF Leaders!SetRuns
  <2> QED BY <2>1, <2>2
<1>14. ASSUME NEW p \in Pods, NEW c \in LeaderCalls, Leaders!Wins(p, c) PROVE key' = q
  BY <1>14 DEF Leaders!Wins, Leaders!Idle
<1>15. ASSUME NEW p \in Pods, NEW c \in LeaderCalls, Leaders!GetRuns(p, c) PROVE key' = q
  BY <1>15 DEF Leaders!GetRuns, Leaders!local, Leaders!timers
<1>16. ASSUME NEW p \in Pods, NEW c \in LeaderCalls, Leaders!Learns(p, c) PROVE key' = q
  BY <1>16 DEF Leaders!Learns, Leaders!Idle
<1>17. ASSUME NEW p \in Pods, NEW c \in LeaderCalls, Leaders!ElectionFails(p, c) PROVE key' = q
  BY <1>17 DEF Leaders!ElectionFails, Leaders!local, Leaders!timers, Leaders!Idle
<1>18. CASE UNCHANGED Leaders!vars
  BY <1>18 DEF Leaders!vars, Leaders!local, Leaders!timers
<1> QED BY <1>1, <1>2, <1>3, <1>4, <1>5, <1>6, <1>7, <1>8, <1>9, <1>10, <1>11, <1>12, <1>13,
           <1>14, <1>15, <1>16, <1>17, <1>18 DEF Leaders!Next

\* It holds at the start.
LEMMA CoordinatorStart ==
  ASSUME NoPodIsNone, Leaders!Init
  PROVE  CoordinatorInv
<1>1. Leaders!TypeOK
  <2>1. beats \in Counts /\ follows \in Counts /\ expiries \in Counts /\ retries \in Counts
    BY DEF NoPodIsNone, Leaders!Init, Counts
  <2>2. election \in [Pods -> [LeaderCalls -> Election]]
    BY DEF Leaders!Init, Leaders!Idle, Leaders!Stages, Election
  <2>3. /\ status \in [Pods -> {"new", "connected", "failed", "crashed"}]
        /\ isLeader \in [Pods -> BOOLEAN]
        /\ info \in [Pods -> Pods \cup {Nil}]
        /\ handle \in [Pods -> {"none", "timeout", "interval"}]
        /\ beat \in [Pods -> {"none", "sent", "run"}]
    BY DEF Leaders!Init
  <2>4. key = Nil /\ lapsed = FALSE /\ faults = 0
    BY DEF Leaders!Init
  <2>5. faults \in 0 .. LeaderFaults
    BY <2>4 DEF NoPodIsNone
  <2> QED BY <2>1, <2>2, <2>3, <2>4, <2>5 DEF Leaders!TypeOK, Counts, Election
<1>2. HoldersHoldTheKey
  BY DEF Leaders!Init, HoldersHoldTheKey, Holds, Leaders!Idle
<1> QED BY <1>1, <1>2 DEF CoordinatorInv

\* Every step keeps it.
LEMMA CoordinatorStep ==
  ASSUME NoPodIsNone, CoordinatorInv, [Leaders!Next]_(Leaders!vars)
  PROVE  CoordinatorInv'
  BY TypeStep, KeyStep DEF CoordinatorInv

\* The invariant holds in every reachable state.
LEMMA CoordinatorInvAlways ==
  ASSUME NoPodIsNone
  PROVE  Leaders!Spec => []CoordinatorInv
  BY CoordinatorStart, CoordinatorStep, PTL DEF Leaders!Spec

-----------------------------------------------------------------------------
\* In lib/coordination/pod-coordinator.ts whoever takes itself for the leader owns the
\* key in Redis, however many pods elect, resign, retry, crash and lose answers, until
\* a lease runs out under a pod that counts on it.
THEOREM LeadersHoldTheKeyAlways ==
  ASSUME NoPodIsNone
  PROVE  Leaders!Spec => []Leaders!LeadersHoldTheKey
<1>1. CoordinatorInv => Leaders!LeadersHoldTheKey
  BY DEF CoordinatorInv, HoldersHoldTheKey, Holds, Leaders!LeadersHoldTheKey
<1> QED BY <1>1, CoordinatorInvAlways, PTL

\* So there is one leader at a time, while no lease runs out.
THEOREM OneLeaderAlways ==
  ASSUME NoPodIsNone
  PROVE  Leaders!Spec => [](~lapsed => \A p, q \in Pods : isLeader[p] /\ isLeader[q] => p = q)
<1>1. CoordinatorInv => (~lapsed => \A p, q \in Pods : isLeader[p] /\ isLeader[q] => p = q)
  BY DEF CoordinatorInv, HoldersHoldTheKey, Holds
<1> QED BY <1>1, CoordinatorInvAlways, PTL

-----------------------------------------------------------------------------
(* In MCBackground's composition.                                            *)

\* Which component moves never changes, and the coordinator moves by its own steps.
LEMMA CoordinatorMoves ==
  ASSUME [MCNext]_all
  PROVE  part' = part /\ (part = "coordinator" => [Leaders!Next]_(Leaders!vars))
  BY DEF MCNext, all, rest1, Leaders!vars, Leaders!local, Leaders!timers

\* A leader owns the key in the composition that MCBackground checks.
THEOREM LeadersHoldTheKeyComposed ==
  ASSUME NoPodIsNone
  PROVE  MCSpec => []LeadersHoldTheKey
<1> DEFINE Inv == part = "coordinator" => CoordinatorInv
<1>1. MCInit => Inv
  BY CoordinatorStart DEF MCInit
<1>2. Inv /\ [MCNext]_all => Inv'
  BY CoordinatorMoves, CoordinatorStep
<1>3. Inv => LeadersHoldTheKey
  BY DEF LeadersHoldTheKey, Leaders!LeadersHoldTheKey, CoordinatorInv, HoldersHoldTheKey, Holds
<1> QED BY <1>1, <1>2, <1>3, PTL DEF MCSpec

-----------------------------------------------------------------------------
(* The job scheduler (lib/jobs/memory-job-scheduler.ts), the instance Schedules. *)

Job == [id : JobIds, at : Nat, every : Nat, max : Nat, due : Nat, far : BOOLEAN,
        status : Schedules!Statuses, running : Nat]

\* null is neither a job nor one's name, undefined no time, and times are numbers.
NoJobIsNone ==
  /\ Nil \notin Job /\ Nil \notin JobRefs /\ NoTime \notin Nat
  /\ JobSpecs \in SUBSET [at : Nat, every : Nat, max : Nat]
  /\ TimerRange \in Nat /\ MaxCopies \in Nat

MayTime == Nat \cup {NoTime}

JobShapes ==
  /\ clock \in Nat /\ checkAt \in MayTime
  /\ objs \in [JobRefs -> Job \cup {Nil}] /\ jobs \in [JobIds -> JobRefs \cup {Nil}]
  /\ timer \in [JobRefs -> MayTime] /\ interval \in [JobRefs -> MayTime]
  /\ counted \in [JobRefs -> MayTime]
  /\ count \in [JobRefs -> Nat] /\ starts \in [JobRefs -> Nat] /\ copies \in [JobRefs -> Nat]
  /\ cancelled \in SUBSET JobRefs

\* The map leads from an id to an object of that id.
MapOK == \A i \in JobIds : jobs[i] # Nil => objs[jobs[i]] # Nil /\ objs[jobs[i]].id = i

InMap(r) == \E i \in JobIds : jobs[i] = r

\* An object that was not created yet has no timers and no past.
NotYet(r) ==
  objs[r] = Nil =>
    /\ timer[r] = NoTime /\ interval[r] = NoTime /\ counted[r] = NoTime
    /\ count[r] = 0 /\ starts[r] = 0 /\ copies[r] = 0
    /\ r \notin cancelled /\ ~InMap(r)

\* A timer is set for the time of its job, and goes only by firing or by being
\* cleared.
TimerOK(r) ==
  /\ timer[r] # NoTime => /\ objs[r].at # 0 /\ timer[r] <= objs[r].due
                          /\ objs[r].at <= timer[r] \/ objs[r].far
  /\ starts[r] > 0 => objs[r].at <= clock \/ objs[r].far
  /\ objs[r].at # 0 => /\ timer[r] # NoTime \/ starts[r] > 0 \/ r \in cancelled
                       /\ objs[r].due < clock => starts[r] > 0 \/ r \in cancelled

\* The two intervals of a bounded recurring job run in step: one of them is ahead
\* only while the other is due, and they end together, when all recurrences are
\* counted.
InStep(r) ==
  /\ objs[r].max = 0 => counted[r] = NoTime
  /\ objs[r].max > 0 /\ r \notin cancelled =>
       IF counted[r] = NoTime
       THEN /\ interval[r] = NoTime
            /\ objs[r].every > 0 => count[r] = objs[r].max /\ ~InMap(r)
       ELSE /\ count[r] < objs[r].max /\ objs[r].every > 0
            /\ \/ interval[r] = counted[r]
               \/ counted[r] <= clock /\ interval[r] = clock + objs[r].every

\* What was cancelled has no timer, no place in the map, and no interval but the one
\* that runs beside the counting one.
Quiet(r) ==
  r \in cancelled =>
    /\ timer[r] = NoTime /\ counted[r] = NoTime /\ ~InMap(r)
    /\ objs[r].max = 0 => interval[r] = NoTime

JobOK(r) == NotYet(r) /\ (objs[r] # Nil => TimerOK(r) /\ InStep(r)) /\ Quiet(r)

SchedulerInv == JobShapes /\ MapOK /\ \A r \in JobRefs : JobOK(r)

\* A step that leaves a job's times, counts and place alone, or takes its place,
\* leaves it in order.
KeepsPlan(r) ==
  /\ objs'[r] = Nil <=> objs[r] = Nil
  /\ objs[r] # Nil => /\ objs'[r].id = objs[r].id /\ objs'[r].at = objs[r].at
                      /\ objs'[r].every = objs[r].every /\ objs'[r].max = objs[r].max
                      /\ objs'[r].due = objs[r].due /\ objs'[r].far = objs[r].far

\* A job whose places a step does not touch stays sound.
LEMMA LeftAlone ==
  ASSUME NEW r \in JobRefs, JobShapes, JobOK(r), KeepsPlan(r), clock' = clock,
         timer'[r] = timer[r], interval'[r] = interval[r], counted'[r] = counted[r],
         count'[r] = count[r], starts'[r] = starts[r], copies'[r] = copies[r],
         r \in cancelled' <=> r \in cancelled,
         InMap(r)' => InMap(r)
  PROVE  JobOK(r)'
<1>1. NotYet(r)'
  BY DEF JobOK, NotYet, KeepsPlan
<1>2. Quiet(r)'
  BY DEF JobOK, NotYet, Quiet, KeepsPlan
<1>3. ASSUME objs'[r] # Nil PROVE TimerOK(r)' /\ InStep(r)'
  <2>0. objs[r] # Nil
    BY <1>3 DEF KeepsPlan
  <2>1. TimerOK(r)'
    BY <2>0 DEF JobOK, TimerOK, KeepsPlan
  <2>2. InStep(r)'
    BY <2>0 DEF JobOK, InStep, KeepsPlan
  <2> QED BY <2>1, <2>2
<1> QED BY <1>1, <1>2, <1>3 DEF JobOK

\* What is cleared, and leaves the map, is quiet.
LEMMA ClearedIsQuiet ==
  ASSUME NEW r \in JobRefs, JobShapes, JobOK(r), objs[r] # Nil, UNCHANGED <<clock, objs>>,
         timer'[r] = NoTime, counted'[r] = NoTime,
         interval'[r] = IF counted[r] = NoTime THEN NoTime ELSE interval[r],
         count'[r] = count[r], starts'[r] = starts[r], copies'[r] = copies[r],
         r \in cancelled', ~InMap(r)'
  PROVE  JobOK(r)'
<1>1. NotYet(r)' /\ Quiet(r)'
  BY DEF JobOK, NotYet, Quiet, InStep
<1>2. TimerOK(r)' /\ InStep(r)'
  BY DEF JobOK, TimerOK, InStep
<1> QED BY <1>1, <1>2 DEF JobOK

\* Clearing a set of jobs and taking them out of the map cancels them.
LEMMA ClearsKeeps ==
  ASSUME NoJobIsNone, SchedulerInv, NEW S \in SUBSET JobRefs,
         \A r \in S : objs[r] # Nil,
         Schedules!Clears(S), cancelled' = cancelled \cup S,
         jobs' \in [JobIds -> JobRefs \cup {Nil}],
         \A i \in JobIds : jobs'[i] # Nil => jobs'[i] = jobs[i] /\ jobs[i] \notin S,
         checkAt' \in MayTime,
         UNCHANGED <<clock, objs, count, starts, copies>>
  PROVE  SchedulerInv'
<1> USE DEF SchedulerInv
<1>1. JobShapes'
  BY DEF Schedules!Clears, JobShapes, MayTime
<1>2. MapOK'
  BY DEF MapOK
<1>3. ASSUME NEW r \in JobRefs PROVE JobOK(r)'
  <2>1. CASE r \in S
    <3>1. ~InMap(r)'
      BY <2>1 DEF InMap, NoJobIsNone
    <3>2. /\ timer'[r] = NoTime /\ counted'[r] = NoTime
          /\ interval'[r] = IF counted[r] = NoTime THEN NoTime ELSE interval[r]
      BY <2>1 DEF Schedules!Clears
    <3> QED BY <2>1, <3>1, <3>2, ClearedIsQuiet
  <2>2. CASE r \notin S
    <3>1. timer'[r] = timer[r] /\ counted'[r] = counted[r] /\ interval'[r] = interval[r]
      BY <2>2 DEF Schedules!Clears, JobShapes
    <3>2. InMap(r)' => InMap(r)
      BY DEF InMap, NoJobIsNone
    <3>3. KeepsPlan(r)
      BY DEF KeepsPlan
    <3> QED BY <2>2, <3>1, <3>2, <3>3, LeftAlone
  <2> QED BY <2>1, <2>2
<1> QED BY <1>1, <1>2, <1>3

\* unscheduleJob clears the timers of the job it takes out of the map.
LEMMA UnscheduleKeeps ==
  ASSUME NoJobIsNone, SchedulerInv, NEW i \in JobIds, Schedules!Unschedule(i)
  PROVE  SchedulerInv'
<1>1. /\ jobs[i] \in JobRefs /\ objs[jobs[i]] # Nil
      /\ \A j \in JobIds : jobs[j] = jobs[i] => j = i
  BY DEF SchedulerInv, JobShapes, MapOK, Schedules!Unschedule
<1>2. /\ Schedules!Clears({jobs[i]}) /\ cancelled' = cancelled \cup {jobs[i]}
      /\ jobs' = [jobs EXCEPT ![i] = Nil]
      /\ UNCHANGED <<clock, objs, count, starts, copies>> /\ checkAt' = checkAt
  BY DEF Schedules!Unschedule, Schedules!executions
<1>3. /\ jobs' \in [JobIds -> JobRefs \cup {Nil}]
      /\ \A j \in JobIds : jobs'[j] # Nil => jobs'[j] = jobs[j] /\ jobs[j] \notin {jobs[i]}
  BY <1>1, <1>2 DEF SchedulerInv, JobShapes
<1>4. checkAt' \in MayTime
  BY <1>2 DEF SchedulerInv, JobShapes
<1> QED BY <1>1, <1>2, <1>3, <1>4, ClearsKeeps

\* stop clears the timers of all jobs in the map.
LEMMA StopKeeps ==
  ASSUME NoJobIsNone, SchedulerInv, Schedules!Stop
  PROVE  SchedulerInv'
<1> DEFINE S == Schedules!Mapped
<1>1. S \in SUBSET JobRefs /\ \A r \in S : objs[r] # Nil
  BY DEF SchedulerInv, JobShapes, MapOK, Schedules!Mapped
<1>2. /\ Schedules!Clears(S) /\ cancelled' = cancelled \cup S
      /\ jobs' = [i \in JobIds |-> Nil] /\ checkAt' = NoTime
      /\ UNCHANGED <<clock, objs, count, starts, copies>>
  BY DEF Schedules!Stop, Schedules!executions
<1>3. /\ jobs' \in [JobIds -> JobRefs \cup {Nil}] /\ checkAt' \in MayTime
      /\ \A i \in JobIds : jobs'[i] # Nil => jobs'[i] = jobs[i] /\ jobs[i] \notin S
  BY <1>2 DEF MayTime
<1> QED BY <1>1, <1>2, <1>3, ClearsKeeps

\* A new job has its timer, its place in the map, and its intervals in step.
LEMMA ScheduleKeeps ==
  ASSUME NoJobIsNone, SchedulerInv, NEW i \in JobIds, NEW r \in JobRefs, NEW s \in JobSpecs,
         Schedules!Schedule(i, r, s)
  PROVE  SchedulerInv'
<1> DEFINE job == [id |-> i, at |-> s.at, every |-> s.every, max |-> s.max,
                   due |-> clock + (IF s.at > clock THEN s.at - clock ELSE 0),
                   far |-> s.at > clock + TimerRange, status |-> "pending", running |-> 0]
<1>1. /\ s.at \in Nat /\ s.every \in Nat /\ s.max \in Nat /\ clock \in Nat /\ TimerRange \in Nat
      /\ r # Nil /\ NoTime \notin Nat
  BY DEF NoJobIsNone, SchedulerInv, JobShapes
<1>2. /\ jobs[i] = Nil /\ objs[r] = Nil
      /\ objs' = [objs EXCEPT ![r] = job] /\ jobs' = [jobs EXCEPT ![i] = r]
      /\ timer' = IF s.at = 0 THEN timer ELSE [timer EXCEPT ![r] = clock + Schedules!Delay(s.at)]
      /\ interval' = IF s.every = 0 THEN interval ELSE [interval EXCEPT ![r] = clock + s.every]
      /\ counted' = IF s.every = 0 \/ s.max = 0 THEN counted
                    ELSE [counted EXCEPT ![r] = clock + s.every]
      /\ UNCHANGED <<clock, checkAt, count, starts, copies, cancelled>>
  BY DEF Schedules!Schedule, Schedules!executions
<1>3. job \in Job /\ job # Nil
  <2>1. job.due \in Nat
    BY <1>1
  <2>2. job \in Job
    BY <1>1, <2>1 DEF Job, Schedules!Statuses
  <2> QED BY <2>2 DEF NoJobIsNone
<1>4. /\ Schedules!Delay(s.at) \in Nat
      /\ s.at <= clock \/ s.at - clock > TimerRange => Schedules!Delay(s.at) = 0
      /\ ~(s.at <= clock \/ s.at - clock > TimerRange) => Schedules!Delay(s.at) = s.at - clock
  BY <1>1 DEF Schedules!Delay
<1>5. /\ job.id = i /\ job.at = s.at /\ job.every = s.every /\ job.max = s.max
      /\ job.due = (IF s.at > clock THEN s.at ELSE clock)
      /\ job.far = (s.at > clock + TimerRange)
  BY <1>1
<1> HIDE DEF job
<1>6. JobShapes'
  BY <1>1, <1>2, <1>3, <1>4 DEF SchedulerInv, JobShapes, MayTime
<1>7. MapOK'
  BY <1>1, <1>2, <1>3, <1>5 DEF SchedulerInv, JobShapes, MapOK
<1>8. ASSUME NEW q \in JobRefs PROVE JobOK(q)'
  <2>1. CASE q = r
    <3>1. NotYet(r) /\ r \notin cancelled /\ JobOK(r)
      BY <1>2 DEF SchedulerInv, JobOK, NotYet
    <3>2. /\ objs'[r] = job /\ starts'[r] = 0 /\ copies'[r] = 0 /\ count'[r] = 0
          /\ r \notin cancelled'
          /\ timer'[r] = IF s.at = 0 THEN NoTime ELSE clock + Schedules!Delay(s.at)
          /\ interval'[r] = IF s.every = 0 THEN NoTime ELSE clock + s.every
          /\ counted'[r] = IF s.every = 0 \/ s.max = 0 THEN NoTime ELSE clock + s.every
      BY <1>2, <3>1 DEF SchedulerInv, JobShapes, NotYet
    <3>3. NotYet(r)' /\ Quiet(r)'
      BY <1>3, <3>2 DEF NotYet, Quiet
    <3>5. TimerOK(r)'
      <4>1. CASE s.at = 0
        <5>1. clock' = clock /\ timer'[r] = NoTime
          BY <1>2, <3>2, <4>1
        <5> QED BY <1>1, <1>5, <3>2, <4>1, <5>1 DEF TimerOK
      <4>2. CASE s.at # 0
        <5> DEFINE t == clock + Schedules!Delay(s.at)
        <5>1. t \in Nat /\ t <= job.due /\ (s.at <= t \/ job.far)
          <6>1. CASE s.at <= clock
            <7>1. t = clock /\ job.due = clock
              BY <1>1, <1>4, <1>5, <6>1
            <7> QED BY <1>1, <6>1, <7>1
          <6>2. CASE ~(s.at <= clock) /\ s.at - clock > TimerRange
            <7>1. t = clock /\ job.due = s.at
              BY <1>1, <1>4, <1>5, <6>2
            <7>2. s.at > clock + TimerRange
              BY <1>1, <6>2
            <7>3. job.far
              BY <1>5, <7>2
            <7> QED BY <1>1, <6>2, <7>1, <7>3
          <6>3. CASE ~(s.at <= clock) /\ ~(s.at - clock > TimerRange)
            <7>1. t = s.at /\ job.due = s.at
              BY <1>1, <1>4, <1>5, <6>3
            <7> QED BY <1>1, <6>3, <7>1
          <6> QED BY <6>1, <6>2, <6>3
        <5>2. timer'[r] = t /\ t # NoTime /\ clock' = clock
          BY <1>1, <1>2, <3>2, <4>2, <5>1
        <5>3. ~(job.due < clock)
          BY <1>1, <1>5
        <5> HIDE DEF t
        <5> QED BY <1>5, <3>2, <4>2, <5>1, <5>2, <5>3 DEF TimerOK
      <4> QED BY <4>1, <4>2
    <3>6. InStep(r)'
      BY <1>1, <1>5, <3>2 DEF InStep
    <3> QED BY <2>1, <3>3, <3>5, <3>6 DEF JobOK
  <2>2. CASE q # r
    <3>1. /\ objs'[q] = objs[q] /\ timer'[q] = timer[q] /\ interval'[q] = interval[q]
          /\ counted'[q] = counted[q]
      BY <1>2, <2>2 DEF SchedulerInv, JobShapes
    <3>2. InMap(q)' => InMap(q)
      BY <1>2, <2>2 DEF SchedulerInv, JobShapes, InMap
    <3>3. JobShapes /\ JobOK(q) /\ KeepsPlan(q)
      BY <3>1 DEF SchedulerInv, KeepsPlan
    <3> QED BY <1>2, <3>1, <3>2, <3>3, LeftAlone
  <2> QED BY <2>1, <2>2
<1> QED BY <1>6, <1>7, <1>8 DEF SchedulerInv

\* A job whose status and executions change is still one.
LEMMA JobChanges ==
  ASSUME NEW job \in Job, NEW status2 \in Schedules!Statuses, NEW n \in Nat
  PROVE  [job EXCEPT !.status = status2, !.running = n] \in Job
<1>1. [job EXCEPT !.status = status2] \in Job
  BY DEF Job
<1> DEFINE mid == [job EXCEPT !.status = status2]
<1>2. [job EXCEPT !.status = status2, !.running = n] = [mid EXCEPT !.running = n]
  OBVIOUS
<1> HIDE DEF mid
<1>3. [mid EXCEPT !.running = n] \in Job
  BY <1>1 DEF Job, mid
<1> QED BY <1>2, <1>3

\* Executing jobs changes nothing of their plan.
LEMMA ExecutesDoes ==
  ASSUME NoJobIsNone, JobShapes, NEW S \in SUBSET JobRefs, \A r \in S : objs[r] # Nil,
         Schedules!Executes(S)
  PROVE  /\ objs' \in [JobRefs -> Job \cup {Nil}] /\ starts' \in [JobRefs -> Nat]
         /\ \A r \in JobRefs : KeepsPlan(r) /\ starts'[r] = IF r \in S THEN starts[r] + 1 ELSE starts[r]
<1>1. /\ objs' = [r \in JobRefs |-> IF r \notin S THEN objs[r]
                     ELSE [objs[r] EXCEPT !.status = "running", !.running = @ + 1]]
      /\ starts' = [r \in JobRefs |-> IF r \in S THEN starts[r] + 1 ELSE starts[r]]
  BY DEF Schedules!Executes
<1>2. ASSUME NEW r \in S
      PROVE  objs'[r] \in Job /\ KeepsPlan(r)
  <2>1. objs[r] \in Job
    BY DEF JobShapes
  <2>2. objs'[r] = [objs[r] EXCEPT !.status = "running", !.running = objs[r].running + 1]
    BY <1>1
  <2>3. objs'[r] \in Job
    <3> DEFINE job == objs[r]
               n == objs[r].running + 1
    <3>1. job \in Job /\ n \in Nat /\ "running" \in Schedules!Statuses
      BY <2>1 DEF Job, Schedules!Statuses
    <3>2. objs'[r] = [job EXCEPT !.status = "running", !.running = n]
      BY <2>2
    <3> HIDE DEF job, n
    <3>3. [job EXCEPT !.status = "running", !.running = n] \in Job
      BY <3>1, JobChanges
    <3> QED
      BY <3>2, <3>3
  <2>4. objs'[r] # Nil
    BY <2>3 DEF NoJobIsNone
  <2> QED BY <2>1, <2>2, <2>3, <2>4 DEF KeepsPlan, Job
<1>3. \A r \in JobRefs : r \notin S => objs'[r] = objs[r] /\ KeepsPlan(r)
  BY <1>1 DEF KeepsPlan
<1>4. objs' \in [JobRefs -> Job \cup {Nil}]
  BY <1>1, <1>2, <1>3 DEF JobShapes
<1>5. starts' \in [JobRefs -> Nat]
  <2>1. \A r \in JobRefs : starts[r] + 1 \in Nat /\ starts[r] \in Nat
    BY DEF JobShapes
  <2> QED BY <1>1, <2>1
<1> QED BY <1>1, <1>2, <1>3, <1>4, <1>5

\* A plan that is kept keeps the map right.
LEMMA MapStays ==
  ASSUME SchedulerInv, \A r \in JobRefs : KeepsPlan(r),
         \A i \in JobIds : jobs'[i] # Nil => jobs'[i] = jobs[i]
  PROVE  MapOK'
  BY DEF SchedulerInv, JobShapes, MapOK, KeepsPlan

\* A timer that fires starts its job once.
LEMMA TimerFiresKeeps ==
  ASSUME NoJobIsNone, SchedulerInv, NEW r \in JobRefs, Schedules!TimerFires(r)
  PROVE  SchedulerInv'
<1>1. /\ timer[r] # NoTime /\ timer[r] <= clock
      /\ timer' = [timer EXCEPT ![r] = NoTime] /\ Schedules!Executes({r})
      /\ UNCHANGED <<clock, jobs, checkAt, interval, counted, count, copies, cancelled>>
  BY DEF Schedules!TimerFires, Schedules!Due
<1>2. JobShapes /\ JobOK(r) /\ objs[r] # Nil
  BY <1>1 DEF SchedulerInv, JobOK, NotYet
<1>3. /\ objs' \in [JobRefs -> Job \cup {Nil}] /\ starts' \in [JobRefs -> Nat]
      /\ \A q \in JobRefs : KeepsPlan(q) /\ starts'[q] = IF q = r THEN starts[q] + 1 ELSE starts[q]
  BY <1>1, <1>2, ExecutesDoes
<1>4. JobShapes'
  BY <1>1, <1>3 DEF SchedulerInv, JobShapes, MayTime
<1>5. MapOK'
  BY <1>1, <1>3, MapStays
<1>6. \A q \in JobRefs : InMap(q)' <=> InMap(q)
  BY <1>1 DEF InMap
<1>7. ASSUME NEW q \in JobRefs PROVE JobOK(q)'
  <2>1. CASE q = r
    <3>1. /\ objs'[r] # Nil /\ timer'[r] = NoTime /\ starts'[r] = starts[r] + 1 /\ starts[r] \in Nat
          /\ objs'[r].at = objs[r].at /\ objs'[r].every = objs[r].every
          /\ objs'[r].max = objs[r].max /\ objs'[r].due = objs[r].due
          /\ objs'[r].far = objs[r].far
      BY <1>1, <1>2, <1>3 DEF KeepsPlan, JobShapes
    <3>2. r \notin cancelled
      BY <1>1, <1>2 DEF JobOK, Quiet
    <3>3. NotYet(r)' /\ Quiet(r)'
      BY <1>1, <3>1, <3>2 DEF NotYet, Quiet
    <3>5. objs[r].at \in Nat /\ clock \in Nat /\ timer[r] \in Nat
      BY <1>1, <1>2 DEF JobShapes, Job, MayTime
    <3>6. TimerOK(r)'
      BY <1>1, <1>2, <3>1, <3>5 DEF JobOK, TimerOK
    <3>7. InStep(r)'
      BY <1>1, <1>2, <1>6, <3>1 DEF JobOK, InStep
    <3> QED BY <2>1, <3>3, <3>6, <3>7 DEF JobOK
  <2>2. CASE q # r
    <3>1. timer'[q] = timer[q] /\ starts'[q] = starts[q]
      BY <1>1, <1>3, <2>2 DEF SchedulerInv, JobShapes
    <3>2. JobShapes /\ JobOK(q)
      BY DEF SchedulerInv
    <3> QED BY <1>1, <1>3, <1>6, <3>1, <3>2, LeftAlone
  <2> QED BY <2>1, <2>2
<1> QED BY <1>4, <1>5, <1>7 DEF SchedulerInv

\* The check starts what is due and takes it out of the map.
LEMMA CheckKeeps ==
  ASSUME NoJobIsNone, SchedulerInv, Schedules!Check
  PROVE  SchedulerInv'
<1> DEFINE once == {r \in Schedules!DueJobs : objs[r].every = 0}
<1>1. /\ Schedules!Executes(once)
      /\ jobs' = [i \in JobIds |-> IF jobs[i] \in once THEN Nil ELSE jobs[i]]
      /\ checkAt' = clock + 1
      /\ UNCHANGED <<clock, timer, interval, counted, count, copies, cancelled>>
  BY DEF Schedules!Check
<1>2. JobShapes /\ \A r \in JobRefs : JobOK(r)
  BY DEF SchedulerInv
<1>3. \A r \in once : /\ r \in JobRefs /\ objs[r] # Nil /\ InMap(r)
                      /\ objs[r].at # 0 /\ objs[r].at <= clock
  BY DEF SchedulerInv, JobShapes, MapOK, InMap, Schedules!DueJobs, Schedules!Mapped
<1> HIDE DEF once
<1>4. /\ objs' \in [JobRefs -> Job \cup {Nil}] /\ starts' \in [JobRefs -> Nat]
      /\ \A q \in JobRefs : KeepsPlan(q) /\ starts'[q] = IF q \in once THEN starts[q] + 1 ELSE starts[q]
  <2>1. once \in SUBSET JobRefs
    BY <1>3
  <2> QED BY <1>1, <1>2, <1>3, <2>1, ExecutesDoes
<1>5. JobShapes'
  <2>1. checkAt' \in Nat
    BY <1>1, <1>2 DEF JobShapes
  <2>2. jobs' \in [JobIds -> JobRefs \cup {Nil}]
    BY <1>1, <1>2 DEF JobShapes
  <2> QED BY <1>1, <1>2, <1>4, <2>1, <2>2 DEF JobShapes, MayTime
<1>6. MapOK'
  BY <1>1, <1>4, MapStays
<1>7. ASSUME NEW q \in JobRefs PROVE JobOK(q)'
  <2>0. q # Nil
    BY DEF NoJobIsNone
  <2>1. CASE q \in once
    <3>1. /\ objs[q] # Nil /\ objs'[q] # Nil /\ starts'[q] = starts[q] + 1 /\ starts[q] \in Nat
          /\ objs'[q].at = objs[q].at /\ objs'[q].every = objs[q].every
          /\ objs'[q].max = objs[q].max /\ objs'[q].due = objs[q].due
          /\ objs'[q].far = objs[q].far
      BY <1>2, <1>3, <1>4, <2>1 DEF KeepsPlan, JobShapes
    <3>2. InMap(q) /\ ~InMap(q)' /\ q \notin cancelled /\ JobOK(q)
      <4>1. ~InMap(q)'
        BY <1>1, <2>0, <2>1 DEF InMap
      <4> QED BY <1>2, <1>3, <2>1, <4>1 DEF JobOK, Quiet
    <3>3. NotYet(q)' /\ Quiet(q)'
      BY <1>1, <3>1, <3>2 DEF NotYet, Quiet
    <3>5. TimerOK(q)'
      BY <1>1, <1>3, <2>1, <3>1, <3>2 DEF JobOK, TimerOK
    <3>6. InStep(q)'
      BY <1>1, <3>1, <3>2 DEF JobOK, InStep
    <3> QED BY <3>3, <3>5, <3>6 DEF JobOK
  <2>2. CASE q \notin once
    <3>1. starts'[q] = starts[q] /\ KeepsPlan(q)
      BY <1>4, <2>2
    <3>2. InMap(q)' => InMap(q)
      BY <1>1, <2>0 DEF InMap
    <3> QED BY <1>1, <1>2, <3>1, <3>2, LeftAlone
  <2> QED BY <2>1, <2>2
<1> QED BY <1>5, <1>6, <1>7 DEF SchedulerInv

\* The end of an execution changes nothing of the plan either.
LEMMA ExecutionEndsKeeps ==
  ASSUME NoJobIsNone, SchedulerInv, NEW r \in JobRefs, Schedules!ExecutionEnds(r)
  PROVE  SchedulerInv'
<1>1. /\ objs[r] # Nil /\ objs[r].running > 0
      /\ objs' = [objs EXCEPT ![r].status = "completed", ![r].running = @ - 1]
      /\ UNCHANGED <<clock, checkAt, jobs, timer, interval, counted, count, starts, copies, cancelled>>
  BY DEF Schedules!ExecutionEnds, Schedules!Live, Schedules!timers, Schedules!executions
<1>2. JobShapes /\ \A q \in JobRefs : JobOK(q)
  BY DEF SchedulerInv
<1>3. objs[r] \in Job
  BY <1>1, <1>2 DEF JobShapes
<1> DEFINE ended == [objs[r] EXCEPT !.status = "completed", !.running = objs[r].running - 1]
<1>4. objs' = [objs EXCEPT ![r] = ended]
  BY <1>1, <1>2 DEF JobShapes
<1>5. ended \in Job
  <2>1. objs[r].running - 1 \in Nat /\ "completed" \in Schedules!Statuses
    BY <1>1, <1>3 DEF Job, Schedules!Statuses
  <2> QED BY <1>3, <2>1, JobChanges
<1>6. /\ ended.id = objs[r].id /\ ended.at = objs[r].at /\ ended.every = objs[r].every
      /\ ended.max = objs[r].max /\ ended.due = objs[r].due /\ ended.far = objs[r].far
  BY <1>3 DEF Job
<1>7. ended # Nil
  BY <1>5 DEF NoJobIsNone
<1> HIDE DEF ended
<1>8. \A q \in JobRefs : KeepsPlan(q)
  BY <1>1, <1>2, <1>4, <1>6, <1>7 DEF KeepsPlan, JobShapes
<1>9. JobShapes'
  BY <1>1, <1>2, <1>4, <1>5 DEF JobShapes
<1>10. MapOK'
  BY <1>1, <1>8, MapStays
<1>11. \A q \in JobRefs : InMap(q)' <=> InMap(q)
  BY <1>1 DEF InMap
<1>12. \A q \in JobRefs : JobOK(q)'
  BY <1>1, <1>2, <1>8, <1>11, LeftAlone
<1> QED BY <1>9, <1>10, <1>12 DEF SchedulerInv

\* Of the two intervals that are due the first gets ahead.
LEMMA IntervalFiresKeeps ==
  ASSUME NoJobIsNone, SchedulerInv, NEW r \in JobRefs, Schedules!IntervalFires(r)
  PROVE  SchedulerInv'
<1>1. /\ interval[r] # NoTime /\ interval[r] <= clock
      /\ interval' = [interval EXCEPT ![r] = clock + objs[r].every]
      /\ copies' = [copies EXCEPT ![r] = Schedules!AtMost(@ + 1, MaxCopies)]
      /\ UNCHANGED <<clock, objs, jobs, checkAt, timer, counted, count, starts, cancelled>>
  BY DEF Schedules!IntervalFires, Schedules!Due, Schedules!CopyStarts
<1>2. JobShapes /\ JobOK(r) /\ objs[r] # Nil
  BY <1>1 DEF SchedulerInv, JobOK, NotYet
<1>3. /\ objs[r].every \in Nat /\ objs[r].max \in Nat /\ clock \in Nat /\ interval[r] \in Nat
      /\ copies[r] \in Nat /\ count[r] \in Nat /\ MaxCopies \in Nat /\ starts[r] \in Nat
      /\ counted[r] \in MayTime
  BY <1>1, <1>2 DEF JobShapes, Job, MayTime, NoJobIsNone
<1> DEFINE more == Schedules!AtMost(copies[r] + 1, MaxCopies)
<1>4. more \in Nat
  BY <1>3 DEF Schedules!AtMost
<1>5. copies' = [copies EXCEPT ![r] = more]
  BY <1>1
<1> HIDE DEF more
<1>6. JobShapes'
  BY <1>1, <1>2, <1>3, <1>4, <1>5 DEF JobShapes, MayTime
<1>7. MapOK' /\ \A q \in JobRefs : InMap(q)' <=> InMap(q)
  BY <1>1 DEF SchedulerInv, MapOK, InMap
<1>8. ASSUME NEW q \in JobRefs PROVE JobOK(q)'
  <2>1. CASE q = r
    <3>1. interval'[r] = clock + objs[r].every /\ copies'[r] = more
      BY <1>1, <1>2, <1>5 DEF JobShapes
    <3>2. NotYet(r)' /\ TimerOK(r)'
      BY <1>1, <1>2 DEF JobOK, NotYet, TimerOK
    <3>3. Quiet(r)'
      BY <1>1, <1>2, <1>7 DEF JobOK, Quiet
    <3>4. InStep(r)'
      <4>1. objs[r].max = 0 => counted[r] = NoTime
        BY <1>2 DEF JobOK, InStep
      <4>2. ASSUME objs[r].max > 0, r \notin cancelled
            PROVE  /\ counted[r] # NoTime /\ count[r] < objs[r].max /\ objs[r].every > 0
                   /\ counted[r] <= clock
        BY <1>1, <1>2, <1>3, <4>2 DEF JobOK, InStep
      <4> QED BY <1>1, <3>1, <4>1, <4>2 DEF InStep
    <3> QED BY <2>1, <3>2, <3>3, <3>4 DEF JobOK
  <2>2. CASE q # r
    <3>1. interval'[q] = interval[q] /\ copies'[q] = copies[q] /\ KeepsPlan(q)
      BY <1>1, <1>2, <1>5, <2>2 DEF JobShapes, KeepsPlan
    <3>2. JobShapes /\ JobOK(q)
      BY DEF SchedulerInv
    <3> QED BY <1>1, <1>7, <3>1, <3>2, LeftAlone
  <2> QED BY <2>1, <2>2
<1> QED BY <1>6, <1>7, <1>8 DEF SchedulerInv

\* The second counts the recurrence and catches up, or ends both.
LEMMA CountedFiresKeeps ==
  ASSUME NoJobIsNone, SchedulerInv, NEW r \in JobRefs, Schedules!CountedFires(r)
  PROVE  SchedulerInv'
<1> DEFINE next == count[r] + 1
           more == Schedules!AtMost(copies[r] + 1, MaxCopies)
<1>1. /\ counted[r] # NoTime /\ counted[r] <= clock
      /\ ~(interval[r] # NoTime /\ interval[r] <= clock)
      /\ copies' = [copies EXCEPT ![r] = more]
      /\ count' = [count EXCEPT ![r] = next]
      /\ UNCHANGED <<clock, objs, checkAt, timer, starts, cancelled>>
  BY DEF Schedules!CountedFires, Schedules!Due, Schedules!CopyStarts
<1>2. JobShapes /\ JobOK(r) /\ objs[r] # Nil
  BY <1>1 DEF SchedulerInv, JobOK, NotYet
<1>3. /\ objs[r].every \in Nat /\ objs[r].max \in Nat /\ clock \in Nat /\ counted[r] \in Nat
      /\ copies[r] \in Nat /\ count[r] \in Nat /\ MaxCopies \in Nat /\ starts[r] \in Nat
      /\ interval[r] \in MayTime /\ NoTime \notin Nat /\ objs[r].id \in JobIds
  BY <1>1, <1>2 DEF JobShapes, Job, MayTime, NoJobIsNone
<1>4. more \in Nat
  BY <1>3 DEF Schedules!AtMost
<1>5. r \notin cancelled /\ objs[r].max > 0
  <2>1. r \notin cancelled
    BY <1>1, <1>2 DEF JobOK, Quiet
  <2>2. objs[r].max # 0
    BY <1>1, <1>2 DEF JobOK, InStep
  <2> QED BY <1>3, <2>1, <2>2
<1>6. /\ count[r] < objs[r].max /\ objs[r].every > 0
      /\ interval[r] = clock + objs[r].every
  BY <1>1, <1>2, <1>3, <1>5 DEF JobOK, InStep
<1>7. count'[r] = next /\ copies'[r] = more /\ next \in Nat
  BY <1>1, <1>2, <1>3 DEF JobShapes
<1>8. \/ /\ next < objs[r].max
         /\ counted' = [counted EXCEPT ![r] = clock + objs[r].every]
         /\ UNCHANGED <<interval, jobs>>
      \/ /\ next >= objs[r].max
         /\ counted' = [counted EXCEPT ![r] = NoTime]
         /\ interval' = [interval EXCEPT ![r] = NoTime]
         /\ jobs' = [jobs EXCEPT ![objs[r].id] = Nil]
  <2>1. \/ /\ count'[r] < objs[r].max
           /\ counted' = [counted EXCEPT ![r] = clock + objs[r].every]
           /\ UNCHANGED <<interval, jobs>>
        \/ /\ count'[r] >= objs[r].max
           /\ counted' = [counted EXCEPT ![r] = NoTime]
           /\ interval' = [interval EXCEPT ![r] = NoTime]
           /\ jobs' = [jobs EXCEPT ![objs[r].id] = Nil]
    BY DEF Schedules!CountedFires, Schedules!EndsRecurrences
  <2> HIDE DEF next
  <2> QED BY <1>7, <2>1
<1>9. next <= objs[r].max
  BY <1>3, <1>6
<1> HIDE DEF next, more
<1>10. \A i \in JobIds : jobs'[i] # Nil => jobs'[i] = jobs[i]
  BY <1>2, <1>8 DEF JobShapes
<1>11. JobShapes'
  <2>1. /\ counted' \in [JobRefs -> MayTime] /\ interval' \in [JobRefs -> MayTime]
        /\ jobs' \in [JobIds -> JobRefs \cup {Nil}]
    BY <1>2, <1>3, <1>8 DEF JobShapes, MayTime
  <2> QED BY <1>1, <1>2, <1>4, <1>7, <2>1 DEF JobShapes
<1>12. MapOK'
  BY <1>1, <1>10 DEF SchedulerInv, JobShapes, MapOK
<1>13. \A q \in JobRefs : InMap(q)' => InMap(q)
  BY <1>10 DEF InMap, NoJobIsNone
<1>14. ASSUME NEW q \in JobRefs PROVE JobOK(q)'
  <2>1. CASE q = r
    <3>1. NotYet(r)' /\ Quiet(r)'
      BY <1>1, <1>2, <1>5 DEF NotYet, Quiet
    <3>2. TimerOK(r)'
      BY <1>1, <1>2, <1>3 DEF JobOK, TimerOK
    <3>3. CASE next < objs[r].max /\ counted'[r] = clock + objs[r].every /\ interval'[r] = interval[r]
      <4>1. clock + objs[r].every # NoTime
        BY <1>3
      <4> QED BY <1>1, <1>5, <1>6, <1>7, <1>9, <3>1, <3>2, <3>3, <2>1, <4>1 DEF JobOK, InStep
    <3>4. CASE /\ next >= objs[r].max /\ counted'[r] = NoTime /\ interval'[r] = NoTime
               /\ jobs' = [jobs EXCEPT ![objs[r].id] = Nil]
      <4>1. next = objs[r].max
        BY <1>3, <1>7, <1>9, <3>4
      <4>2. ~InMap(r)'
        <5>1. ASSUME NEW i \in JobIds, jobs[i] = r PROVE i = objs[r].id
          BY <5>1 DEF SchedulerInv, MapOK, NoJobIsNone
        <5>2. Nil # r
          BY DEF NoJobIsNone
        <5> QED BY <1>2, <1>3, <3>4, <5>1, <5>2 DEF InMap, JobShapes
      <4>3. InStep(r)'
        BY <1>1, <1>5, <1>7, <3>4, <4>1, <4>2 DEF InStep
      <4> QED BY <2>1, <3>1, <3>2, <4>3 DEF JobOK
    <3> QED BY <1>2, <1>8, <3>3, <3>4 DEF JobShapes
  <2>2. CASE q # r
    <3>1. /\ interval'[q] = interval[q] /\ counted'[q] = counted[q]
          /\ copies'[q] = copies[q] /\ count'[q] = count[q] /\ KeepsPlan(q)
      BY <1>1, <1>2, <1>8, <2>2 DEF JobShapes, KeepsPlan
    <3>2. JobShapes /\ JobOK(q)
      BY DEF SchedulerInv
    <3> QED BY <1>1, <1>13, <3>1, <3>2, LeftAlone
  <2> QED BY <2>1, <2>2
<1> QED BY <1>11, <1>12, <1>14 DEF SchedulerInv

\* Time goes on only when nothing is due, so that no job's time passes unnoticed.
LEMMA SchedulerTicks ==
  ASSUME NoJobIsNone, SchedulerInv, Schedules!Tick
  PROVE  SchedulerInv'
<1>1. /\ clock' = clock + 1
      /\ \A r \in JobRefs : /\ ~(timer[r] # NoTime /\ timer[r] <= clock)
                            /\ ~(counted[r] # NoTime /\ counted[r] <= clock)
      /\ UNCHANGED <<objs, jobs, checkAt, timer, interval, counted, count, starts, copies, cancelled>>
  BY DEF Schedules!Tick, Schedules!Due, Schedules!timers, Schedules!executions
<1>2. JobShapes' /\ MapOK'
  BY <1>1 DEF SchedulerInv, JobShapes, MapOK
<1>3. ASSUME NEW r \in JobRefs PROVE JobOK(r)'
  <2>1. JobShapes /\ JobOK(r) /\ clock \in Nat
    BY DEF SchedulerInv, JobShapes
  <2>2. NotYet(r)' /\ Quiet(r)'
    BY <1>1, <2>1 DEF JobOK, NotYet, Quiet, InMap
  <2>3. ASSUME objs[r] # Nil PROVE TimerOK(r)' /\ InStep(r)'
    <3>1. objs[r] \in Job /\ objs[r].at \in Nat /\ objs[r].due \in Nat
      BY <2>1, <2>3 DEF JobShapes, Job
    <3>3. timer[r] # NoTime => objs[r].due > clock
      <4>1. timer[r] # NoTime => timer[r] \in Nat /\ timer[r] <= objs[r].due
        BY <2>1, <2>3 DEF JobOK, TimerOK, JobShapes, MayTime
      <4> QED BY <1>1, <2>1, <3>1, <4>1
    <3>4. TimerOK(r)'
      BY <1>1, <2>1, <2>3, <3>1, <3>3 DEF JobOK, TimerOK
    <3>5. InStep(r)'
      BY <1>1, <2>1, <2>3 DEF JobOK, InStep, InMap
    <3> QED BY <3>4, <3>5
  <2> QED BY <1>1, <2>1, <2>2, <2>3 DEF JobOK
<1> QED BY <1>2, <1>3 DEF SchedulerInv

\* When the next check is due, if ever, concerns no job.
LEMMA StartKeeps ==
  ASSUME NoJobIsNone, SchedulerInv,
         UNCHANGED <<clock, objs, jobs, timer, interval, counted, count, starts, copies, cancelled>>,
         checkAt' \in MayTime
  PROVE  SchedulerInv'
<1>1. JobShapes' /\ MapOK'
  BY DEF SchedulerInv, JobShapes, MapOK
<1>2. ASSUME NEW r \in JobRefs PROVE JobOK(r)'
  <2>1. KeepsPlan(r) /\ (InMap(r)' => InMap(r)) /\ JobShapes /\ JobOK(r)
    BY DEF KeepsPlan, InMap, SchedulerInv
  <2> QED BY <2>1, LeftAlone
<1> QED BY <1>1, <1>2 DEF SchedulerInv

\* Every step of the scheduler keeps the invariant.
LEMMA SchedulerStep ==
  ASSUME NoJobIsNone, SchedulerInv, [Schedules!Next]_(Schedules!vars)
  PROVE  SchedulerInv'
<1>1. CASE Schedules!Start
  <2>1. clock + 1 \in MayTime
    BY DEF SchedulerInv, JobShapes, MayTime
  <2> QED BY <1>1, <2>1, StartKeeps DEF Schedules!Start, Schedules!executions
<1>2. CASE UNCHANGED Schedules!vars
  <2>1. checkAt' \in MayTime
    BY <1>2 DEF SchedulerInv, JobShapes, Schedules!vars, Schedules!timers
  <2> QED BY <1>2, <2>1, StartKeeps DEF Schedules!vars, Schedules!timers, Schedules!executions
<1> QED
  BY <1>1, <1>2, ScheduleKeeps, UnscheduleKeeps, StopKeeps, CheckKeeps, SchedulerTicks,
     TimerFiresKeeps, IntervalFiresKeeps, CountedFiresKeeps, ExecutionEndsKeeps
  DEF Schedules!Next

\* At the start nothing is scheduled.
LEMMA SchedulerStarts == ASSUME NoJobIsNone PROVE Schedules!Init => SchedulerInv
<1> SUFFICES ASSUME Schedules!Init PROVE SchedulerInv
  OBVIOUS
<1>1. /\ clock = 1 /\ checkAt = NoTime /\ cancelled = {}
      /\ objs = [r \in JobRefs |-> Nil] /\ jobs = [i \in JobIds |-> Nil]
      /\ timer = [r \in JobRefs |-> NoTime] /\ interval = timer /\ counted = timer
      /\ count = [r \in JobRefs |-> 0] /\ starts = count /\ copies = count
  BY DEF Schedules!Init
<1>2. JobShapes /\ MapOK
  BY <1>1 DEF JobShapes, MapOK, MayTime
<1>3. \A r \in JobRefs : JobOK(r)
  BY <1>1 DEF JobOK, NotYet, Quiet, InMap, NoJobIsNone
<1> QED BY <1>2, <1>3 DEF SchedulerInv

\* The invariant has every job run on time and recur as often as it should.
LEMMA SchedulerPromises ==
  ASSUME NoJobIsNone, SchedulerInv
  PROVE  Schedules!OnTime /\ Schedules!RecurrencesEnd
<1>1. \A r \in JobRefs : JobOK(r) /\ jobs \in [JobIds -> JobRefs \cup {Nil}]
  BY DEF SchedulerInv, JobShapes
<1>2. Schedules!OnTime
  BY <1>1 DEF JobOK, TimerOK, Schedules!OnTime, Schedules!Live
<1>3. Schedules!RecurrencesEnd
  <2> SUFFICES ASSUME NEW r \in JobRefs, objs[r] # Nil, objs[r].every > 0, objs[r].max > 0,
                      r \notin cancelled
               PROVE  IF count[r] < objs[r].max
                      THEN interval[r] # NoTime /\ counted[r] # NoTime
                      ELSE /\ count[r] = objs[r].max
                           /\ interval[r] = NoTime /\ counted[r] = NoTime
                           /\ r \notin Schedules!Mapped
    BY DEF Schedules!RecurrencesEnd, Schedules!Live
  <2>1. InStep(r)
    BY <1>1 DEF JobOK
  <2>2. /\ objs[r].max \in Nat /\ objs[r].every \in Nat /\ count[r] \in Nat /\ clock \in Nat
        /\ NoTime \notin Nat
    BY DEF SchedulerInv, JobShapes, Job, NoJobIsNone
  <2>3. CASE counted[r] = NoTime
    <3>1. count[r] = objs[r].max /\ interval[r] = NoTime /\ ~InMap(r)
      BY <2>1, <2>3 DEF InStep
    <3>2. r \notin Schedules!Mapped
      BY <3>1 DEF InMap, Schedules!Mapped
    <3> QED BY <2>2, <2>3, <3>1, <3>2
  <2>4. CASE counted[r] # NoTime
    <3>1. count[r] < objs[r].max /\ interval[r] # NoTime
      BY <2>1, <2>2, <2>4 DEF InStep
    <3> QED BY <2>4, <3>1
  <2> QED BY <2>3, <2>4
<1> QED BY <1>2, <1>3

\* What was cancelled does not start again.
LEMMA CancelledStaysQuiet ==
  ASSUME NoJobIsNone, SchedulerInv, [Schedules!Next]_(Schedules!vars)
  PROVE  Schedules!NoLateStart
<1> SUFFICES ASSUME NEW r \in cancelled
             PROVE  starts'[r] = starts[r] /\ (objs[r].max = 0 => copies'[r] = copies[r])
  BY DEF Schedules!NoLateStart
<1>1. /\ JobShapes /\ r \in JobRefs /\ Quiet(r)
  BY DEF SchedulerInv, JobShapes, JobOK
<1>2. ASSUME NEW q \in JobRefs, Schedules!TimerFires(q) PROVE starts'[r] = starts[r] /\ copies' = copies
  <2>1. q # r
    BY <1>1, <1>2 DEF Schedules!TimerFires, Schedules!Due, Quiet
  <2> QED BY <1>1, <1>2, <2>1 DEF Schedules!TimerFires, Schedules!Executes, JobShapes
<1>3. ASSUME Schedules!Check PROVE starts'[r] = starts[r] /\ copies' = copies
  <2>1. r \notin Schedules!DueJobs
    BY <1>1 DEF Schedules!DueJobs, Schedules!Mapped, Quiet, InMap
  <2> QED BY <1>1, <1>3, <2>1 DEF Schedules!Check, Schedules!Executes, JobShapes
<1>4. ASSUME NEW q \in JobRefs, Schedules!IntervalFires(q)
      PROVE  starts' = starts /\ (objs[r].max = 0 => copies'[r] = copies[r])
  <2>1. objs[r].max = 0 => q # r
    BY <1>1, <1>4 DEF Schedules!IntervalFires, Schedules!Due, Quiet
  <2> QED BY <1>1, <1>4, <2>1 DEF Schedules!IntervalFires, Schedules!CopyStarts, JobShapes
<1>5. ASSUME NEW q \in JobRefs, Schedules!CountedFires(q)
      PROVE  starts' = starts /\ copies'[r] = copies[r]
  <2>1. q # r
    BY <1>1, <1>5 DEF Schedules!CountedFires, Schedules!Due, Quiet
  <2> QED BY <1>1, <1>5, <2>1 DEF Schedules!CountedFires, Schedules!CopyStarts, JobShapes
<1> QED
  BY <1>2, <1>3, <1>4, <1>5
  DEF Schedules!Next, Schedules!vars, Schedules!Schedule, Schedules!Unschedule, Schedules!Start,
      Schedules!Stop, Schedules!Tick, Schedules!ExecutionEnds, Schedules!executions

\* In lib/jobs/memory-job-scheduler.ts a job with a time runs at that time or at the
\* next check and never before it, unless its delay is beyond what a timer can wait
\* for; and the recurrences of a bounded job that nobody cancels are counted until
\* there are as many as were asked for, when both of its intervals and its place in
\* the map are gone: for any jobs, schedules, starts and stops of the scheduler, and
\* orders of the timers.  How often a job is executed it does not say: the timer and
\* the check may both start it, and every recurrence is executed by both intervals.
THEOREM JobsRunOnTimeAlways ==
  ASSUME NoJobIsNone
  PROVE  Schedules!Spec => [](Schedules!OnTime /\ Schedules!RecurrencesEnd)
  BY SchedulerStarts, SchedulerStep, SchedulerPromises, PTL DEF Schedules!Spec

\* The scheduler moves by its own steps.
LEMMA SchedulerMoves ==
  ASSUME [MCNext]_all
  PROVE  part' = part /\ (part = "scheduler" => [Schedules!Next]_(Schedules!vars))
  BY DEF MCNext, all, rest1, Schedules!vars, Schedules!timers, Schedules!executions

\* The same of the composition.
THEOREM JobsRunOnTimeComposed ==
  ASSUME NoJobIsNone
  PROVE  MCSpec => []JobsRunOnTime
<1> DEFINE Inv == part = "scheduler" => SchedulerInv
<1>1. MCInit => Inv
  BY SchedulerStarts DEF MCInit
<1>2. Inv /\ [MCNext]_all => Inv'
  BY SchedulerMoves, SchedulerStep
<1>3. Inv => JobsRunOnTime
  BY SchedulerPromises DEF JobsRunOnTime
<1> QED BY <1>1, <1>2, <1>3, PTL DEF MCSpec

\* What unschedule or stop took out of the map does not start again, but by the one
\* interval that they do not clear.
THEOREM CancelledJobsStayQuietComposed ==
  ASSUME NoJobIsNone
  PROVE  MCSpec => CancelledJobsStayQuiet
<1> DEFINE Inv == part = "scheduler" => SchedulerInv
<1>1. MCInit => Inv
  BY SchedulerStarts DEF MCInit
<1>2. Inv /\ [MCNext]_all => Inv'
  BY SchedulerMoves, SchedulerStep
<1>3. Inv /\ [MCNext]_all => [NoLateStart]_all
  BY SchedulerMoves, CancelledStaysQuiet DEF NoLateStart
<1> QED BY <1>1, <1>2, <1>3, PTL DEF MCSpec, CancelledJobsStayQuiet

-----------------------------------------------------------------------------
(* The times of the schedules, and the scheduler's types.                   *)

\* The schedules asked for lie within the time that is looked at.
SpecsInTime ==
  /\ LastCheck \in Nat \ {0}
  /\ \A s \in JobSpecs : s.at <= LastCheck /\ s.every <= LastCheck

\* No timer is set beyond a time and an interval.
Early(t) == t = NoTime \/ t \in 0 .. 2 * LastCheck

TimesOK(r) ==
  /\ Early(timer[r]) /\ Early(interval[r]) /\ Early(counted[r])
  /\ objs[r] # Nil => /\ objs[r].every <= LastCheck
                      /\ objs[r].status = "running" => objs[r].running > 0

TimesInv ==
  /\ clock \in 1..LastCheck /\ Early(checkAt)
  /\ \A r \in JobRefs : TimesOK(r)

\* A time within the bound, with a schedule's length on top.
LEMMA EarlyEnough ==
  ASSUME SpecsInTime, NEW now \in 1..LastCheck, NEW n \in Nat, n <= LastCheck
  PROVE  Early(now + n)
BY DEF SpecsInTime, Early

\* The scheduler's initial states.
LEMMA TimesStart ==
  ASSUME NoJobIsNone, SpecsInTime, Schedules!Init
  PROVE  TimesInv
<1>1. /\ clock = 1 /\ checkAt = NoTime
      /\ objs = [r \in JobRefs |-> Nil]
      /\ timer = [r \in JobRefs |-> NoTime] /\ interval = timer /\ counted = timer
  BY DEF Schedules!Init
<1>2. 1 \in 1..LastCheck
  BY DEF SpecsInTime
<1> QED
  BY <1>1, <1>2 DEF TimesInv, TimesOK, Early

\* What is cleared is set to no time.
LEMMA ClearedTimes ==
  ASSUME TimesInv, NEW S, Schedules!Clears(S), UNCHANGED <<clock, objs>>, Early(checkAt')
  PROVE  TimesInv'
<1>1. /\ timer' = [r \in JobRefs |-> IF r \in S THEN NoTime ELSE timer[r]]
      /\ interval' = [r \in JobRefs |-> IF r \in S /\ counted[r] = NoTime THEN NoTime ELSE interval[r]]
      /\ counted' = [r \in JobRefs |-> IF r \in S THEN NoTime ELSE counted[r]]
  BY DEF Schedules!Clears
<1>2. Early(NoTime)
  BY DEF Early
<1>3. ASSUME NEW r \in JobRefs PROVE TimesOK(r)'
  <2>1. TimesOK(r)
    BY DEF TimesInv
  <2>2. timer'[r] \in {NoTime, timer[r]} /\ interval'[r] \in {NoTime, interval[r]}
        /\ counted'[r] \in {NoTime, counted[r]}
    BY <1>1
  <2> QED
    BY <1>2, <2>1, <2>2 DEF TimesOK
<1> QED
  BY <1>3 DEF TimesInv

\* Executions that start leave the job running.
LEMMA ExecutedTimes ==
  ASSUME NoJobIsNone, SchedulerInv, TimesInv, NEW S \in SUBSET JobRefs, \A r \in S : objs[r] # Nil,
         Schedules!Executes(S), UNCHANGED <<clock, interval, counted>>, Early(checkAt'),
         \A r \in JobRefs : timer'[r] \in {NoTime, timer[r]}
  PROVE  TimesInv'
<1>1. objs' = [r \in JobRefs |-> IF r \notin S THEN objs[r]
                 ELSE [objs[r] EXCEPT !.status = "running", !.running = @ + 1]]
  BY DEF Schedules!Executes
<1>2. JobShapes
  BY DEF SchedulerInv
<1>3. Early(NoTime)
  BY DEF Early
<1>4. ASSUME NEW r \in JobRefs PROVE TimesOK(r)'
  <2>1. TimesOK(r)
    BY DEF TimesInv
  <2>2. CASE r \in S
    <3>1. objs[r] \in Job /\ objs[r] # Nil
      BY <1>2, <2>2 DEF JobShapes
    <3>2. objs'[r] = [objs[r] EXCEPT !.status = "running", !.running = objs[r].running + 1]
      BY <1>1, <2>2
    <3>3. objs'[r].every = objs[r].every /\ objs'[r].running = objs[r].running + 1
      BY <3>1, <3>2 DEF Job
    <3>4. objs[r].running \in Nat
      BY <3>1 DEF Job
    <3>5. objs'[r].running > 0
      BY <3>3, <3>4
    <3> QED
      BY <1>3, <2>1, <3>1, <3>3, <3>5 DEF TimesOK
  <2>3. CASE r \notin S
    <3>1. objs'[r] = objs[r]
      BY <1>1, <2>3
    <3> QED
      BY <1>3, <2>1, <3>1 DEF TimesOK
  <2> QED
    BY <2>2, <2>3
<1> QED
  BY <1>4 DEF TimesInv

\* A timer is set for the job's time, an interval for its length from now on.
LEMMA ScheduledTimes ==
  ASSUME NoJobIsNone, SpecsInTime, SchedulerInv, TimesInv,
         NEW i \in JobIds, NEW r \in JobRefs, NEW s \in JobSpecs, Schedules!Schedule(i, r, s)
  PROVE  TimesInv'
<1> DEFINE far == s.at > clock + TimerRange
           due == clock + (IF s.at > clock THEN s.at - clock ELSE 0)
           job == [id |-> i, at |-> s.at, every |-> s.every, max |-> s.max,
                   due |-> due, far |-> far, status |-> "pending", running |-> 0]
           at == clock + Schedules!Delay(s.at)
           next == clock + s.every
<1>1. /\ objs' = [objs EXCEPT ![r] = job]
      /\ timer' = IF s.at = 0 THEN timer ELSE [timer EXCEPT ![r] = at]
      /\ interval' = IF s.every = 0 THEN interval ELSE [interval EXCEPT ![r] = next]
      /\ counted' = IF s.every = 0 \/ s.max = 0 THEN counted ELSE [counted EXCEPT ![r] = next]
      /\ UNCHANGED <<clock, checkAt>>
  BY DEF Schedules!Schedule
<1>2. JobShapes /\ clock \in 1..LastCheck
  BY DEF SchedulerInv, TimesInv
<1>3. s.at \in Nat /\ s.every \in Nat /\ s.at <= LastCheck /\ s.every <= LastCheck
      /\ TimerRange \in Nat /\ LastCheck \in Nat
  BY DEF NoJobIsNone, SpecsInTime
<1>4. Early(at)
  <2>1. Schedules!Delay(s.at) \in Nat /\ Schedules!Delay(s.at) <= LastCheck
    <3> DEFINE a == s.at
               d == Schedules!Delay(a)
    <3>1. d = IF a <= clock \/ a - clock > TimerRange THEN 0 ELSE a - clock
      BY DEF Schedules!Delay
    <3>2. a \in Nat /\ a <= LastCheck /\ clock \in Nat
      BY <1>2, <1>3
    <3> HIDE DEF a, d
    <3>3. d \in Nat /\ d <= LastCheck
      BY <1>3, <3>1, <3>2
    <3> QED
      BY <3>3 DEF a, d
  <2> QED
    BY <1>2, <2>1, EarlyEnough
<1>5. Early(next)
  BY <1>2, <1>3, EarlyEnough
<1>6. job.every = s.every /\ job.status = "pending"
  OBVIOUS
<1> HIDE DEF at, next, job
<1>7. ASSUME NEW q \in JobRefs PROVE TimesOK(q)'
  <2>1. TimesOK(q)
    BY DEF TimesInv
  <2>2. timer'[q] \in {timer[q], at} /\ interval'[q] \in {interval[q], next}
        /\ counted'[q] \in {counted[q], next} /\ objs'[q] \in {objs[q], job}
    BY <1>1, <1>2 DEF JobShapes
  <2>3. Early(timer'[q]) /\ Early(interval'[q]) /\ Early(counted'[q])
    BY <1>4, <1>5, <2>1, <2>2 DEF TimesOK
  <2>4. objs'[q] # Nil => /\ objs'[q].every <= LastCheck
                          /\ objs'[q].status = "running" => objs'[q].running > 0
    BY <1>3, <1>6, <2>1, <2>2 DEF TimesOK
  <2> QED
    BY <2>3, <2>4 DEF TimesOK
<1> QED
  BY <1>1, <1>7 DEF TimesInv

\* An interval is set again for its length from now on, or cleared.
LEMMA IntervalTimes ==
  ASSUME NoJobIsNone, SpecsInTime, SchedulerInv, TimesInv, NEW r \in JobRefs, objs[r] # Nil,
         UNCHANGED <<clock, objs, checkAt, timer>>,
         interval' = interval \/ \E t \in {NoTime, clock + objs[r].every} : interval' = [interval EXCEPT ![r] = t],
         counted' = counted \/ \E t \in {NoTime, clock + objs[r].every} : counted' = [counted EXCEPT ![r] = t]
  PROVE  TimesInv'
<1> DEFINE next == clock + objs[r].every
<1>1. JobShapes /\ clock \in 1..LastCheck /\ TimesOK(r)
  BY DEF SchedulerInv, TimesInv
<1>2. Early(next) /\ Early(NoTime)
  <2>1. objs[r].every \in Nat /\ objs[r].every <= LastCheck
    BY <1>1 DEF JobShapes, Job, TimesOK
  <2> QED
    BY <1>1, <2>1, EarlyEnough DEF Early
<1> HIDE DEF next
<1>3. ASSUME NEW q \in JobRefs PROVE TimesOK(q)'
  <2>1. TimesOK(q)
    BY DEF TimesInv
  <2>2. interval'[q] \in {interval[q], next, NoTime}
    BY <1>1 DEF JobShapes, next
  <2>3. counted'[q] \in {counted[q], next, NoTime}
    BY <1>1 DEF JobShapes, next
  <2> QED
    BY <1>2, <2>1, <2>2, <2>3 DEF TimesOK
<1> QED
  BY <1>3 DEF TimesInv

\* A job that has ended does not run.
LEMMA EndedTimes ==
  ASSUME NoJobIsNone, SchedulerInv, TimesInv, NEW r \in JobRefs, Schedules!ExecutionEnds(r)
  PROVE  TimesInv'
<1>1. /\ objs[r] # Nil
      /\ objs' = [objs EXCEPT ![r].status = "completed", ![r].running = @ - 1]
      /\ UNCHANGED <<clock, checkAt, timer, interval, counted>>
  BY DEF Schedules!ExecutionEnds, Schedules!Live, Schedules!timers
<1>2. JobShapes
  BY DEF SchedulerInv
<1> DEFINE ended == [objs[r] EXCEPT !.status = "completed", !.running = objs[r].running - 1]
<1>3. objs' = [objs EXCEPT ![r] = ended]
  BY <1>1, <1>2 DEF JobShapes
<1>4. ended.every = objs[r].every /\ ended.status = "completed"
  <2>1. objs[r] \in Job
    BY <1>1, <1>2 DEF JobShapes
  <2> QED
    BY <2>1 DEF Job
<1> HIDE DEF ended
<1>5. ASSUME NEW q \in JobRefs PROVE TimesOK(q)'
  <2>1. TimesOK(q) /\ TimesOK(r)
    BY DEF TimesInv
  <2>2. objs'[q] = IF q = r THEN ended ELSE objs[q]
    BY <1>2, <1>3 DEF JobShapes
  <2>3. timer'[q] = timer[q] /\ interval'[q] = interval[q] /\ counted'[q] = counted[q]
    BY <1>1
  <2>4. CASE q = r
    BY <1>1, <1>4, <2>1, <2>2, <2>3, <2>4 DEF TimesOK
  <2>5. CASE q # r
    BY <2>1, <2>2, <2>3, <2>5 DEF TimesOK
  <2> QED
    BY <2>4, <2>5
<1> QED
  BY <1>1, <1>5 DEF TimesInv

\* Every step of the scheduler keeps the times within their bounds.
LEMMA TimesStep ==
  ASSUME NoJobIsNone, SpecsInTime, SchedulerInv, TimesInv, [Schedules!Next]_(Schedules!vars)
  PROVE  TimesInv'
<1>0. JobShapes /\ clock \in 1..LastCheck /\ Early(checkAt) /\ LastCheck \in Nat \ {0}
  BY DEF SchedulerInv, TimesInv, SpecsInTime
<1>1. Early(NoTime) /\ Early(clock + 1)
  <2>1. 1 \in Nat /\ 1 <= LastCheck
    BY <1>0
  <2> QED
    BY <1>0, <2>1, EarlyEnough DEF Early
<1>2. ASSUME NEW i \in JobIds, NEW r \in JobRefs, NEW s \in JobSpecs, Schedules!Schedule(i, r, s)
      PROVE  TimesInv'
  BY <1>2, ScheduledTimes
<1>3. ASSUME NEW i \in JobIds, Schedules!Unschedule(i) PROVE TimesInv'
  <2>1. Schedules!Clears({jobs[i]}) /\ UNCHANGED <<clock, objs, checkAt>>
    BY <1>3 DEF Schedules!Unschedule
  <2> QED
    BY <1>0, <2>1, ClearedTimes
<1>4. CASE Schedules!Start
  BY <1>0, <1>1, <1>4 DEF Schedules!Start, TimesInv, TimesOK
<1>5. CASE Schedules!Stop
  BY <1>1, <1>5, ClearedTimes DEF Schedules!Stop
<1>6. CASE Schedules!Check
  <2> DEFINE once == {r \in Schedules!DueJobs : objs[r].every = 0}
  <2>1. Schedules!Executes(once) /\ checkAt' = clock + 1 /\ UNCHANGED <<clock, timer, interval, counted>>
    BY <1>6 DEF Schedules!Check
  <2>2. once \in SUBSET JobRefs /\ \A r \in once : objs[r] # Nil
    BY DEF Schedules!DueJobs, Schedules!Mapped, SchedulerInv, MapOK, JobShapes
  <2> HIDE DEF once
  <2>3. Early(checkAt') /\ \A r \in JobRefs : timer'[r] \in {NoTime, timer[r]}
    BY <1>1, <2>1
  <2> QED
    BY <2>1, <2>2, <2>3, ExecutedTimes
<1>7. CASE Schedules!Tick
  <2>1. clock' \in 1..LastCheck /\ UNCHANGED <<checkAt, objs, timer, interval, counted>>
    BY <1>0, <1>7 DEF Schedules!Tick, Schedules!timers
  <2> QED
    BY <2>1 DEF TimesInv, TimesOK
<1>8. ASSUME NEW r \in JobRefs, Schedules!TimerFires(r) PROVE TimesInv'
  <2>1. Schedules!Executes({r}) /\ timer[r] # NoTime /\ timer' = [timer EXCEPT ![r] = NoTime]
        /\ UNCHANGED <<clock, checkAt, interval, counted>>
    BY <1>8 DEF Schedules!TimerFires, Schedules!Due
  <2>2. objs[r] # Nil
    BY <2>1 DEF SchedulerInv, JobOK, NotYet
  <2>3. \A q \in JobRefs : timer'[q] \in {NoTime, timer[q]}
    BY <1>0, <2>1 DEF JobShapes
  <2> QED
    BY <1>0, <2>1, <2>2, <2>3, ExecutedTimes
<1>9. ASSUME NEW r \in JobRefs, Schedules!IntervalFires(r) PROVE TimesInv'
  <2>1. interval[r] # NoTime /\ interval' = [interval EXCEPT ![r] = clock + objs[r].every]
        /\ UNCHANGED <<clock, objs, checkAt, timer, counted>>
    BY <1>9 DEF Schedules!IntervalFires, Schedules!Due
  <2>2. objs[r] # Nil
    BY <2>1 DEF SchedulerInv, JobOK, NotYet
  <2> QED
    BY <2>1, <2>2, IntervalTimes
<1>10. ASSUME NEW r \in JobRefs, Schedules!CountedFires(r) PROVE TimesInv'
  <2>1. /\ counted[r] # NoTime /\ UNCHANGED <<clock, objs, checkAt, timer>>
        /\ \/ counted' = [counted EXCEPT ![r] = clock + objs[r].every] /\ UNCHANGED interval
           \/ counted' = [counted EXCEPT ![r] = NoTime] /\ interval' = [interval EXCEPT ![r] = NoTime]
    BY <1>10 DEF Schedules!CountedFires, Schedules!EndsRecurrences, Schedules!Due
  <2>2. objs[r] # Nil
    BY <2>1 DEF SchedulerInv, JobOK, NotYet
  <2> QED
    BY <2>1, <2>2, IntervalTimes
<1>11. ASSUME NEW r \in JobRefs, Schedules!ExecutionEnds(r) PROVE TimesInv'
  BY <1>11, EndedTimes
<1>12. CASE UNCHANGED Schedules!vars
  BY <1>12 DEF Schedules!vars, Schedules!timers, TimesInv, TimesOK
<1> QED
  BY <1>2, <1>3, <1>4, <1>5, <1>6, <1>7, <1>8, <1>9, <1>10, <1>11, <1>12 DEF Schedules!Next

\* The types of the scheduler.
LEMMA SchedulerTypes ==
  ASSUME NoJobIsNone, SpecsInTime, SchedulerInv, TimesInv
  PROVE  Schedules!TypeOK
<1>1. \A t : Early(t) => t = NoTime \/ t \in Schedules!Times
  BY DEF Early, Schedules!Times
<1>2. \A r \in JobRefs : Early(timer[r]) /\ Early(interval[r]) /\ Early(counted[r])
  BY DEF TimesInv, TimesOK
<1>3. \A r \in Schedules!Live : /\ objs[r].status \in Schedules!Statuses /\ objs[r].running \in Nat
                                /\ objs[r].status = "running" => objs[r].running > 0
  <2> SUFFICES ASSUME NEW r \in JobRefs, objs[r] # Nil
               PROVE  /\ objs[r].status \in Schedules!Statuses /\ objs[r].running \in Nat
                      /\ objs[r].status = "running" => objs[r].running > 0
    BY DEF Schedules!Live
  <2>1. objs[r] \in Job /\ TimesOK(r)
    BY DEF SchedulerInv, JobShapes, TimesInv
  <2> QED
    BY <2>1 DEF Job, TimesOK
<1> QED
  BY <1>1, <1>2, <1>3 DEF Schedules!TypeOK, TimesInv

-----------------------------------------------------------------------------
(* The advanced memory cache (lib/cache/advanced-memory-cache.ts), the instance  *)
(* Memory.                                                                       *)

CacheEntry == [expiresAt : Nat, accessTime : Nat]
SetCall == [key : CacheKeys, ttl : Ttls, step : {"cleanup", "enforce", "store"}]

\* undefined is neither an entry nor a call, and what is counted is finite.
NoEntryIsNone ==
  /\ Nil \notin CacheEntry /\ Nil \notin SetCall
  /\ IsFiniteSet(CacheKeys) /\ IsFiniteSet(CacheSets)
  /\ MaxSize \in Nat \ {0} /\ Ttls \in SUBSET Nat

Held == {k \in CacheKeys : stored[k] # Nil}
Storing == {c \in CacheSets : sets[c] # Nil /\ sets[c].step = "store"}

MemoryShapes ==
  /\ time \in Nat
  /\ stored \in [CacheKeys -> CacheEntry \cup {Nil}]
  /\ sets \in [CacheSets -> SetCall \cup {Nil}]

\* An order lists some keys, each once.
Lists(s, ks) == s \in Seq(CacheKeys) /\ Distinct(s) /\ Elements(s) = ks

\* The Map lists the keys it holds, and so does the order of use where it is kept.
Listed == Lists(order, Held) /\ Lists(used, IF lru THEN Held ELSE {})

\* Only an adaptive cache changes its policy.
PolicyOK == mode # policy => policy = "adaptive" /\ mode \in {"lru", "fifo"}

\* With n calls of set at most n - 1 entries too many, those about to be stored
\* included.
Bounded ==
  (lru \/ policy = "fifo") /\ policy # "ttl_only" =>
    Cardinality(Held) + Cardinality(Storing) <= MaxSize + Cardinality(CacheSets) - 1

MemoryInv == MemoryShapes /\ Listed /\ PolicyOK /\ Bounded

\* The module's operators are those of KeyOrders and of the library.
LEMMA MemoryOperators ==
  /\ \A s, ks : Memory!Without(s, ks) = Without(s, ks)
  /\ \A S : Memory!Cardinality(S) = Cardinality(S)
  /\ Memory!Held = Held
<1>1. ASSUME NEW s, NEW ks PROVE Memory!Without(s, ks) = Without(s, ks)
  BY DEF Memory!Without, Without, Memory!Cardinality, Cardinality
<1>2. \A S : Memory!Cardinality(S) = Cardinality(S)
  BY DEF Memory!Cardinality, Cardinality
<1> QED BY <1>1, <1>2 DEF Memory!Held, Held

\* What is counted is finite.
LEMMA CountsAreFinite ==
  ASSUME NoEntryIsNone
  PROVE  /\ IsFiniteSet(Held) /\ IsFiniteSet(Storing)
         /\ Cardinality(Held) \in Nat /\ Cardinality(Storing) \in Nat
         /\ Cardinality(CacheSets) \in Nat /\ Cardinality(Storing) <= Cardinality(CacheSets)
<1>1. Held \in SUBSET CacheKeys /\ Storing \in SUBSET CacheSets
  BY DEF Held, Storing
<1> QED BY <1>1, FS_Subset, FS_CardinalityType DEF NoEntryIsNone

\* Fewer entries and fewer calls about to store keep the bound.
LEMMA FewerAreBounded ==
  ASSUME NoEntryIsNone, Bounded, UNCHANGED <<lru, policy>>,
         Held' \in SUBSET Held, Storing' \in SUBSET Storing
  PROVE  Bounded'
<1>1. /\ Cardinality(Held') \in Nat /\ Cardinality(Held') <= Cardinality(Held)
      /\ Cardinality(Storing') \in Nat /\ Cardinality(Storing') <= Cardinality(Storing)
  BY CountsAreFinite, FS_Subset, FS_CardinalityType
<1> DEFINE h == Cardinality(Held)
           h2 == Cardinality(Held')
           s == Cardinality(Storing)
           s2 == Cardinality(Storing')
           n == Cardinality(CacheSets)
<1>2. h \in Nat /\ h2 \in Nat /\ h2 <= h /\ s \in Nat /\ s2 \in Nat /\ s2 <= s /\ n \in Nat
  BY <1>1, CountsAreFinite
<1> HIDE DEF h, h2, s, s2, n
<1>3. h + s <= MaxSize + n - 1 => h2 + s2 <= MaxSize + n - 1
  BY <1>2 DEF NoEntryIsNone
<1> QED BY <1>3 DEF Bounded, h, h2, s, s2, n

\* An order without some of its keys lists the others.
LEMMA WithoutLists ==
  ASSUME NEW s, NEW S, Lists(s, S), NEW ks
  PROVE  Lists(Without(s, ks), S \ ks)
  BY WithoutDoes DEF Lists

\* A key put last is listed too.
LEMMA AppendLists ==
  ASSUME NEW s, NEW S, Lists(s, S), NEW k \in CacheKeys, k \notin S
  PROVE  Lists(Append(s, k), S \cup {k})
  BY Appended DEF Lists

\* Removing keys takes them out of the Map and of both orders.
LEMMA RemovesDoes ==
  ASSUME NoEntryIsNone, MemoryInv, NEW ks, Memory!Removes(ks), lru' = lru
  PROVE  /\ Held' = Held \ ks
         /\ stored' \in [CacheKeys -> CacheEntry \cup {Nil}]
         /\ Listed'
<1>1. /\ stored' = [k \in CacheKeys |-> IF k \in ks THEN Nil ELSE stored[k]]
      /\ order' = Without(order, ks) /\ used' = Without(used, ks)
  BY MemoryOperators DEF Memory!Removes
<1>2. Held' = Held \ ks
  BY <1>1 DEF Held
<1>3. stored' \in [CacheKeys -> CacheEntry \cup {Nil}]
  BY <1>1 DEF MemoryInv, MemoryShapes
<1>4. Lists(order', Held \ ks)
  BY <1>1, WithoutLists DEF MemoryInv, Listed
<1>5. Lists(used', (IF lru THEN Held ELSE {}) \ ks)
  BY <1>1, WithoutLists DEF MemoryInv, Listed
<1>6. (IF lru THEN Held ELSE {}) \ ks = IF lru THEN Held \ ks ELSE {}
  OBVIOUS
<1> QED BY <1>2, <1>3, <1>4, <1>5, <1>6 DEF Listed

\* Using a key that is held puts it last.
LEMMA TouchedLists ==
  ASSUME NoEntryIsNone, NEW S, Lists(used, IF lru THEN S ELSE {}), NEW k \in CacheKeys
  PROVE  Lists(Memory!Touched(k), IF lru THEN S \cup {k} ELSE {})
<1>1. CASE lru
  <2>1. Memory!Touched(k) = Append(Without(used, {k}), k)
    BY <1>1, MemoryOperators DEF Memory!Touched
  <2>2. Lists(Without(used, {k}), S \ {k})
    BY <1>1, WithoutLists
  <2>3. Lists(Append(Without(used, {k}), k), (S \ {k}) \cup {k})
    BY <2>2, AppendLists
  <2>4. (S \ {k}) \cup {k} = S \cup {k}
    OBVIOUS
  <2> QED BY <1>1, <2>1, <2>3, <2>4
<1>2. CASE ~lru
  BY <1>2 DEF Memory!Touched
<1> QED BY <1>1, <1>2

\* A step of a call that does not begin to store, and stores nothing.
LEMMA StepsOn ==
  ASSUME NoEntryIsNone, MemoryInv, NEW c \in CacheSets, c \notin Storing, NEW to \in SetCall,
         to.step # "store", sets' = [sets EXCEPT ![c] = to]
  PROVE  sets' \in [CacheSets -> SetCall \cup {Nil}] /\ Storing' = Storing
<1>1. sets' \in [CacheSets -> SetCall \cup {Nil}] /\ sets'[c] = to
      /\ \A d \in CacheSets : d # c => sets'[d] = sets[d]
  BY DEF MemoryInv, MemoryShapes
<1>2. \A d \in CacheSets : d \in Storing' <=> d \in Storing
  BY <1>1 DEF Storing
<1> QED BY <1>1, <1>2 DEF Storing

\* A cleanup only removes entries.
LEMMA CleanupDoes ==
  ASSUME NoEntryIsNone, MemoryInv, Memory!Cleanup, lru' = lru
  PROVE  /\ Held' \in SUBSET Held /\ Listed'
         /\ stored' \in [CacheKeys -> CacheEntry \cup {Nil}]
  BY RemovesDoes DEF Memory!Cleanup

\* A set that begins stores nothing, whether it checks its policy or cleans up.
LEMMA SetBeginsKeeps ==
  ASSUME NoEntryIsNone, MemoryInv, NEW c \in CacheSets, NEW k \in CacheKeys, NEW t \in Ttls,
         Memory!SetBegins(c, k, t)
  PROVE  MemoryInv'
<1>0. c \notin Storing /\ UNCHANGED <<time, policy, lru>>
  BY DEF Memory!SetBegins, Storing
<1>1. CASE mode = "adaptive"
  <2> DEFINE to == [key |-> k, ttl |-> t, step |-> "cleanup"]
  <2>1. /\ mode' = Memory!Checked /\ sets' = [sets EXCEPT ![c] = to]
        /\ UNCHANGED <<stored, order, used>>
    BY <1>1 DEF Memory!SetBegins
  <2>2. to \in SetCall /\ to.step # "store"
    BY DEF SetCall
  <2> HIDE DEF to
  <2>3. sets' \in [CacheSets -> SetCall \cup {Nil}] /\ Storing' = Storing
    BY <1>0, <2>1, <2>2, StepsOn
  <2>4. Held' = Held
    BY <2>1 DEF Held
  <2>5. PolicyOK'
    BY <1>0, <1>1, <2>1 DEF MemoryInv, PolicyOK, Memory!Checked
  <2>6. Bounded'
    BY <1>0, <2>3, <2>4, FewerAreBounded DEF MemoryInv
  <2> QED BY <1>0, <2>1, <2>3, <2>4, <2>5, <2>6 DEF MemoryInv, MemoryShapes, Listed
<1>2. CASE mode # "adaptive"
  <2> DEFINE to == [key |-> k, ttl |-> t, step |-> "enforce"]
  <2>1. mode' = mode /\ sets' = [sets EXCEPT ![c] = to] /\ Memory!Cleanup
    BY <1>2 DEF Memory!SetBegins
  <2>2. to \in SetCall /\ to.step # "store"
    BY DEF SetCall
  <2> HIDE DEF to
  <2>3. sets' \in [CacheSets -> SetCall \cup {Nil}] /\ Storing' = Storing
    BY <1>0, <2>1, <2>2, StepsOn
  <2>4. Held' \in SUBSET Held /\ Listed' /\ stored' \in [CacheKeys -> CacheEntry \cup {Nil}]
    BY <1>0, <2>1, CleanupDoes
  <2>5. PolicyOK'
    BY <1>0, <2>1 DEF MemoryInv, PolicyOK
  <2>6. Bounded'
    BY <1>0, <2>3, <2>4, FewerAreBounded DEF MemoryInv
  <2> QED BY <1>0, <2>1, <2>3, <2>4, <2>5, <2>6 DEF MemoryInv, MemoryShapes
<1> QED BY <1>1, <1>2

\* A cleanup after that check may remove entries too.
LEMMA SetCleansUpKeeps ==
  ASSUME NoEntryIsNone, MemoryInv, NEW c \in CacheSets, Memory!SetCleansUp(c)
  PROVE  MemoryInv'
<1> DEFINE to == [sets[c] EXCEPT !.step = "enforce"]
<1>1. /\ sets[c] # Nil /\ sets[c].step = "cleanup" /\ Memory!Cleanup
      /\ sets' = [sets EXCEPT ![c] = to] /\ UNCHANGED <<time, policy, lru, mode>>
  BY DEF Memory!SetCleansUp
<1>2. sets[c] \in SetCall /\ c \notin Storing
  BY <1>1 DEF MemoryInv, MemoryShapes, Storing
<1>3. to \in SetCall /\ to.step # "store"
  BY <1>2 DEF SetCall
<1> HIDE DEF to
<1>4. sets' \in [CacheSets -> SetCall \cup {Nil}] /\ Storing' = Storing
  BY <1>1, <1>2, <1>3, StepsOn
<1>5. Held' \in SUBSET Held /\ Listed' /\ stored' \in [CacheKeys -> CacheEntry \cup {Nil}]
  BY <1>1, CleanupDoes
<1>6. PolicyOK'
  BY <1>1 DEF MemoryInv, PolicyOK
<1>7. Bounded'
  BY <1>1, <1>4, <1>5, FewerAreBounded DEF MemoryInv
<1> QED BY <1>1, <1>4, <1>5, <1>6, <1>7 DEF MemoryInv, MemoryShapes

\* At the limit a cache that tracks use, or evicts by age, finds a key to evict.
LEMMA EvictsOne ==
  ASSUME NoEntryIsNone, MemoryInv, Memory!Full, lru \/ policy = "fifo", mode # "ttl_only"
  PROVE  \E k \in Held : Memory!Victims(Memory!EvictionMode) = {k}
<1> DEFINE m == Memory!EvictionMode
           queue == IF m = "fifo" THEN order ELSE Without(used, CacheKeys \ Held)
<1>1. Held # {}
  <2>1. Cardinality(Held) >= MaxSize
    BY MemoryOperators DEF Memory!Full
  <2> QED BY <2>1, FS_EmptySet DEF NoEntryIsNone
<1>2. m = "fifo" \/ lru
  <2>1. ASSUME ~lru PROVE m = "fifo"
    <3>1. policy = "fifo" /\ mode = "fifo"
      BY <2>1 DEF MemoryInv, PolicyOK
    <3> QED BY <3>1 DEF Memory!EvictionMode
  <2> QED BY <2>1
<1>3. Memory!Victims(m) = IF queue = <<>> THEN {} ELSE {Head(queue)}
  BY MemoryOperators DEF Memory!Victims
<1> HIDE DEF m
<1>4. Lists(queue, Held)
  <2>1. CASE m = "fifo"
    BY <2>1 DEF MemoryInv, Listed
  <2>2. CASE m # "fifo"
    <3>1. Lists(used, Held)
      BY <1>2, <2>2 DEF MemoryInv, Listed
    <3>2. Held \ (CacheKeys \ Held) = Held
      OBVIOUS
    <3> QED BY <2>2, <3>1, <3>2, WithoutLists
  <2> QED BY <2>1, <2>2
<1> HIDE DEF queue
<1>5. queue \in Seq(CacheKeys) /\ Elements(queue) = Held
  BY <1>4 DEF Lists
<1>6. queue # <<>>
  BY <1>1, <1>5 DEF Elements
<1>7. Head(queue) = queue[1] /\ 1 \in DOMAIN queue
  BY <1>5, <1>6
<1>8. Head(queue) \in Held
  BY <1>5, <1>7 DEF Elements
<1> QED BY <1>3, <1>6, <1>8 DEF m

\* Before its await a set makes room for itself.
LEMMA SetEnforcesKeeps ==
  ASSUME NoEntryIsNone, MemoryInv, NEW c \in CacheSets, Memory!SetEnforces(c)
  PROVE  MemoryInv'
<1> DEFINE to == [sets[c] EXCEPT !.step = "store"]
           gone == Memory!Victims(Memory!EvictionMode)
<1>1. /\ sets[c] # Nil /\ sets[c].step = "enforce"
      /\ sets' = [sets EXCEPT ![c] = to] /\ UNCHANGED <<time, policy, lru>>
  BY DEF Memory!SetEnforces
<1>2. sets[c] \in SetCall /\ c \notin Storing
  BY <1>1 DEF MemoryInv, MemoryShapes, Storing
<1>3. to \in SetCall /\ to.step = "store" /\ to # Nil
  <2>1. to \in SetCall /\ to.step = "store"
    BY <1>2 DEF SetCall
  <2> QED BY <2>1 DEF NoEntryIsNone
<1> HIDE DEF to
<1>4. sets' \in [CacheSets -> SetCall \cup {Nil}] /\ Storing' = Storing \cup {c}
  <2>1. sets' \in [CacheSets -> SetCall \cup {Nil}] /\ sets'[c] = to
        /\ \A d \in CacheSets : d # c => sets'[d] = sets[d]
    BY <1>1, <1>3 DEF MemoryInv, MemoryShapes
  <2>2. \A d \in CacheSets : d \in Storing' <=> d \in Storing \cup {c}
    BY <1>3, <2>1 DEF Storing
  <2>3. Storing' \in SUBSET CacheSets /\ Storing \cup {c} \in SUBSET CacheSets
    BY DEF Storing
  <2> QED BY <2>1, <2>2, <2>3
<1> DEFINE h == Cardinality(Held)
           s == Cardinality(Storing)
           n == Cardinality(CacheSets)
           h2 == Cardinality(Held')
           s2 == Cardinality(Storing')
<1>5. h \in Nat /\ s \in Nat /\ n \in Nat /\ s2 = s + 1 /\ s2 <= n /\ MaxSize \in Nat
  <2>1. h \in Nat /\ s \in Nat /\ n \in Nat
    BY CountsAreFinite
  <2>2. s2 = s + 1
    BY <1>2, <1>4, CountsAreFinite, FS_AddElement
  <2>3. Storing' \in SUBSET CacheSets
    BY DEF Storing
  <2>4. s2 <= n
    BY <2>3, FS_Subset DEF NoEntryIsNone
  <2> QED BY <2>1, <2>2, <2>4 DEF NoEntryIsNone
<1>6. CASE ~(Memory!Full /\ mode # "ttl_only")
  <2>1. UNCHANGED <<stored, order, used, mode>>
    BY <1>6 DEF Memory!SetEnforces
  <2>2. Held' = Held /\ h2 = h
    BY <2>1 DEF Held
  <2>3. Listed' /\ PolicyOK' /\ MemoryShapes'
    BY <1>1, <1>4, <2>1, <2>2 DEF MemoryInv, MemoryShapes, Listed, PolicyOK
  <2>4. ASSUME lru \/ policy = "fifo", policy # "ttl_only" PROVE h2 + s2 <= MaxSize + n - 1
    <3>1. mode # "ttl_only"
      BY <2>4 DEF MemoryInv, PolicyOK
    <3>2. ~(h >= MaxSize)
      BY <1>6, <3>1, MemoryOperators DEF Memory!Full
    <3> HIDE DEF h, s, n, h2, s2
    <3> QED BY <1>5, <2>2, <3>2
  <2> QED BY <1>1, <2>3, <2>4 DEF MemoryInv, Bounded
<1>7. CASE Memory!Full /\ mode # "ttl_only"
  <2>1. Memory!Removes(gone) /\ mode' = Memory!EvictionMode
    BY <1>7 DEF Memory!SetEnforces
  <2>2. Held' = Held \ gone /\ Listed' /\ stored' \in [CacheKeys -> CacheEntry \cup {Nil}]
    BY <1>1, <2>1, RemovesDoes
  <2>3. PolicyOK'
    BY <1>1, <2>1 DEF MemoryInv, PolicyOK, Memory!EvictionMode
  <2>4. ASSUME lru \/ policy = "fifo", policy # "ttl_only" PROVE h2 + s2 <= MaxSize + n - 1
    <3>1. PICK k \in Held : gone = {k}
      BY <1>7, <2>4, EvictsOne
    <3>2. h2 = h - 1
      BY <2>2, <3>1, CountsAreFinite, FS_RemoveElement
    <3>3. h + s <= MaxSize + n - 1
      BY <2>4 DEF MemoryInv, Bounded
    <3> HIDE DEF h, s, n, h2, s2
    <3> QED BY <1>5, <3>2, <3>3
  <2> QED BY <1>1, <1>4, <2>2, <2>3, <2>4 DEF MemoryInv, MemoryShapes, Bounded
<1> QED BY <1>6, <1>7

\* After its await it stores the entry that it made room for.
LEMMA SetStoresKeeps ==
  ASSUME NoEntryIsNone, MemoryInv, NEW c \in CacheSets, Memory!SetStores(c)
  PROVE  MemoryInv'
<1>1. /\ sets[c] # Nil /\ sets[c].step = "store"
      /\ sets' = [sets EXCEPT ![c] = Nil] /\ UNCHANGED <<time, policy, lru, mode>>
  BY DEF Memory!SetStores
<1>2. sets[c] \in SetCall /\ c \in Storing
  BY <1>1 DEF MemoryInv, MemoryShapes, Storing
<1>3. sets' \in [CacheSets -> SetCall \cup {Nil}] /\ Storing' = Storing \ {c}
  <2>1. sets' \in [CacheSets -> SetCall \cup {Nil}] /\ sets'[c] = Nil
        /\ \A d \in CacheSets : d # c => sets'[d] = sets[d]
    BY <1>1 DEF MemoryInv, MemoryShapes
  <2>2. \A d \in CacheSets : d \in Storing' <=> d \in Storing \ {c}
    BY <2>1 DEF Storing
  <2>3. Storing' \in SUBSET CacheSets /\ Storing \in SUBSET CacheSets
    BY DEF Storing
  <2> QED BY <2>1, <2>2, <2>3
<1>4. PolicyOK'
  BY <1>1 DEF MemoryInv, PolicyOK
<1> DEFINE k == sets[c].key
           t == sets[c].ttl
<1>5. k \in CacheKeys /\ t \in Nat
  BY <1>2 DEF SetCall, NoEntryIsNone
<1>6. CASE ~(t > 0)
  <2>1. UNCHANGED <<stored, order, used>>
    BY <1>6 DEF Memory!SetStores
  <2>2. Held' = Held
    BY <2>1 DEF Held
  <2>3. Bounded'
    BY <1>1, <1>3, <2>2, FewerAreBounded DEF MemoryInv
  <2> QED BY <1>1, <1>3, <1>4, <2>1, <2>2, <2>3 DEF MemoryInv, MemoryShapes, Listed
<1>7. CASE t > 0
  <2> DEFINE new == [expiresAt |-> time + t, accessTime |-> time]
  <2>1. /\ stored' = [stored EXCEPT ![k] = new]
        /\ order' = IF k \in Held THEN order ELSE Append(order, k)
        /\ used' = Memory!Touched(k)
    BY <1>7, MemoryOperators DEF Memory!SetStores
  <2>2. new \in CacheEntry /\ new # Nil
    <3>1. new \in CacheEntry
      BY <1>5 DEF CacheEntry, MemoryInv, MemoryShapes
    <3> QED BY <3>1 DEF NoEntryIsNone
  <2> HIDE DEF new, k, t
  <2>3. stored' \in [CacheKeys -> CacheEntry \cup {Nil}] /\ Held' = Held \cup {k}
    <3>1. stored' \in [CacheKeys -> CacheEntry \cup {Nil}] /\ stored'[k] = new
          /\ \A q \in CacheKeys : q # k => stored'[q] = stored[q]
      BY <1>5, <2>1, <2>2 DEF MemoryInv, MemoryShapes
    <3>2. \A q \in CacheKeys : q \in Held' <=> q \in Held \cup {k}
      BY <2>2, <3>1 DEF Held
    <3>3. Held' \in SUBSET CacheKeys /\ Held \cup {k} \in SUBSET CacheKeys
      BY <1>5 DEF Held
    <3> QED BY <3>1, <3>2, <3>3
  <2>4. Listed'
    <3>1. Lists(order', Held \cup {k})
      <4>1. CASE k \in Held
        <5>1. Held \cup {k} = Held
          BY <4>1
        <5> QED BY <2>1, <4>1, <5>1 DEF MemoryInv, Listed
      <4>2. CASE k \notin Held
        BY <1>5, <2>1, <4>2, AppendLists DEF MemoryInv, Listed
      <4> QED BY <4>1, <4>2
    <3>2. Lists(used', IF lru THEN Held \cup {k} ELSE {})
      BY <1>5, <2>1, TouchedLists DEF MemoryInv, Listed
    <3> QED BY <1>1, <2>3, <3>1, <3>2 DEF Listed
  <2>5. Bounded'
    <3> DEFINE h == Cardinality(Held)
               s == Cardinality(Storing)
               n == Cardinality(CacheSets)
               h2 == Cardinality(Held')
               s2 == Cardinality(Storing')
    <3>1. h \in Nat /\ s \in Nat /\ n \in Nat /\ MaxSize \in Nat
      BY CountsAreFinite DEF NoEntryIsNone
    <3>2. s2 = s - 1
      BY <1>2, <1>3, CountsAreFinite, FS_RemoveElement
    <3>3. h2 = h \/ h2 = h + 1
      BY <2>3, CountsAreFinite, FS_AddElement
    <3>4. ASSUME lru \/ policy = "fifo", policy # "ttl_only" PROVE h + s <= MaxSize + n - 1
      BY <3>4 DEF MemoryInv, Bounded
    <3> HIDE DEF h, s, n, h2, s2
    <3>5. h + s <= MaxSize + n - 1 => h2 + s2 <= MaxSize + n - 1
      BY <3>1, <3>2, <3>3
    <3> QED BY <1>1, <3>4, <3>5 DEF Bounded, h, s, n, h2, s2
  <2> QED BY <1>1, <1>3, <1>4, <2>3, <2>4, <2>5 DEF MemoryInv, MemoryShapes
<1> QED BY <1>6, <1>7

\* The other methods take entries out or use them.
LEMMA RemovalKeeps ==
  ASSUME NoEntryIsNone, MemoryInv, NEW ks, Memory!Removes(ks),
         UNCHANGED <<time, policy, lru, sets>>, PolicyOK'
  PROVE  MemoryInv'
<1>1. Held' \in SUBSET Held /\ Listed' /\ stored' \in [CacheKeys -> CacheEntry \cup {Nil}]
  BY RemovesDoes
<1>2. Storing' = Storing
  BY DEF Storing
<1>3. Bounded'
  BY <1>1, <1>2, FewerAreBounded DEF MemoryInv
<1> QED BY <1>1, <1>3 DEF MemoryInv, MemoryShapes

\* A get may remove what it finds expired.
LEMMA GetKeeps ==
  ASSUME NoEntryIsNone, MemoryInv, NEW k \in CacheKeys, Memory!Get(k)
  PROVE  MemoryInv'
<1>1. UNCHANGED <<time, policy, lru, sets>>
      /\ mode' = IF mode = "adaptive" THEN Memory!Checked ELSE mode
  BY DEF Memory!Get
<1>2. PolicyOK'
  BY <1>1 DEF MemoryInv, PolicyOK, Memory!Checked
<1>3. CASE k \notin Held \ Memory!Expired
  <2>1. Memory!Removes({k} \cap Memory!Expired)
    BY <1>3, MemoryOperators DEF Memory!Get
  <2> QED BY <1>1, <1>2, <2>1, RemovalKeeps
<1>4. CASE k \in Held \ Memory!Expired
  <2>1. /\ used' = Memory!Touched(k) /\ order' = order
        /\ stored' = IF lru THEN [stored EXCEPT ![k].accessTime = time] ELSE stored
    BY <1>4, MemoryOperators DEF Memory!Get
  <2>2. stored[k] \in CacheEntry /\ time \in Nat
    BY <1>4 DEF Held, MemoryInv, MemoryShapes
  <2>3. [stored[k] EXCEPT !.accessTime = time] \in CacheEntry
    BY <2>2 DEF CacheEntry
  <2>4. stored' \in [CacheKeys -> CacheEntry \cup {Nil}] /\ Held' = Held
    <3>1. /\ stored' \in [CacheKeys -> CacheEntry \cup {Nil}]
          /\ stored'[k] \in CacheEntry /\ \A q \in CacheKeys : q # k => stored'[q] = stored[q]
      BY <2>1, <2>2, <2>3 DEF MemoryInv, MemoryShapes
    <3>2. stored'[k] # Nil /\ k \in Held
      BY <1>4, <3>1 DEF NoEntryIsNone
    <3>3. \A q \in CacheKeys : q \in Held' <=> q \in Held
      BY <3>1, <3>2 DEF Held
    <3> QED BY <3>1, <3>3 DEF Held
  <2>5. Lists(used', IF lru THEN Held ELSE {})
    <3>1. Held \cup {k} = Held
      BY <1>4
    <3> QED BY <2>1, <3>1, TouchedLists DEF MemoryInv, Listed
  <2>6. Storing' = Storing
    BY <1>1 DEF Storing
  <2>7. Bounded'
    BY <1>1, <2>4, <2>6, FewerAreBounded DEF MemoryInv
  <2>8. Listed'
    BY <1>1, <2>1, <2>4, <2>5 DEF MemoryInv, Listed
  <2> QED BY <1>1, <1>2, <2>4, <2>7, <2>8 DEF MemoryInv, MemoryShapes
<1> QED BY <1>3, <1>4

\* Steps that touch neither the entries nor the calls.
LEMMA OthersKeep ==
  ASSUME NoEntryIsNone, MemoryInv, time' \in Nat,
         UNCHANGED <<policy, lru, mode, stored, order, used, sets>>
  PROVE  MemoryInv'
  BY DEF MemoryInv, MemoryShapes, Listed, PolicyOK, Bounded, Held, Storing

\* Every step of the cache keeps the invariant.
LEMMA MemoryStep ==
  ASSUME NoEntryIsNone, MemoryInv, [Memory!Next]_(Memory!vars)
  PROVE  MemoryInv'
<1>1. time \in Nat
  BY DEF MemoryInv, MemoryShapes
<1>2. ASSUME NEW k \in CacheKeys, Memory!Delete(k) PROVE MemoryInv'
  <2>1. PolicyOK'
    BY <1>2 DEF Memory!Delete, MemoryInv, PolicyOK
  <2> QED BY <1>2, <2>1, RemovalKeeps DEF Memory!Delete
<1>3. ASSUME Memory!Clear \/ Memory!CleanupExpired PROVE MemoryInv'
  <2>1. PolicyOK'
    BY <1>3 DEF Memory!Clear, Memory!CleanupExpired, MemoryInv, PolicyOK
  <2> QED BY <1>3, <2>1, RemovalKeeps DEF Memory!Clear, Memory!CleanupExpired
<1>4. ASSUME \/ Memory!UpdateMemoryStats \/ Memory!CheckMemoryAlerts \/ Memory!Tick
             \/ UNCHANGED Memory!vars
      PROVE  MemoryInv'
  BY <1>1, <1>4, OthersKeep
  DEF Memory!UpdateMemoryStats, Memory!CheckMemoryAlerts, Memory!Tick, Memory!vars
<1> QED
  BY <1>2, <1>3, <1>4, SetBeginsKeeps, SetCleansUpKeeps, SetEnforcesKeeps, SetStoresKeeps, GetKeeps
  DEF Memory!Next

\* The cache starts empty.
LEMMA MemoryStarts == ASSUME NoEntryIsNone PROVE Memory!Init => MemoryInv
<1> SUFFICES ASSUME Memory!Init PROVE MemoryInv
  OBVIOUS
<1>1. /\ time = 0 /\ mode = policy /\ order = <<>> /\ used = <<>>
      /\ stored = [k \in CacheKeys |-> Nil] /\ sets = [c \in CacheSets |-> Nil]
  BY DEF Memory!Init
<1>2. Held = {} /\ Storing = {}
  BY <1>1 DEF Held, Storing
<1>3. Lists(<<>>, {})
  BY DEF Lists, Distinct, Elements
<1>4. MemoryShapes /\ Listed /\ PolicyOK
  BY <1>1, <1>2, <1>3 DEF MemoryShapes, Listed, PolicyOK
<1>5. Bounded
  <2>1. Cardinality(Held) = 0 /\ Cardinality(Storing) = 0
    BY <1>2, FS_EmptySet
  <2>2. Cardinality(CacheSets) \in Nat /\ MaxSize \in Nat /\ MaxSize >= 1
    BY CountsAreFinite DEF NoEntryIsNone
  <2> QED BY <2>1, <2>2 DEF Bounded
<1> QED BY <1>4, <1>5 DEF MemoryInv

\* The invariant bounds what the module bounds.
LEMMA MemoryPromises ==
  ASSUME NoEntryIsNone, MemoryInv
  PROVE  Memory!WithinConcurrency
  BY MemoryOperators DEF MemoryInv, Bounded, Storing, Memory!WithinConcurrency

\* In lib/cache/advanced-memory-cache.ts overlapping calls of set pass the limit by at
\* most one less than their number, those about to store included, for any limit, any
\* policy that finds a key to evict, and any reads, removals and cleanups among them.
THEOREM WithinConcurrencyAlways ==
  ASSUME NoEntryIsNone
  PROVE  Memory!Spec => []Memory!WithinConcurrency
  BY MemoryStarts, MemoryStep, MemoryPromises, PTL DEF Memory!Spec

\* The cache moves by its own steps.
LEMMA MemoryMoves ==
  ASSUME [MCNext]_all
  PROVE  part' = part /\ (part = "memory" => [Memory!Next]_(Memory!vars))
  BY DEF MCNext, all, rest1, Memory!vars

\* The same of the composition.
THEOREM WithinConcurrencyComposed ==
  ASSUME NoEntryIsNone
  PROVE  MCSpec => []WithinConcurrency
<1> DEFINE Inv == part = "memory" => MemoryInv
<1>1. MCInit => Inv
  BY MemoryStarts DEF MCInit
<1>2. Inv /\ [MCNext]_all => Inv'
  BY MemoryMoves, MemoryStep
<1>3. Inv => WithinConcurrency
  BY MemoryPromises DEF WithinConcurrency
<1> QED BY <1>1, <1>2, <1>3, PTL DEF MCSpec

-----------------------------------------------------------------------------
(* The order of the accesses to the cache, and the cache's types.           *)

\* What is left of a sequence keeps its order.
LEMMA WithoutInOrder ==
  ASSUME NEW S, NEW s \in Seq(S), NEW ks,
         NEW k \in DOMAIN Without(s, ks), NEW l \in DOMAIN Without(s, ks), k < l
  PROVE  \E i, j \in DOMAIN s :
           i < j /\ Without(s, ks)[k] = s[i] /\ Without(s, ks)[l] = s[j] /\ s[i] \notin ks /\ s[j] \notin ks
<1> DEFINE kept == {i \in DOMAIN s : s[i] \notin ks}
           Upto(i) == {j \in kept : j <= i}
           n == Cardinality(kept)
           Nth(m) == CHOOSE i \in kept : Cardinality(Upto(i)) = m
<1>1. DOMAIN s = 1..Len(s) /\ Len(s) \in Nat
  OBVIOUS
<1>2. kept \in SUBSET (1..Len(s)) /\ kept \subseteq Nat
  BY <1>1
<1>3. \A m \in 1..n : \E i \in kept : Cardinality(Upto(i)) = m
  <2> HIDE DEF kept
  <2> QED
    BY <1>1, <1>2, Places
<1>4. Without(s, ks) = [m \in 1..n |-> s[Nth(m)]]
  BY DEF Without
<1>5. n \in Nat
  BY <1>1, <1>2, Places
<1>6. k \in 1..n /\ l \in 1..n
  BY <1>4
<1>7. Nth(k) \in kept /\ Cardinality(Upto(Nth(k))) = k /\ Nth(l) \in kept /\ Cardinality(Upto(Nth(l))) = l
  BY <1>3, <1>6
<1> DEFINE i == Nth(k)
           j == Nth(l)
<1>8. Without(s, ks)[k] = s[i] /\ Without(s, ks)[l] = s[j]
  BY <1>4, <1>6
<1> HIDE DEF Nth, kept, n
<1>9. i < j
  <2> SUFFICES ASSUME ~ (i < j) PROVE FALSE
    OBVIOUS
  <2>1. Upto(j) \subseteq Upto(i)
    <3>1. i \in Nat /\ j \in Nat
      BY <1>2, <1>7
    <3> HIDE DEF i, j
    <3>2. \A m \in Nat : m <= j => m <= i
      BY <3>1
    <3> QED
      BY <1>2, <3>2
  <2>2. IsFiniteSet(Upto(i))
    <3>1. IsFiniteSet(1..Len(s))
      BY <1>1, FS_Interval
    <3> QED
      BY <1>2, <3>1, FS_Subset
  <2>3. Cardinality(Upto(j)) <= Cardinality(Upto(i))
    <3> HIDE DEF Upto, i, j
    <3> QED
      BY <2>1, <2>2, FS_Subset
  <2>4. Cardinality(Upto(j)) = l /\ Cardinality(Upto(i)) = k
    BY <1>7
  <2>5. k \in Nat /\ l \in Nat
    BY <1>5, <1>6
  <2> HIDE DEF Upto, i, j
  <2>6. l <= k
    BY <2>3, <2>4
  <2> QED
    BY <2>5, <2>6
<1> QED
  BY <1>7, <1>8, <1>9 DEF kept

\* The keys of s in the order of their last use.
Rising(s, f) ==
  \A i, j \in DOMAIN s : i < j => f[s[i]].accessTime <= f[s[j]].accessTime

\* An order stays one of last accesses when keys are taken out.
LEMMA RisingWithout ==
  ASSUME NEW S, NEW s \in Seq(S), NEW f, Rising(s, f), NEW ks
  PROVE  Rising(Without(s, ks), f)
<1> SUFFICES ASSUME NEW k \in DOMAIN Without(s, ks), NEW l \in DOMAIN Without(s, ks), k < l
             PROVE  f[Without(s, ks)[k]].accessTime <= f[Without(s, ks)[l]].accessTime
  BY DEF Rising
<1>1. PICK i \in DOMAIN s, j \in DOMAIN s :
        i < j /\ Without(s, ks)[k] = s[i] /\ Without(s, ks)[l] = s[j]
  BY WithoutInOrder
<1> QED
  BY <1>1 DEF Rising

\* Only the times of access of the keys in the order matter.
LEMMA RisingSame ==
  ASSUME NEW s, NEW f, NEW g, Rising(s, f),
         \A k \in Elements(s) : g[k].accessTime = f[k].accessTime
  PROVE  Rising(s, g)
BY DEF Rising, Elements

\* The key accessed last may come last.
LEMMA RisingAppend ==
  ASSUME NEW S, NEW s \in Seq(S), NEW f, Rising(s, f), NEW k \in S,
         \A q \in Elements(s) : f[q].accessTime <= f[k].accessTime
  PROVE  Rising(Append(s, k), f)
<1> DEFINE t == Append(s, k)
<1>1. /\ Len(s) \in Nat /\ DOMAIN t = 1..(Len(s) + 1) /\ DOMAIN s = 1..Len(s)
      /\ t[Len(s) + 1] = k /\ \A i \in 1..Len(s) : t[i] = s[i]
  OBVIOUS
<1> HIDE DEF t
<1>2. ASSUME NEW i \in DOMAIN t, NEW j \in DOMAIN t, i < j
      PROVE  f[t[i]].accessTime <= f[t[j]].accessTime
  <2>1. i \in 1..Len(s)
    BY <1>1, <1>2
  <2>2. CASE j \in 1..Len(s)
    BY <1>1, <1>2, <2>1, <2>2 DEF Rising
  <2>3. CASE j = Len(s) + 1
    BY <1>1, <2>1, <2>3 DEF Elements
  <2> QED
    BY <1>1, <2>2, <2>3
<1> QED
  BY <1>2 DEF Rising, t

\* Use is in order, and none is of a time to come.
UsedInv ==
  /\ mode \in {"lru", "fifo", "ttl_only", "adaptive"}
  /\ hits \in Nat /\ misses \in Nat /\ hits + misses <= MaxReads
  /\ \A k \in Held : stored[k].accessTime <= time
  /\ Rising(used, stored)

\* The cache's initial states.
LEMMA UsedStarts ==
  ASSUME NoEntryIsNone, MaxReads \in Nat, Memory!Init
  PROVE  UsedInv
<1>1. /\ mode \in {"lru", "fifo", "ttl_only", "adaptive"} /\ hits = 0 /\ misses = 0 /\ used = <<>>
      /\ stored = [k \in CacheKeys |-> Nil]
  BY DEF Memory!Init
<1>2. Held = {}
  BY <1>1 DEF Held
<1> QED
  BY <1>1, <1>2 DEF UsedInv, Rising

\* Where use is not tracked it is in order.
LEMMA Untracked ==
  ASSUME MemoryInv, ~lru, NEW f
  PROVE  Rising(used, f)
<1>1. Elements(used) = {}
  BY DEF MemoryInv, Listed, Lists
<1>2. DOMAIN used = {}
  BY <1>1 DEF Elements
<1> QED
  BY <1>2 DEF Rising

\* Entries that go leave the others in order.
LEMMA RemovedInOrder ==
  ASSUME NoEntryIsNone, MemoryInv, UsedInv, NEW ks, Memory!Removes(ks), UNCHANGED <<time, lru>>
  PROVE  (\A k \in Held' : stored'[k].accessTime <= time') /\ Rising(used', stored')
<1>1. /\ stored' = [k \in CacheKeys |-> IF k \in ks THEN Nil ELSE stored[k]]
      /\ used' = Without(used, ks)
  BY MemoryOperators DEF Memory!Removes
<1>2. Held' = Held \ ks
  BY RemovesDoes
<1>3. \A k \in Held' : k \in Held /\ stored'[k] = stored[k]
  BY <1>1, <1>2 DEF Held
<1>4. used \in Seq(CacheKeys) /\ Distinct(used) /\ Elements(used) \subseteq Held
  BY DEF MemoryInv, Listed, Lists
<1>5. Rising(used', stored)
  BY <1>1, <1>4, RisingWithout DEF UsedInv
<1>6. Elements(used') = Elements(used) \ ks
  BY <1>1, <1>4, WithoutDoes
<1>7. Rising(used', stored')
  BY <1>2, <1>3, <1>4, <1>5, <1>6, RisingSame
<1> QED
  BY <1>3, <1>7 DEF UsedInv

\* The entry that is stored or read is the last one used.
LEMMA TouchedInOrder ==
  ASSUME NoEntryIsNone, MemoryInv, MemoryInv', UsedInv, UNCHANGED <<time, lru>>,
         NEW k \in CacheKeys, used' = Memory!Touched(k), Held' \subseteq Held \cup {k},
         \A q \in Held : q # k => stored'[q] = stored[q],
         k \in Held' => stored'[k].accessTime <= time, lru => stored'[k].accessTime = time
  PROVE  (\A q \in Held' : stored'[q].accessTime <= time') /\ Rising(used', stored')
<1>1. \A q \in Held' : stored'[q].accessTime <= time'
  <2> SUFFICES ASSUME NEW q \in Held' PROVE stored'[q].accessTime <= time
    OBVIOUS
  <2>1. CASE q = k
    BY <2>1
  <2>2. CASE q # k
    <3>1. q \in Held
      BY <2>2
    <3> QED
      BY <2>2, <3>1 DEF UsedInv
  <2> QED
    BY <2>1, <2>2
<1>2. CASE ~lru
  <2>1. \A f : Rising(used, f)
    BY <1>2, Untracked
  <2>2. used' = used
    BY <1>2 DEF Memory!Touched
  <2>3. Rising(used, stored')
    BY <2>1
  <2> QED
    BY <1>1, <2>2, <2>3
<1>3. CASE lru
  <2> DEFINE s == Without(used, {k})
  <2>1. used' = Append(s, k)
    BY <1>3, MemoryOperators DEF Memory!Touched
  <2>2. used \in Seq(CacheKeys) /\ Distinct(used) /\ Elements(used) = Held
    BY <1>3 DEF MemoryInv, Listed, Lists
  <2>3. s \in Seq(CacheKeys) /\ Elements(s) = Held \ {k}
    BY <2>2, WithoutDoes
  <2>4. Rising(s, stored)
    BY <2>2, RisingWithout DEF UsedInv
  <2> HIDE DEF s
  <2>5. Rising(s, stored')
    BY <2>3, <2>4, RisingSame
  <2>6. \A q \in Elements(s) : stored'[q].accessTime <= stored'[k].accessTime
    BY <1>3, <2>3 DEF UsedInv
  <2>7. Rising(Append(s, k), stored')
    BY <2>3, <2>5, <2>6, RisingAppend
  <2> QED
    BY <1>1, <2>1, <2>7
<1> QED
  BY <1>2, <1>3

Modes == {"lru", "fifo", "ttl_only", "adaptive"}

\* Steps that leave the entries and their use alone.
LEMMA UsedAsBefore ==
  ASSUME NoEntryIsNone, MemoryInv, UsedInv, mode' \in Modes, time' \in Nat, time <= time',
         UNCHANGED <<stored, used, hits, misses>>
  PROVE  UsedInv'
<1>1. Held' = Held
  BY DEF Held
<1>2. ASSUME NEW k \in Held PROVE stored[k].accessTime <= time'
  <2>1. stored[k].accessTime \in Nat /\ time \in Nat /\ stored[k].accessTime <= time
    BY <1>2 DEF Held, MemoryInv, MemoryShapes, CacheEntry, UsedInv
  <2> QED
    BY <2>1
<1> QED
  BY <1>1, <1>2 DEF UsedInv, Rising, Modes

\* Steps that only take entries out.
LEMMA UsedWithout ==
  ASSUME NoEntryIsNone, MemoryInv, UsedInv, mode' \in Modes, NEW ks, Memory!Removes(ks),
         UNCHANGED <<time, lru, hits>>, misses' \in Nat, hits + misses' <= MaxReads
  PROVE  UsedInv'
<1>1. (\A k \in Held' : stored'[k].accessTime <= time') /\ Rising(used', stored')
  BY RemovedInOrder
<1> QED
  BY <1>1 DEF UsedInv, Modes, Rising

\* The policies that the checks switch to.
LEMMA ModesAre ==
  ASSUME UsedInv
  PROVE  mode \in Modes /\ Memory!Checked \in Modes /\ Memory!EvictionMode \in Modes
BY DEF UsedInv, Modes, Memory!Checked, Memory!EvictionMode

\* Storing a value.
LEMMA UsedWhenStored ==
  ASSUME NoEntryIsNone, MemoryInv, MemoryInv', UsedInv, NEW c \in CacheSets, Memory!SetStores(c)
  PROVE  UsedInv'
<1> DEFINE k == sets[c].key
           t == sets[c].ttl
           new == [expiresAt |-> time + t, accessTime |-> time]
<1>1. /\ sets[c] # Nil /\ UNCHANGED <<time, policy, lru, mode, hits, misses>>
      /\ IF t > 0 THEN stored' = [stored EXCEPT ![k] = new] /\ used' = Memory!Touched(k)
         ELSE UNCHANGED <<stored, used>>
  BY DEF Memory!SetStores
<1>2. sets[c] \in SetCall
  BY <1>1 DEF MemoryInv, MemoryShapes
<1>3. k \in CacheKeys /\ time \in Nat
  BY <1>2 DEF SetCall, MemoryInv, MemoryShapes
<1>4. CASE ~ (t > 0)
  <2>1. mode' \in Modes /\ time' \in Nat /\ time <= time'
    BY <1>1, <1>3, ModesAre
  <2> QED
    BY <1>1, <1>4, <2>1, UsedAsBefore
<1>5. CASE t > 0
  <2>1. new.accessTime = time
    OBVIOUS
  <2>2. stored' = [stored EXCEPT ![k] = new] /\ used' = Memory!Touched(k)
    BY <1>1, <1>5
  <2> HIDE DEF k, new, t
  <2>3. stored'[k] = new /\ \A q \in CacheKeys : q # k => stored'[q] = stored[q]
    BY <1>3, <2>2 DEF MemoryInv, MemoryShapes
  <2>4. Held' \subseteq Held \cup {k}
    BY <2>3 DEF Held
  <2>5. \A q \in Held : q # k => stored'[q] = stored[q]
    BY <2>3 DEF Held
  <2>6. stored'[k].accessTime = time /\ stored'[k].accessTime <= time
    BY <1>3, <2>1, <2>3
  <2>7. (\A q \in Held' : stored'[q].accessTime <= time') /\ Rising(used', stored')
    BY <1>1, <1>3, <2>2, <2>4, <2>5, <2>6, TouchedInOrder
  <2> QED
    BY <1>1, <2>7 DEF UsedInv, Rising
<1> QED
  BY <1>4, <1>5

\* A read: a hit moves the entry to the end, an expired entry goes.
LEMMA UsedWhenRead ==
  ASSUME NoEntryIsNone, MaxReads \in Nat, MemoryInv, MemoryInv', UsedInv, NEW k \in CacheKeys, Memory!Get(k)
  PROVE  UsedInv'
<1>1. /\ hits + misses < MaxReads /\ UNCHANGED <<time, policy, lru>>
      /\ mode' = IF mode = "adaptive" THEN Memory!Checked ELSE mode
  BY DEF Memory!Get
<1>2. mode' \in Modes
  BY <1>1, ModesAre
<1>3. hits \in Nat /\ misses \in Nat
  BY DEF UsedInv
<1>4. CASE k \notin Held \ Memory!Expired
  <2>1. Memory!Removes({k} \cap Memory!Expired) /\ misses' = misses + 1 /\ hits' = hits
    BY <1>4, MemoryOperators DEF Memory!Get
  <2>2. misses' \in Nat /\ hits + misses' <= MaxReads
    BY <1>1, <1>3, <2>1
  <2> QED
    BY <1>1, <1>2, <2>1, <2>2, UsedWithout
<1>5. CASE k \in Held \ Memory!Expired
  <2>1. /\ used' = Memory!Touched(k) /\ hits' = hits + 1 /\ misses' = misses
        /\ stored' = IF lru THEN [stored EXCEPT ![k].accessTime = time] ELSE stored
    BY <1>5, MemoryOperators DEF Memory!Get
  <2>2. stored[k] \in CacheEntry /\ time \in Nat /\ k \in Held
    BY <1>5 DEF Held, MemoryInv, MemoryShapes
  <2>3. \A q \in CacheKeys : q # k => stored'[q] = stored[q]
    BY <2>1 DEF MemoryInv, MemoryShapes
  <2>4. lru => stored'[k].accessTime = time
    BY <2>1, <2>2 DEF MemoryInv, MemoryShapes, CacheEntry
  <2>5. stored'[k].accessTime <= time
    <3>1. CASE lru
      BY <2>2, <2>4, <3>1
    <3>2. CASE ~lru
      BY <2>1, <2>2, <3>2 DEF UsedInv
    <3> QED
      BY <3>1, <3>2
  <2>6. Held' \subseteq Held \cup {k}
    BY <2>3 DEF Held
  <2>7. \A q \in Held : q # k => stored'[q] = stored[q]
    BY <2>3 DEF Held
  <2>8. (\A q \in Held' : stored'[q].accessTime <= time') /\ Rising(used', stored')
    BY <1>1, <2>1, <2>4, <2>5, <2>6, <2>7, TouchedInOrder
  <2>9. hits' \in Nat /\ misses' \in Nat /\ hits' + misses' <= MaxReads
    BY <1>1, <1>3, <2>1
  <2> QED
    BY <1>2, <2>8, <2>9 DEF UsedInv, Modes, Rising
<1> QED
  BY <1>4, <1>5

\* Every step of the cache keeps the order of use.
LEMMA UsedStep ==
  ASSUME NoEntryIsNone, MaxReads \in Nat, MemoryInv, MemoryInv', UsedInv, [Memory!Next]_(Memory!vars)
  PROVE  UsedInv'
<1>1. /\ mode \in Modes /\ Memory!Checked \in Modes /\ Memory!EvictionMode \in Modes
      /\ time \in Nat /\ time <= time
  BY ModesAre DEF MemoryInv, MemoryShapes
<1>2. misses \in Nat /\ hits + misses <= MaxReads
  BY DEF UsedInv
<1>3. ASSUME NEW c \in CacheSets, NEW k \in CacheKeys, NEW t \in Ttls, Memory!SetBegins(c, k, t)
      PROVE  UsedInv'
  <2>1. CASE mode = "adaptive"
    <3>1. mode' = Memory!Checked /\ UNCHANGED <<stored, used, time, hits, misses>>
      BY <1>3, <2>1 DEF Memory!SetBegins
    <3> QED
      BY <1>1, <3>1, UsedAsBefore
  <2>2. CASE mode # "adaptive"
    <3>1. mode' = mode /\ Memory!Cleanup /\ UNCHANGED <<time, lru, hits, misses>>
      BY <1>3, <2>2 DEF Memory!SetBegins
    <3> QED
      BY <1>1, <1>2, <3>1, UsedWithout DEF Memory!Cleanup
  <2> QED
    BY <2>1, <2>2
<1>4. ASSUME NEW c \in CacheSets, Memory!SetCleansUp(c) PROVE UsedInv'
  <2>1. mode' = mode /\ Memory!Cleanup /\ UNCHANGED <<time, lru, hits, misses>>
    BY <1>4 DEF Memory!SetCleansUp
  <2> QED
    BY <1>1, <1>2, <2>1, UsedWithout DEF Memory!Cleanup
<1>5. ASSUME NEW c \in CacheSets, Memory!SetEnforces(c) PROVE UsedInv'
  <2>1. UNCHANGED <<time, lru, hits, misses>>
    BY <1>5 DEF Memory!SetEnforces
  <2>2. CASE Memory!Full /\ mode # "ttl_only"
    <3>1. Memory!Removes(Memory!Victims(Memory!EvictionMode)) /\ mode' = Memory!EvictionMode
      BY <1>5, <2>2 DEF Memory!SetEnforces
    <3> QED
      BY <1>1, <1>2, <2>1, <3>1, UsedWithout
  <2>3. CASE ~ (Memory!Full /\ mode # "ttl_only")
    <3>1. UNCHANGED <<stored, used, mode>>
      BY <1>5, <2>3 DEF Memory!SetEnforces
    <3> QED
      BY <1>1, <2>1, <3>1, UsedAsBefore
  <2> QED
    BY <2>2, <2>3
<1>6. ASSUME NEW c \in CacheSets, Memory!SetStores(c) PROVE UsedInv'
  BY <1>6, UsedWhenStored
<1>7. ASSUME NEW k \in CacheKeys, Memory!Get(k) PROVE UsedInv'
  BY <1>7, UsedWhenRead
<1>8. ASSUME NEW k \in CacheKeys, Memory!Delete(k) PROVE UsedInv'
  <2>1. Memory!Removes({k}) /\ mode' = mode /\ UNCHANGED <<time, lru, hits, misses>>
    BY <1>8 DEF Memory!Delete
  <2> QED
    BY <1>1, <1>2, <2>1, UsedWithout
<1>9. CASE Memory!Clear
  <2>1. Memory!Removes(CacheKeys) /\ mode' = mode /\ UNCHANGED <<time, lru, hits, misses>>
    BY <1>9 DEF Memory!Clear
  <2> QED
    BY <1>1, <1>2, <2>1, UsedWithout
<1>10. CASE Memory!CleanupExpired
  <2>1. Memory!Removes(Memory!Expired) /\ mode' = mode /\ UNCHANGED <<time, lru, hits, misses>>
    BY <1>10 DEF Memory!CleanupExpired
  <2> QED
    BY <1>1, <1>2, <2>1, UsedWithout
<1>11. ASSUME Memory!UpdateMemoryStats \/ Memory!CheckMemoryAlerts \/ Memory!Tick \/ UNCHANGED Memory!vars
       PROVE  UsedInv'
  <2>1. mode' = mode /\ UNCHANGED <<stored, used, hits, misses>> /\ time' \in {time, time + 1}
    BY <1>11 DEF Memory!UpdateMemoryStats, Memory!CheckMemoryAlerts, Memory!Tick, Memory!vars
  <2>2. time' \in Nat /\ time <= time'
    BY <1>1, <2>1
  <2> QED
    BY <1>1, <2>1, <2>2, UsedAsBefore
<1> QED
  BY <1>3, <1>4, <1>5, <1>6, <1>7, <1>8, <1>9, <1>10, <1>11 DEF Memory!Next

\* The types of the cache: both orders list its keys, each once, in their order.
LEMMA MemoryTypes ==
  ASSUME NoEntryIsNone, MaxReads \in Nat, MemoryInv, UsedInv
  PROVE  Memory!TypeOK
<1>1. \A s : Memory!Elements(s) = Elements(s)
  BY DEF Memory!Elements, Elements
<1>2. Memory!Held = Held /\ \A S : Memory!Cardinality(S) = Cardinality(S)
  BY MemoryOperators
<1>3. Elements(order) = Held /\ Len(order) = Cardinality(Held)
  BY DistinctLen DEF MemoryInv, Listed, Lists
<1>4. CASE lru
  <2>1. Elements(used) = Held /\ Len(used) = Cardinality(Held)
    BY <1>4, DistinctLen DEF MemoryInv, Listed, Lists
  <2> QED
    BY <1>1, <1>2, <1>3, <1>4, <2>1 DEF Memory!TypeOK, UsedInv, Rising, MemoryInv, PolicyOK
<1>5. CASE ~lru
  <2>1. used \in Seq(CacheKeys) /\ Elements(used) = {}
    BY <1>5 DEF MemoryInv, Listed, Lists
  <2>2. used = <<>>
    <3>1. DOMAIN used = {}
      BY <2>1 DEF Elements
    <3> QED
      BY <2>1, <3>1
  <2> QED
    BY <1>1, <1>2, <1>3, <1>5, <2>2 DEF Memory!TypeOK, UsedInv, Rising, MemoryInv, PolicyOK
<1> QED
  BY <1>4, <1>5

--------------------------------------------------------------------------------
(* The heap of the job queue (lib/jobs/memory-job-queue.ts).                       *)

\* What swap() does to an array.
LEMMA SwapIs ==
  ASSUME NEW E, NEW h \in Seq(E), NEW i \in DOMAIN h, NEW j \in DOMAIN h
  PROVE  /\ Swap(h, i, j) \in Seq(E)
         /\ Len(Swap(h, i, j)) = Len(h)
         /\ DOMAIN Swap(h, i, j) = DOMAIN h
         /\ Swap(h, i, j)[j] = h[i]
         /\ Swap(h, i, j)[i] = h[j]
         /\ \A k \in DOMAIN h : k # i /\ k # j => Swap(h, i, j)[k] = h[k]
<1> DEFINE n == Len(h)
           g == Swap(h, i, j)
<1>1. n \in Nat /\ DOMAIN h = 1..n /\ h \in [1..n -> E]
  OBVIOUS
<1>2. g \in [1..n -> E]
  BY <1>1 DEF Swap
<1>3. g \in Seq(E) /\ Len(g) = n /\ DOMAIN g = 1..n
  BY <1>1, <1>2
<1> QED
  BY <1>1, <1>3 DEF Swap

\* BubbleUp ends here, with the array as it is.
Settled(at) == at[2] = 1 \/ at[1][at[2] \div 2].priority >= at[1][at[2]].priority

\* A position but the first has a parent in the array.
LEMMA HalfIsIn ==
  ASSUME NEW n \in Nat, NEW i \in 1..n, i # 1
  PROVE  i \div 2 \in 1..n /\ i \div 2 < i
OBVIOUS

\* The recursion of BubbleUp defines a function, and so its equation holds.
LEMMA BubbleUpIs ==
  BubbleUp = [at \in Positions |->
    IF Settled(at) THEN at[1]
    ELSE BubbleUp[<<Swap(at[1], at[2] \div 2, at[2]), at[2] \div 2>>]]
<1> DEFINE done == {at \in Positions : Settled(at)}
           Up(at) == <<Swap(at[1], at[2] \div 2, at[2]), at[2] \div 2>>
           next == [at \in Positions |-> IF Settled(at) THEN at ELSE Up(at)]
           res == [at \in Positions |-> at[1]]
           Def(f) == [at \in Positions |-> IF Settled(at) THEN at[1] ELSE f[Up(at)]]
<1>1. ASSUME NEW at \in Positions, ~ Settled(at) PROVE Up(at) \in Positions
  <2>1. at[1] \in Arrays /\ at[2] \in 1..Len(at[1]) /\ at[2] # 1 /\ Len(at[1]) \in Nat
    BY <1>1 DEF Positions, Settled, Arrays
  <2>2. at[2] \div 2 \in 1..Len(at[1])
    BY <2>1, HalfIsIn
  <2>3. DOMAIN at[1] = 1..Len(at[1])
    BY <2>1 DEF Arrays
  <2> DEFINE h == at[1]
             p == at[2] \div 2
             i == at[2]
             E == [item : Items, priority : Priorities]
  <2>4. Swap(h, p, i) \in Arrays /\ Len(Swap(h, p, i)) = Len(h)
    <3>1. h \in Seq(E) /\ i \in DOMAIN h /\ p \in DOMAIN h
      BY <2>1, <2>2, <2>3 DEF Arrays
    <3> HIDE DEF h, p, i, E
    <3>2. Swap(h, p, i) \in Seq(E) /\ Len(Swap(h, p, i)) = Len(h)
      BY <3>1, SwapIs
    <3> QED
      BY <3>2 DEF Arrays, E
  <2> QED
    BY <2>1, <2>2, <2>4 DEF Positions
<1> HIDE DEF Up
<1>2. next \in [Positions -> Positions]
  BY <1>1
<1> HIDE DEF next, done, res
<1>3. PICK f : f = [at \in Positions |-> IF at \in done THEN res[at] ELSE f[next[at]]]
  <2>1. PICK f : TailCalls(f, Positions, done, next, res)
    BY <1>2, TailRecursion
  <2> QED
    BY <2>1 DEF TailCalls
<1>4. \A at \in Positions : (IF at \in done THEN res[at] ELSE f[next[at]]) = IF Settled(at) THEN at[1] ELSE f[Up(at)]
  BY DEF next, done, res
<1>5. f = Def(f)
  BY <1>3, <1>4
<1>6. BubbleUp = CHOOSE g : g = Def(g)
  BY DEF BubbleUp, Settled, Up
<1>7. BubbleUp = Def(BubbleUp)
  BY <1>5, <1>6, Zenon
<1> QED
  BY <1>7 DEF Up


\* SinkDown ends here; else it goes on at Sunk.
AtBottom(at) == Largest(at[1], at[2]) = at[2]
Sunk(at) == <<Swap(at[1], at[2], Largest(at[1], at[2])), Largest(at[1], at[2])>>

\* What an array is.
LEMMA EntriesAre ==
  ASSUME NEW h \in Arrays
  PROVE  /\ Len(h) \in Nat /\ DOMAIN h = 1..Len(h)
         /\ \A k \in 1..Len(h) : h[k] \in [item : Items, priority : Priorities]
<1> DEFINE E == [item : Items, priority : Priorities]
<1>1. h \in Seq(E)
  BY DEF Arrays
<1> HIDE DEF E
<1>2. Len(h) \in Nat /\ DOMAIN h = 1..Len(h) /\ \A k \in 1..Len(h) : h[k] \in E
  BY <1>1
<1> QED
  BY <1>2 DEF E

\* Largest is the position itself or a child that is above it, the larger one.
LEMMA LargestIs ==
  ASSUME NEW h \in Arrays, NEW i \in 1..Len(h)
  PROVE  /\ Largest(h, i) \in 1..Len(h)
         /\ Largest(h, i) # i =>
              Largest(h, i) \div 2 = i /\ h[i].priority < h[Largest(h, i)].priority
         /\ \A j \in 2..Len(h) : j \div 2 = i => h[j].priority <= h[Largest(h, i)].priority
<1> DEFINE n == Len(h)
           p == [k \in 1..n |-> h[k].priority]
           left == 2 * i
           right == 2 * i + 1
           l == IF left <= n /\ p[left] > p[i] THEN left ELSE i
           r == IF right <= n /\ p[right] > p[l] THEN right ELSE l
<1>1. n \in Nat /\ \A k \in 1..n : h[k] \in [item : Items, priority : Priorities]
  BY EntriesAre
<1>2. \A k \in 1..n : h[k].priority \in Int
  BY <1>1, PrioritiesAreNumbers
<1>3. p \in [1..n -> Int] /\ i \in 1..n /\ \A k \in 1..n : h[k].priority = p[k]
  BY <1>1, <1>2
<1>4. l \in 1..n /\ Largest(h, i) = r
  BY <1>1, <1>3 DEF Largest
<1>6. left \in Nat /\ right \in Nat /\ left # i /\ right # i /\ left # right
      /\ left \div 2 = i /\ right \div 2 = i /\ left >= 1 /\ right >= 1
      /\ \A j \in 2..n : j \div 2 = i => j = left \/ j = right
  <2>1. i \in Nat \ {0}
    BY <1>1, <1>3
  <2>2. ASSUME NEW j \in 2..n, j \div 2 = i PROVE j = left \/ j = right
    BY <2>1, <2>2
  <2>3. left \in Nat /\ right \in Nat /\ left # i /\ right # i /\ left # right
        /\ left >= 1 /\ right >= 1
    BY <2>1
  <2>4. left \div 2 = i /\ right \div 2 = i
    BY <2>1
  <2> QED
    BY <2>2, <2>3, <2>4
<1> HIDE DEF p, n, left, right
<1>5. /\ r \in 1..n
      /\ r # i => r \div 2 = i /\ p[i] < p[r]
      /\ \A j \in 2..n : j \div 2 = i => p[j] <= p[r]
  <2>1. p[i] \in Int /\ (left <= n => p[left] \in Int) /\ (right <= n => p[right] \in Int)
    BY <1>1, <1>3, <1>6
  <2>2. r \in 1..n /\ (r # i => r \div 2 = i /\ p[i] < p[r])
    BY <1>1, <1>3, <1>6, <2>1
  <2>3. (left <= n => p[left] <= p[r]) /\ (right <= n => p[right] <= p[r])
    BY <1>1, <1>3, <1>6, <2>1
  <2> QED
    BY <1>6, <1>1, <2>2, <2>3
<1> QED
  BY <1>1, <1>3, <1>4, <1>5, SMTT(30) DEF n

\* The recursion of SinkDown defines a function, and so its equation holds.
LEMMA SinkDownIs ==
  SinkDown = [at \in Positions |-> IF AtBottom(at) THEN at[1] ELSE SinkDown[Sunk(at)]]
<1> DEFINE done == {at \in Positions : AtBottom(at)}
           next == [at \in Positions |-> IF AtBottom(at) THEN at ELSE Sunk(at)]
           res == [at \in Positions |-> at[1]]
           Def(f) == [at \in Positions |-> IF AtBottom(at) THEN at[1] ELSE f[Sunk(at)]]
<1>1. ASSUME NEW at \in Positions, ~ AtBottom(at) PROVE Sunk(at) \in Positions
  <2> DEFINE h == at[1]
             i == at[2]
             k == Largest(h, i)
             E == [item : Items, priority : Priorities]
  <2>1. h \in Arrays /\ i \in 1..Len(h) /\ Len(h) \in Nat
    BY DEF Positions, Arrays
  <2>2. k \in 1..Len(h)
    BY <2>1, LargestIs
  <2>3. Swap(h, i, k) \in Arrays /\ Len(Swap(h, i, k)) = Len(h)
    <3>1. h \in Seq(E) /\ i \in DOMAIN h /\ k \in DOMAIN h
      BY <2>1, <2>2 DEF Arrays
    <3> HIDE DEF h, i, k, E
    <3>2. Swap(h, i, k) \in Seq(E) /\ Len(Swap(h, i, k)) = Len(h)
      BY <3>1, SwapIs
    <3> QED
      BY <3>2 DEF Arrays, E
  <2>4. Sunk(at) = <<Swap(h, i, k), k>>
    BY DEF Sunk
  <2> HIDE DEF h, i, k
  <2> QED
    BY <2>1, <2>2, <2>3, <2>4 DEF Positions
<1>2. next \in [Positions -> Positions]
  BY <1>1
<1> HIDE DEF next, done, res
<1>3. PICK f : f = [at \in Positions |-> IF at \in done THEN res[at] ELSE f[next[at]]]
  <2>1. PICK f : TailCalls(f, Positions, done, next, res)
    BY <1>2, TailRecursion
  <2> QED
    BY <2>1 DEF TailCalls
<1>4. \A at \in Positions : (IF at \in done THEN res[at] ELSE f[next[at]])
                         = IF AtBottom(at) THEN at[1] ELSE f[Sunk(at)]
  BY DEF next, done, res
<1>5. f = Def(f)
  BY <1>3, <1>4
<1>6. SinkDown = CHOOSE g : g = Def(g)
  BY DEF SinkDown, AtBottom, Sunk
<1>7. SinkDown = Def(SinkDown)
  BY <1>5, <1>6, Zenon
<1> QED
  BY <1>7

\* In p, the n priorities of an array, no entry is above its parent, except that the
\* entry at i may be; its children are then not above its parent.
RisingAt(p, n, i) ==
  /\ \A j \in 2..n : j # i => p[j] <= p[j \div 2]
  /\ \A j \in 2..n : j \div 2 = i /\ i # 1 => p[j] <= p[i \div 2]

\* The same, except that the children of i may be above it.
SinkingAt(p, n, i) ==
  /\ \A j \in 2..n : j \div 2 # i => p[j] <= p[j \div 2]
  /\ \A j \in 2..n : j \div 2 = i /\ i # 1 => p[j] <= p[i \div 2]

\* The same, except that i may be above its parent or below its children: what remove
\* puts at i came from elsewhere.
PutAt(p, n, i) ==
  /\ \A j \in 2..n : j # i /\ j \div 2 # i => p[j] <= p[j \div 2]
  /\ \A j \in 2..n : j \div 2 = i /\ i # 1 => p[j] <= p[i \div 2]

\* No entry is above its parent.
Ordered(p, n) == \A j \in 2..n : p[j] <= p[j \div 2]

\* q is p with its values at i and k exchanged.
Exchanged(p, q, n, i, k) ==
  /\ q[i] = p[k] /\ q[k] = p[i]
  /\ \A j \in 1..n : j # i /\ j # k => q[j] = p[j]

\* The parent of a position is another one.
LEMMA Halves ==
  ASSUME NEW n \in Nat, NEW j \in 2..n
  PROVE  j \div 2 \in 1..n /\ j \div 2 < j /\ j \div 2 # j
OBVIOUS

\* A swap with the parent moves the exception up ...
LEMMA RaiseOne ==
  ASSUME NEW n \in Nat, NEW i \in 2..n, NEW p \in [1..n -> Int], NEW q \in [1..n -> Int],
         RisingAt(p, n, i), p[i \div 2] < p[i], Exchanged(p, q, n, i \div 2, i)
  PROVE  RisingAt(q, n, i \div 2)
<1> DEFINE u == i \div 2
<1>0. u \in 1..n /\ u < i /\ i \in 1..n
  OBVIOUS
<1>1. /\ q[u] = p[i] /\ q[i] = p[u] /\ p[u] < p[i]
      /\ \A j \in 1..n : j # u /\ j # i => q[j] = p[j]
      /\ \A j \in 2..n : j # i => p[j] <= p[j \div 2]
      /\ \A j \in 2..n : j \div 2 = i => p[j] <= p[u]
  BY DEF Exchanged, RisingAt
<1>2. i \div 2 = u
  OBVIOUS
<1> HIDE DEF u
<1>3. ASSUME NEW j \in 2..n, j # u PROVE q[j] <= q[j \div 2]
  <2> DEFINE v == j \div 2
  <2>1. v \in 1..n /\ v < j /\ j \in 1..n
    BY Halves
  <2>2. j \div 2 = v
    OBVIOUS
  <2> HIDE DEF v
  <2>3. CASE j = i
    BY <2>2, <2>3, <1>0, <1>1, <1>2
  <2>4. CASE j # i
    <3>1. q[j] = p[j] /\ p[j] <= p[v]
      BY <1>1, <1>3, <2>1, <2>2, <2>4
    <3>2. CASE v = u
      BY <3>1, <3>2, <2>1, <2>2, <1>0, <1>1
    <3>3. CASE v = i
      BY <3>1, <3>3, <2>1, <2>2, <1>0, <1>1
    <3>4. CASE v # u /\ v # i
      BY <3>1, <3>4, <2>1, <2>2, <1>0, <1>1
    <3> QED
      BY <3>2, <3>3, <3>4
  <2> QED
    BY <2>3, <2>4
<1>4. ASSUME NEW j \in 2..n, j \div 2 = u, u # 1 PROVE q[j] <= q[u \div 2]
  <2> DEFINE w == u \div 2
  <2>0. u \in 2..n
    BY <1>0, <1>4
  <2>1. w \in 1..n /\ w < u /\ w # i /\ w # u
    BY <2>0, <1>0, Halves
  <2>2. p[u] <= p[w]
    BY <1>0, <1>1, <2>0
  <2> HIDE DEF w
  <2>3. q[w] = p[w]
    BY <2>1, <1>1
  <2>4. q[j] <= q[w]
    <3>1. CASE j = i
      BY <2>2, <2>3, <3>1, <1>1
    <3>2. CASE j # i
      <4>1. j # u /\ j \in 1..n
        BY <1>4, Halves
      <4>2. p[j] <= p[u] /\ q[j] = p[j]
        BY <4>1, <3>2, <1>1, <1>4
      <4> QED
        BY <4>1, <4>2, <2>1, <2>2, <2>3, <1>0
    <3> QED
      BY <3>1, <3>2
  <2> QED
    BY <2>4 DEF w
<1>5. RisingAt(q, n, u)
  BY <1>3, <1>4 DEF RisingAt
<1> QED
  BY <1>5, <1>2

\* ... until there is none.
LEMMA RaisedIsOrdered ==
  ASSUME NEW n \in Nat, NEW i \in 1..n, NEW p \in [1..n -> Int],
         RisingAt(p, n, i), i = 1 \/ p[i \div 2] >= p[i]
  PROVE  Ordered(p, n)
<1> SUFFICES ASSUME NEW j \in 2..n PROVE p[j] <= p[j \div 2]
  BY DEF Ordered
<1>0. j \div 2 \in 1..n
  OBVIOUS
<1>1. CASE j # i
  BY <1>1 DEF RisingAt
<1>2. CASE j = i
  BY <1>2, <1>0
<1> QED
  BY <1>1, <1>2

\* A swap with the larger child moves the exception down, and what was put at i
\* is then not above its parent ...
LEMMA SinkOne ==
  ASSUME NEW n \in Nat, NEW i \in 1..n, NEW k \in 2..n, k \div 2 = i,
         NEW p \in [1..n -> Int], NEW q \in [1..n -> Int],
         PutAt(p, n, i), p[i] < p[k],
         \A j \in 2..n : j \div 2 = i => p[j] <= p[k],
         Exchanged(p, q, n, i, k)
  PROVE  SinkingAt(q, n, k)
<1>0. i < k
  OBVIOUS
<1>1. ASSUME NEW j \in 2..n, j \div 2 # k PROVE q[j] <= q[j \div 2]
  <2> DEFINE v == j \div 2
  <2>1. v \in 1..n /\ v < j
    BY Halves
  <2>2. CASE v = i
    <3>1. q[v] = p[k]
      BY <2>2 DEF Exchanged
    <3>2. CASE j = k
      BY <3>1, <3>2 DEF Exchanged
    <3>3. CASE j # k
      <4>1. j # i
        BY <2>1, <2>2
      <4> QED
        BY <3>1, <3>3, <2>2, <4>1 DEF Exchanged
    <3> QED
      BY <3>2, <3>3
  <2>3. CASE v # i
    <3>1. q[v] = p[v]
      BY <1>1, <2>1, <2>3 DEF Exchanged
    <3>2. CASE j = i
      BY <3>1, <3>2, <2>1 DEF PutAt, Exchanged
    <3>3. CASE j # i
      <4>1. j # k
        BY <2>3
      <4> QED
        BY <3>1, <3>3, <2>1, <2>3, <4>1, SMTT(30) DEF PutAt, Exchanged
    <3> QED
      BY <3>2, <3>3
  <2> QED
    BY <2>2, <2>3
<1>2. ASSUME NEW j \in 2..n, j \div 2 = k PROVE q[j] <= q[k \div 2]
  <2>1. j # i /\ j # k /\ k # i /\ j \div 2 # i
    BY <1>0, <1>2
  <2>2. q[j] = p[j] /\ p[j] <= p[k] /\ q[i] = p[k]
    <3>1. q[j] = p[j] /\ q[i] = p[k]
      BY <2>1 DEF Exchanged
    <3>2. p[j] <= p[j \div 2]
      BY <2>1 DEF PutAt
    <3> QED
      BY <3>1, <3>2, <1>2
  <2> QED
    BY <2>2
<1> QED
  BY <1>1, <1>2 DEF SinkingAt

\* ... but where no child is above it, it may still have to rise ...
LEMMA SunkIsRising ==
  ASSUME NEW n \in Nat, NEW i \in 1..n, NEW p \in [1..n -> Int],
         PutAt(p, n, i), \A j \in 2..n : j \div 2 = i => p[j] <= p[i]
  PROVE  RisingAt(p, n, i)
BY DEF PutAt, RisingAt

\* ... or nothing is left to do.
LEMMA SunkIsOrdered ==
  ASSUME NEW n \in Nat, NEW i \in 1..n, NEW p \in [1..n -> Int],
         SinkingAt(p, n, i), \A j \in 2..n : j \div 2 = i => p[j] <= p[i]
  PROVE  Ordered(p, n)
BY DEF Ordered, SinkingAt

\* An entry that may sink is one that was put there.
LEMMA SinkingIsPut ==
  ASSUME NEW n, NEW i, NEW p, SinkingAt(p, n, i)
  PROVE  PutAt(p, n, i)
BY DEF PutAt, SinkingAt

\* In a heap there is nothing to do for an entry that may rise.
LEMMA OrderedIsRising ==
  ASSUME NEW n \in Nat, NEW i \in 1..n, NEW p \in [1..n -> Int], Ordered(p, n)
  PROVE  RisingAt(p, n, i)
<1>1. ASSUME NEW j \in 2..n, j \div 2 = i, i # 1 PROVE p[j] <= p[i \div 2]
  <2>1. p[j] <= p[i]
    BY <1>1 DEF Ordered
  <2>2. i \in 2..n /\ i \div 2 \in 1..n /\ j \in 1..n
    BY <1>1
  <2>3. p[i] <= p[i \div 2]
    BY <2>2 DEF Ordered
  <2> DEFINE w == i \div 2
  <2> HIDE DEF w
  <2>4. p[j] \in Int /\ p[i] \in Int /\ p[w] \in Int
    BY <2>2 DEF w
  <2> QED
    BY <2>1, <2>3, <2>4 DEF w
<1> QED
  BY <1>1 DEF RisingAt, Ordered

\* The priorities of an array.
Pri(h) == [k \in DOMAIN h |-> h[k].priority]
\* No item is twice in the array.
DistinctItems(h) == \A j, k \in DOMAIN h : h[j].item = h[k].item => j = k
\* The entries of an array.
EntriesOf(h) == {h[k] : k \in DOMAIN h}

\* g has the entries of h, in some order.
Rearranged(h, g) ==
  /\ g \in Arrays
  /\ Len(g) = Len(h)
  /\ EntriesOf(g) = EntriesOf(h)
  /\ DistinctItems(h) => DistinctItems(g)

\* g is a heap of the entries of h.
HeapMade(h, g) == Rearranged(h, g) /\ Ordered(Pri(g), Len(g))

\* The types of an array and of its priorities.
LEMMA ArraysAre ==
  ASSUME NEW h \in Arrays
  PROVE  /\ Len(h) \in Nat /\ DOMAIN h = 1..Len(h)
         /\ \A k \in 1..Len(h) : h[k] \in [item : Items, priority : Priorities]
         /\ Pri(h) \in [1..Len(h) -> Int]
<1>1. /\ Len(h) \in Nat /\ DOMAIN h = 1..Len(h)
      /\ \A k \in 1..Len(h) : h[k] \in [item : Items, priority : Priorities]
  BY EntriesAre
<1>2. \A k \in 1..Len(h) : h[k].priority \in Int
  BY <1>1, PrioritiesAreNumbers
<1> QED
  BY <1>1, <1>2 DEF Pri

\* A swap is a rearrangement, and exchanges two priorities.
LEMMA SwapRearranges ==
  ASSUME NEW h \in Arrays, NEW i \in 1..Len(h), NEW k \in 1..Len(h)
  PROVE  /\ Rearranged(h, Swap(h, i, k))
         /\ Exchanged(Pri(h), Pri(Swap(h, i, k)), Len(h), i, k)
<1> DEFINE g == Swap(h, i, k)
           E == [item : Items, priority : Priorities]
<1>1. h \in Seq(E) /\ DOMAIN h = 1..Len(h) /\ Len(h) \in Nat
  BY EntriesAre DEF Arrays
<1> HIDE DEF E
<1>2. /\ g \in Seq(E) /\ Len(g) = Len(h) /\ DOMAIN g = 1..Len(h)
      /\ g[k] = h[i] /\ g[i] = h[k]
      /\ \A j \in 1..Len(h) : j # i /\ j # k => g[j] = h[j]
  <2>1. i \in DOMAIN h /\ k \in DOMAIN h
    BY <1>1
  <2>2. g \in Seq(E) /\ Len(g) = Len(h) /\ DOMAIN g = DOMAIN h
    BY <1>1, <2>1, SwapIs
  <2>3. g[k] = h[i] /\ g[i] = h[k]
    BY <1>1, <2>1, SwapIs
  <2>4. \A j \in DOMAIN h : j # i /\ j # k => g[j] = h[j]
    BY DEF Swap
  <2>5. DOMAIN g = 1..Len(h)
    BY <1>1, <2>2
  <2>6. \A j \in 1..Len(h) : j # i /\ j # k => g[j] = h[j]
    BY <1>1, <2>4
  <2> QED
    BY <2>2, <2>3, <2>5, <2>6
<1>3. g \in Arrays
  BY <1>2 DEF Arrays, E
<1> HIDE DEF g
<1>4. EntriesOf(g) = EntriesOf(h)
  BY <1>1, <1>2 DEF EntriesOf
<1>5. DistinctItems(h) => DistinctItems(g)
  BY <1>1, <1>2 DEF DistinctItems
<1>6. Exchanged(Pri(h), Pri(g), Len(h), i, k)
  BY <1>1, <1>2 DEF Exchanged, Pri
<1> QED
  BY <1>2, <1>3, <1>4, <1>5, <1>6 DEF Rearranged, g

\* A heap made of a rearrangement is one made of the array.
LEMMA RearrangedAgain ==
  ASSUME NEW h, NEW g, NEW k, Rearranged(h, g), HeapMade(g, k)
  PROVE  HeapMade(h, k)
BY DEF Rearranged, HeapMade

\* By induction on the position: bubbling up an entry that may rise makes a heap.  Of
\* the positions where it would not, the least is taken; its parent is less.
LEMMA BubbleUpOrders ==
  ASSUME NEW start \in Positions, RisingAt(Pri(start[1]), Len(start[1]), start[2])
  PROVE  HeapMade(start[1], BubbleUp[start])
<1> DEFINE Bad(at) == /\ RisingAt(Pri(at[1]), Len(at[1]), at[2])
                      /\ ~ HeapMade(at[1], BubbleUp[at])
           T == {n \in Nat : \E at \in Positions : at[2] = n /\ Bad(at)}
<1> SUFFICES ASSUME T # {} PROVE FALSE
  <2>1. start[2] \in Nat
    BY DEF Positions
  <2> QED
    BY <2>1
<1>1. PICK least \in T : \A n \in T : least <= n
  BY LeastElement
<1>2. PICK at \in Positions : at[2] = least /\ Bad(at)
  OBVIOUS
<1> DEFINE h == at[1]
           i == at[2]
           n == Len(h)
<1>3. /\ h \in Arrays /\ i \in 1..n /\ n \in Nat /\ DOMAIN h = 1..n
      /\ Pri(h) \in [1..n -> Int]
  BY ArraysAre DEF Positions
<1>4. \A k \in 1..n : Pri(h)[k] = h[k].priority
  BY <1>3 DEF Pri
<1>5. CASE Settled(at)
  <2>1. BubbleUp[at] = h
    BY <1>5, BubbleUpIs
  <2>2. i = 1 \/ Pri(h)[i \div 2] >= Pri(h)[i]
    <3>1. CASE i = 1
      BY <3>1
    <3>2. CASE i # 1
      <4>1. i \div 2 \in 1..n
        BY <1>3, <3>2, HalfIsIn
      <4> QED
        BY <1>3, <1>4, <1>5, <4>1 DEF Settled
    <3> QED
      BY <3>1, <3>2
  <2>3. RisingAt(Pri(h), n, i)
    BY <1>2
  <2> HIDE DEF h, i, n
  <2>4. Ordered(Pri(h), n)
    BY <1>3, <2>2, <2>3, RaisedIsOrdered
  <2>5. HeapMade(h, h)
    BY <1>3, <2>4 DEF HeapMade, Rearranged, n
  <2> QED
    BY <1>2, <2>1, <2>5 DEF h
<1>6. CASE ~ Settled(at)
  <2> DEFINE u == i \div 2
             g == Swap(h, u, i)
             next == <<g, u>>
  <2>1. i \in 2..n /\ u \in 1..n /\ u < i /\ u \in Nat
    BY <1>3, <1>6, HalfIsIn DEF Settled
  <2>2. BubbleUp[at] = BubbleUp[next]
    BY <1>6, BubbleUpIs
  <2>3. Rearranged(h, g) /\ Exchanged(Pri(h), Pri(g), n, u, i)
    BY <1>3, <2>1, SwapRearranges
  <2>4. g \in Arrays /\ Len(g) = n /\ Pri(g) \in [1..n -> Int]
    BY <2>3, ArraysAre DEF Rearranged
  <2>5. Pri(h)[u] < Pri(h)[i]
    BY <1>3, <1>4, <1>6, <2>1 DEF Settled
  <2>6. RisingAt(Pri(h), n, i)
    BY <1>2
  <2>7. next \in Positions /\ next[1] = g /\ next[2] = u
    BY <2>1, <2>4 DEF Positions
  <2>8. RisingAt(Pri(g), n, u)
    <3> HIDE DEF g, h, i, n
    <3> QED
      BY <1>3, <2>1, <2>3, <2>4, <2>5, <2>6, RaiseOne
  <2>9. HeapMade(g, BubbleUp[next])
    <3>1. ~ Bad(next)
      <4> HIDE DEF next, Bad
      <4> SUFFICES ASSUME Bad(next) PROVE FALSE
        OBVIOUS
      <4>1. u \in T
        BY <2>1, <2>7
      <4> QED
        BY <1>1, <1>2, <2>1, <4>1
    <3> QED
      BY <3>1, <2>7, <2>8, <2>4
  <2>10. HeapMade(h, BubbleUp[next])
    BY <2>3, <2>9, RearrangedAgain
  <2> QED
    BY <1>2, <2>2, <2>10
<1> QED
  BY <1>5, <1>6

\* One round of the loop of sinkDown.
LEMMA SinkOneStep ==
  ASSUME NEW at \in Positions, ~ AtBottom(at), PutAt(Pri(at[1]), Len(at[1]), at[2])
  PROVE  /\ Sunk(at) \in Positions
         /\ at[2] < Sunk(at)[2] /\ Len(Sunk(at)[1]) = Len(at[1])
         /\ Rearranged(at[1], Sunk(at)[1])
         /\ SinkingAt(Pri(Sunk(at)[1]), Len(Sunk(at)[1]), Sunk(at)[2])
<1> DEFINE h == at[1]
           i == at[2]
           n == Len(h)
           k == Largest(h, i)
           g == Swap(h, i, k)
<1>1. /\ h \in Arrays /\ i \in 1..n /\ n \in Nat /\ DOMAIN h = 1..n
      /\ Pri(h) \in [1..n -> Int]
  BY ArraysAre DEF Positions
<1>2. \A j \in 1..n : Pri(h)[j] = h[j].priority
  BY <1>1 DEF Pri
<1>3. /\ k \in 1..n /\ k \div 2 = i /\ k # i
      /\ h[i].priority < h[k].priority
      /\ \A j \in 2..n : j \div 2 = i => h[j].priority <= h[k].priority
  BY <1>1, LargestIs DEF AtBottom
<1>4. Sunk(at) = <<g, k>>
  BY DEF Sunk
<1>5. Rearranged(h, g) /\ Exchanged(Pri(h), Pri(g), n, i, k)
  <2> HIDE DEF h, i, k
  <2> QED
    BY <1>1, <1>3, SwapRearranges
<1>6. g \in Arrays /\ Len(g) = n /\ Pri(g) \in [1..n -> Int]
  BY <1>5, ArraysAre DEF Rearranged
<1>7. k \in 2..n /\ i < k
  <2> HIDE DEF k
  <2> QED
    BY <1>1, <1>3
<1>8. Pri(h)[i] < Pri(h)[k] /\ \A j \in 2..n : j \div 2 = i => Pri(h)[j] <= Pri(h)[k]
  BY <1>1, <1>2, <1>3
<1>9. SinkingAt(Pri(g), n, k)
  <2>1. PutAt(Pri(h), n, i)
    OBVIOUS
  <2> HIDE DEF h, i, n, k, g
  <2> QED
    BY <1>1, <1>3, <1>5, <1>6, <1>7, <1>8, <2>1, SinkOne
<1>10. Sunk(at) \in Positions
  <2> HIDE DEF g, k
  <2> QED
    BY <1>1, <1>4, <1>6, <1>7 DEF Positions
<1> QED
  BY <1>4, <1>5, <1>6, <1>7, <1>9, <1>10

\* At the bottom no child is above the entry.
LEMMA BottomIs ==
  ASSUME NEW at \in Positions, AtBottom(at)
  PROVE  \A j \in 2..Len(at[1]) : j \div 2 = at[2] => Pri(at[1])[j] <= Pri(at[1])[at[2]]
<1> DEFINE h == at[1]
           i == at[2]
           n == Len(h)
<1>1. h \in Arrays /\ i \in 1..n /\ n \in Nat /\ DOMAIN h = 1..n
  BY ArraysAre DEF Positions
<1>2. \A j \in 2..n : j \div 2 = i => h[j].priority <= h[i].priority
  BY <1>1, LargestIs DEF AtBottom
<1> QED
  BY <1>1, <1>2 DEF Pri

\* By induction on the distance to the end of the array: sinking an entry that may
\* sink makes a heap.
LEMMA SinkDownOrders ==
  ASSUME NEW start \in Positions, SinkingAt(Pri(start[1]), Len(start[1]), start[2])
  PROVE  HeapMade(start[1], SinkDown[start])
<1> DEFINE Bad(at) == /\ SinkingAt(Pri(at[1]), Len(at[1]), at[2])
                      /\ ~ HeapMade(at[1], SinkDown[at])
           T == {n \in Nat : \E at \in Positions : Len(at[1]) - at[2] = n /\ Bad(at)}
<1>0. \A at \in Positions : Len(at[1]) - at[2] \in Nat /\ at[2] \in Nat /\ Len(at[1]) \in Nat
  BY ArraysAre DEF Positions
<1> SUFFICES ASSUME T # {} PROVE FALSE
  BY <1>0
<1>1. PICK least \in T : \A n \in T : least <= n
  BY LeastElement
<1>2. PICK at \in Positions : Len(at[1]) - at[2] = least /\ Bad(at)
  OBVIOUS
<1> DEFINE h == at[1]
           i == at[2]
           n == Len(h)
<1>3. h \in Arrays /\ i \in 1..n /\ n \in Nat /\ Pri(h) \in [1..n -> Int]
  BY ArraysAre DEF Positions
<1>4. CASE AtBottom(at)
  <2>1. SinkDown[at] = h
    BY <1>4, SinkDownIs
  <2>2. \A j \in 2..n : j \div 2 = i => Pri(h)[j] <= Pri(h)[i]
    BY <1>4, BottomIs
  <2>3. SinkingAt(Pri(h), n, i)
    BY <1>2
  <2> HIDE DEF h, i, n
  <2>4. Ordered(Pri(h), n)
    BY <1>3, <2>2, <2>3, SunkIsOrdered
  <2>5. HeapMade(h, h)
    BY <1>3, <2>4 DEF HeapMade, Rearranged, n
  <2> QED
    BY <1>2, <2>1, <2>5 DEF h
<1>5. CASE ~ AtBottom(at)
  <2> DEFINE next == Sunk(at)
  <2>1. PutAt(Pri(h), n, i)
    BY <1>2, SinkingIsPut
  <2>2. /\ next \in Positions /\ i < next[2] /\ Len(next[1]) = n
        /\ Rearranged(h, next[1])
        /\ SinkingAt(Pri(next[1]), Len(next[1]), next[2])
    BY <1>5, <2>1, SinkOneStep
  <2>3. SinkDown[at] = SinkDown[next]
    BY <1>5, SinkDownIs
  <2>4. HeapMade(next[1], SinkDown[next])
    <3>1. ~ Bad(next)
      <4> HIDE DEF next, Bad
      <4> SUFFICES ASSUME Bad(next) PROVE FALSE
        OBVIOUS
      <4> DEFINE m == Len(next[1]) - next[2]
      <4>1. m \in T
        BY <1>0, <2>2
      <4>2. m < least
        <5> DEFINE l == next[2]
        <5>1. l \in Nat /\ i \in Nat /\ n \in Nat /\ i < l
          BY <1>0, <2>2
        <5>2. m = n - l /\ least = n - i
          BY <1>2, <2>2
        <5> HIDE DEF l, i, n, m
        <5> QED
          BY <5>1, <5>2
      <4> QED
        BY <1>0, <1>1, <4>1, <4>2
    <3> QED
      BY <3>1, <2>2
  <2>5. HeapMade(h, SinkDown[next])
    BY <2>2, <2>4, RearrangedAgain
  <2> QED
    BY <1>2, <2>3, <2>5
<1> QED
  BY <1>4, <1>5

\* Sinking and then rising, as remove does at the place that was taken, makes a heap:
\* if the entry sank, nothing is left to rise.
LEMMA SinkAndRise ==
  ASSUME NEW at \in Positions, PutAt(Pri(at[1]), Len(at[1]), at[2])
  PROVE  HeapMade(at[1], BubbleUp[<<SinkDown[at], at[2]>>])
<1> DEFINE h == at[1]
           i == at[2]
           n == Len(h)
<1>1. h \in Arrays /\ i \in 1..n /\ n \in Nat /\ Pri(h) \in [1..n -> Int]
  BY ArraysAre DEF Positions
<1>2. CASE AtBottom(at)
  <2>1. SinkDown[at] = h /\ <<h, i>> = at
    BY <1>2, SinkDownIs DEF Positions
  <2>2. \A j \in 2..n : j \div 2 = i => Pri(h)[j] <= Pri(h)[i]
    BY <1>2, BottomIs
  <2>3. PutAt(Pri(h), n, i)
    OBVIOUS
  <2>4. RisingAt(Pri(h), n, i)
    <3> HIDE DEF h, i, n
    <3> QED
      BY <1>1, <2>2, <2>3, SunkIsRising
  <2>5. HeapMade(h, BubbleUp[at])
    BY <2>4, BubbleUpOrders
  <2> QED
    BY <2>1, <2>5
<1>3. CASE ~ AtBottom(at)
  <2> DEFINE next == Sunk(at)
             k == SinkDown[next]
             again == <<k, i>>
  <2>1. /\ next \in Positions
        /\ Rearranged(h, next[1])
        /\ SinkingAt(Pri(next[1]), Len(next[1]), next[2])
    BY <1>3, SinkOneStep
  <2>2. SinkDown[at] = k
    BY <1>3, SinkDownIs
  <2>3. HeapMade(next[1], k)
    BY <2>1, SinkDownOrders
  <2>4. HeapMade(h, k)
    BY <2>1, <2>3, RearrangedAgain
  <2> HIDE DEF k
  <2>5. k \in Arrays /\ Len(k) = n /\ Ordered(Pri(k), n) /\ Rearranged(h, k)
    BY <2>4 DEF HeapMade, Rearranged
  <2>6. again \in Positions /\ again[1] = k /\ again[2] = i
    BY <1>1, <2>5 DEF Positions
  <2>7. RisingAt(Pri(k), n, i)
    <3>1. Pri(k) \in [1..n -> Int]
      BY <2>5, ArraysAre
    <3> HIDE DEF i, n
    <3> QED
      BY <1>1, <2>5, <3>1, OrderedIsRising
  <2>8. HeapMade(k, BubbleUp[again])
    BY <2>5, <2>6, <2>7, BubbleUpOrders
  <2>9. HeapMade(h, BubbleUp[again])
    BY <2>5, <2>8, RearrangedAgain
  <2> QED
    BY <2>2, <2>9
<1> QED
  BY <1>2, <1>3

\* By induction on the position: no entry of a heap is above the first.
LEMMA RootIsHighest ==
  ASSUME NEW h \in Arrays, Ordered(Pri(h), Len(h)), NEW k \in DOMAIN h
  PROVE  h[k].priority <= h[1].priority
<1> DEFINE n == Len(h)
           p == Pri(h)
           T == {j \in 1..n : ~ (p[j] <= p[1])}
<1>1. n \in Nat /\ DOMAIN h = 1..n /\ p \in [1..n -> Int]
  BY ArraysAre
<1>2. \A j \in 1..n : p[j] = h[j].priority
  BY <1>1 DEF Pri
<1>3. \A j \in 2..n : p[j] <= p[j \div 2]
  BY DEF Ordered
<1> HIDE DEF p, n
<1> SUFFICES ASSUME T # {} PROVE FALSE
  BY <1>1, <1>2
<1>4. T \subseteq Nat
  OBVIOUS
<1>5. PICK least \in T : \A j \in T : least <= j
  BY <1>4, LeastElement
<1>6. least \in 2..n
  BY <1>1
<1>7. least \div 2 \in 1..n /\ least \div 2 < least
  BY <1>1, <1>6, Halves
<1> DEFINE u == least \div 2
<1>8. p[least] <= p[u]
  BY <1>3, <1>6
<1> HIDE DEF u
<1>9. u \in 1..n /\ u < least
  BY <1>7 DEF u
<1>10. u \notin T
  BY <1>1, <1>5, <1>6, <1>9
<1> QED
  BY <1>1, <1>5, <1>8, <1>9, <1>10

\* One entry more, at the end, where it may rise.
LEMMA AppendIs ==
  ASSUME NEW h \in Arrays, DistinctItems(h), Ordered(Pri(h), Len(h)),
         NEW e \in [item : Items, priority : Priorities],
         \A k \in DOMAIN h : h[k].item # e.item
  PROVE  /\ <<Append(h, e), Len(h) + 1>> \in Positions
         /\ DistinctItems(Append(h, e))
         /\ EntriesOf(Append(h, e)) = EntriesOf(h) \cup {e}
         /\ RisingAt(Pri(Append(h, e)), Len(h) + 1, Len(h) + 1)
<1> DEFINE n == Len(h)
           g == Append(h, e)
           E == [item : Items, priority : Priorities]
<1>1. n \in Nat /\ DOMAIN h = 1..n /\ h \in Seq(E)
  BY ArraysAre DEF Arrays
<1>2. e \in E
  OBVIOUS
<1> HIDE DEF E
<1>3. /\ g \in Seq(E) /\ Len(g) = n + 1 /\ DOMAIN g = 1..(n + 1)
      /\ g[n + 1] = e /\ \A k \in 1..n : g[k] = h[k]
  BY <1>1, <1>2
<1>4. g \in Arrays
  BY <1>3 DEF Arrays, E
<1> HIDE DEF g
<1>5. <<g, n + 1>> \in Positions
  BY <1>1, <1>3, <1>4 DEF Positions
<1>6. DistinctItems(g)
  BY <1>1, <1>3 DEF DistinctItems
<1>7. EntriesOf(g) = EntriesOf(h) \cup {e}
  BY <1>1, <1>3 DEF EntriesOf
<1>8. \A k \in 1..n : Pri(g)[k] = Pri(h)[k]
  BY <1>1, <1>3 DEF Pri
<1>9. RisingAt(Pri(g), n + 1, n + 1)
  <2> HIDE DEF n
  <2>1. ASSUME NEW j \in 2..(n + 1), j # n + 1 PROVE Pri(g)[j] <= Pri(g)[j \div 2]
    <3>1. j \in 2..n /\ j \in 1..n /\ j \div 2 \in 1..n
      BY <1>1, <2>1
    <3>2. Pri(h)[j] <= Pri(h)[j \div 2]
      BY <3>1 DEF Ordered, n
    <3> QED
      BY <1>8, <3>1, <3>2
  <2>2. \A j \in 2..(n + 1) : j \div 2 # n + 1
    BY <1>1
  <2> QED
    BY <2>1, <2>2 DEF RisingAt
<1> QED
  BY <1>5, <1>6, <1>7, <1>9 DEF g

\* One entry less: the last takes the place of the i-th.
Taken(h, i, g) ==
  /\ g \in Arrays
  /\ Len(g) = Len(h) - 1
  /\ \A j \in 1..(Len(h) - 1) : g[j] = IF j = i THEN h[Len(h)] ELSE h[j]

\* What is left of a heap then: the other entries, and a heap but for what was put.
LEMMA TakenIs ==
  ASSUME NEW h \in Arrays, NEW i \in 1..Len(h), NEW g, Taken(h, i, g),
         DistinctItems(h), Ordered(Pri(h), Len(h))
  PROVE  /\ DistinctItems(g)
         /\ EntriesOf(g) = EntriesOf(h) \ {h[i]}
         /\ i <= Len(g) => PutAt(Pri(g), Len(g), i)
         /\ i = Len(h) => Ordered(Pri(g), Len(g))
<1> DEFINE n == Len(h)
<1>1. n \in Nat /\ DOMAIN h = 1..n /\ Pri(h) \in [1..n -> Int]
  BY ArraysAre
<1>2. /\ g \in Arrays /\ Len(g) = n - 1 /\ DOMAIN g = 1..(n - 1) /\ Pri(g) \in [1..(n - 1) -> Int]
      /\ \A j \in 1..(n - 1) : g[j] = IF j = i THEN h[n] ELSE h[j]
  BY ArraysAre DEF Taken
<1>3. \A j \in 1..n : Pri(h)[j] = h[j].priority
  BY <1>1 DEF Pri
<1>4. \A j \in 1..(n - 1) : j # i => Pri(g)[j] = Pri(h)[j]
  BY <1>1, <1>2 DEF Pri
<1>5. i \in 1..n /\ \A j \in 2..n : Pri(h)[j] <= Pri(h)[j \div 2]
  BY DEF Ordered
<1> HIDE DEF n
<1>6. DistinctItems(g)
  <2>1. \A j, k \in 1..n : h[j].item = h[k].item => j = k
    BY <1>1 DEF DistinctItems
  <2>2. n \in 1..n /\ \A j \in 1..(n - 1) : j \in 1..n /\ j # n
    BY <1>1, <1>5
  <2>3. \A j, k \in 1..(n - 1) : g[j].item = g[k].item => j = k
    BY <1>2, <2>1, <2>2
  <2> QED
    BY <1>2, <2>3 DEF DistinctItems
<1>7. EntriesOf(g) = EntriesOf(h) \ {h[i]}
  <2>1. \A j \in 1..n : j # i => h[j] # h[i]
    BY <1>1, <1>5 DEF DistinctItems
  <2>2. ASSUME NEW j \in 1..(n - 1) PROVE g[j] \in EntriesOf(h) \ {h[i]}
    <3>1. CASE j = i
      <4>1. n \in 1..n /\ n # i /\ g[j] = h[n]
        BY <1>1, <1>2, <1>5, <3>1
      <4>2. h[n] # h[i]
        BY <2>1, <4>1
      <4> QED
        BY <1>1, <4>1, <4>2 DEF EntriesOf
    <3>2. CASE j # i
      <4>1. j \in 1..n /\ g[j] = h[j]
        BY <1>1, <1>2, <3>2
      <4>2. h[j] # h[i]
        BY <2>1, <3>2, <4>1
      <4>3. h[j] \in EntriesOf(h)
        BY <1>1, <4>1 DEF EntriesOf
      <4> QED
        BY <4>1, <4>2, <4>3
    <3> QED
      BY <3>1, <3>2
  <2>3. ASSUME NEW j \in 1..n, j # i PROVE h[j] \in EntriesOf(g)
    <3>1. CASE j = n
      <4>1. i \in 1..(n - 1) /\ g[i] = h[j]
        BY <1>1, <1>2, <1>5, <2>3, <3>1
      <4> QED
        BY <1>2, <4>1 DEF EntriesOf
    <3>2. CASE j # n
      <4>1. j \in 1..(n - 1) /\ g[j] = h[j]
        BY <1>1, <1>2, <2>3, <3>2
      <4> QED
        BY <1>2, <4>1 DEF EntriesOf
    <3> QED
      BY <3>1, <3>2
  <2> QED
    BY <1>1, <1>2, <2>2, <2>3 DEF EntriesOf
<1>8. ASSUME i <= n - 1 PROVE PutAt(Pri(g), n - 1, i)
  <2>1. ASSUME NEW j \in 2..(n - 1), j # i, j \div 2 # i PROVE Pri(g)[j] <= Pri(g)[j \div 2]
    <3>1. j \in 2..n /\ j \in 1..(n - 1) /\ j \div 2 \in 1..(n - 1)
      BY <1>1
    <3> QED
      BY <1>4, <1>5, <2>1, <3>1
  <2>2. ASSUME NEW j \in 2..(n - 1), j \div 2 = i, i # 1 PROVE Pri(g)[j] <= Pri(g)[i \div 2]
    <3> DEFINE u == i \div 2
    <3>1. /\ j \in 2..n /\ j \in 1..(n - 1) /\ j # i /\ i \in 2..n
          /\ u \in 1..(n - 1) /\ u # i /\ u \in 1..n
      BY <1>1, <1>5, <1>8, <2>2
    <3>2. Pri(h)[j] <= Pri(h)[i] /\ Pri(h)[i] <= Pri(h)[u]
      BY <1>5, <2>2, <3>1
    <3> HIDE DEF u
    <3>3. Pri(h)[j] <= Pri(h)[u]
      BY <1>1, <3>1, <3>2
    <3>4. Pri(g)[j] <= Pri(g)[u]
      BY <1>4, <3>1, <3>3
    <3> QED
      BY <3>4 DEF u
  <2> QED
    BY <2>1, <2>2 DEF PutAt
<1>9. ASSUME i = n PROVE Ordered(Pri(g), n - 1)
  <2>1. ASSUME NEW j \in 2..(n - 1) PROVE Pri(g)[j] <= Pri(g)[j \div 2]
    <3>1. j \in 2..n /\ j \in 1..(n - 1) /\ j \div 2 \in 1..(n - 1)
      BY <1>1
    <3>2. j # i /\ j \div 2 # i
      BY <1>1, <1>9, <3>1
    <3> QED
      BY <1>4, <1>5, <3>1, <3>2
  <2> QED
    BY <2>1 DEF Ordered
<1> QED
  BY <1>2, <1>6, <1>7, <1>8, <1>9 DEF n

-----------------------------------------------------------------------------
\* The inductive invariant: an array of distinct items that is a heap, and the map
\* of priorities has its items for keys.
HeapInv ==
  /\ heap \in Arrays
  /\ DistinctItems(heap)
  /\ Ordered(Pri(heap), Len(heap))
  /\ priorities = {e.item : e \in Entries}

\* Entries, said of any array.
LEMMA EntriesOfHeap ==
  EntriesOf(heap) = Entries
BY DEF EntriesOf, Entries

\* The queue starts empty.
LEMMA HeapInit == Init => HeapInv
<1> SUFFICES ASSUME Init PROVE HeapInv
  OBVIOUS
<1> USE DEF Init
<1>1. heap \in Arrays
  BY DEF Arrays
<1> QED
  BY <1>1 DEF HeapInv, DistinctItems, Ordered, Entries

\* enqueue: an entry appended and bubbled up.
LEMMA EnqueueStep ==
  ASSUME HeapInv, NEW x \in Items, NEW p \in Priorities, Enqueue(x, p)
  PROVE  HeapInv' /\ Abstract!Enqueue(x, p)
<1> DEFINE e == [item |-> x, priority |-> p]
           g == Append(heap, e)
           n == Len(heap) + 1
           at == <<g, n>>
<1>1. e \in [item : Items, priority : Priorities] /\ e.item = x
  OBVIOUS
<1>2. \A k \in DOMAIN heap : heap[k].item # e.item
  BY DEF Enqueue
<1>3. heap' = BubbleUp[at] /\ priorities' = priorities \cup {x} /\ returned' = returned
  BY DEF Enqueue
<1> HIDE DEF e
<1>4. /\ at \in Positions /\ DistinctItems(g) /\ EntriesOf(g) = EntriesOf(heap) \cup {e}
      /\ RisingAt(Pri(g), n, n)
  BY <1>1, <1>2, AppendIs DEF HeapInv
<1>5. Len(g) = n /\ at[1] = g /\ at[2] = n
  <2> DEFINE E == [item : Items, priority : Priorities]
  <2>1. heap \in Seq(E) /\ e \in E
    BY <1>1 DEF HeapInv, Arrays
  <2> HIDE DEF E
  <2> QED
    BY <2>1
<1> HIDE DEF at, g, n
<1>6. HeapMade(g, heap')
  BY <1>3, <1>4, <1>5, BubbleUpOrders
<1>7. Entries' = Entries \cup {e}
  BY <1>4, <1>6, EntriesOfHeap DEF HeapMade, Rearranged, EntriesOf, Entries
<1>8. HeapInv'
  <2>1. heap' \in Arrays /\ DistinctItems(heap') /\ Ordered(Pri(heap'), Len(heap'))
    BY <1>4, <1>6 DEF HeapMade, Rearranged
  <2>2. priorities' = {f.item : f \in Entries'}
    BY <1>1, <1>3, <1>7 DEF HeapInv
  <2> QED
    BY <2>1, <2>2 DEF HeapInv
<1>9. Abstract!Enqueue(x, p)
  <2>1. \A f \in Entries : f.item # x
    BY <1>1, <1>2 DEF Entries
  <2> QED
    BY <1>3, <1>7, <2>1 DEF Abstract!Enqueue, e
<1> QED
  BY <1>8, <1>9

\* What is left of the map of priorities when an entry is taken.
LEMMA ItemsLeft ==
  ASSUME NEW h \in Arrays, DistinctItems(h), NEW i \in DOMAIN h
  PROVE  {e.item : e \in EntriesOf(h)} \ {h[i].item}
           = {e.item : e \in EntriesOf(h) \ {h[i]}}
BY DEF DistinctItems, EntriesOf

\* An entry is gone, and the rest is a heap.
LEMMA TakenStep ==
  ASSUME HeapInv, NEW i \in DOMAIN heap,
         heap' \in Arrays, DistinctItems(heap'), Ordered(Pri(heap'), Len(heap')),
         EntriesOf(heap') = EntriesOf(heap) \ {heap[i]},
         priorities' = priorities \ {heap[i].item}
  PROVE  HeapInv' /\ Entries' = Entries \ {heap[i]}
<1>1. Entries' = Entries \ {heap[i]}
  BY DEF EntriesOf, Entries
<1>2. priorities' = {e.item : e \in Entries'}
  BY <1>1, EntriesOfHeap, ItemsLeft DEF HeapInv
<1> QED
  BY <1>1, <1>2 DEF HeapInv

\* The first member of a sequence replaced.
LEMMA FirstReplaced ==
  ASSUME NEW E, NEW r \in Seq(E), NEW e \in E, 1 \in DOMAIN r
  PROVE  /\ [r EXCEPT ![1] = e] \in Seq(E) /\ Len([r EXCEPT ![1] = e]) = Len(r)
         /\ \A j \in DOMAIN r : [r EXCEPT ![1] = e][j] = IF j = 1 THEN e ELSE r[j]
<1> DEFINE g == [r EXCEPT ![1] = e]
           n == Len(r)
<1>1. n \in Nat /\ r \in [1..n -> E] /\ DOMAIN r = 1..n
  OBVIOUS
<1>2. g \in [1..n -> E] /\ \A j \in 1..n : g[j] = IF j = 1 THEN e ELSE r[j]
  BY <1>1
<1>3. g \in Seq(E) /\ Len(g) = n
  BY <1>1, <1>2
<1> QED
  BY <1>1, <1>2, <1>3

\* dequeue: the last entry in place of the first, and sunk.
LEMMA DequeueStep ==
  ASSUME HeapInv, Dequeue
  PROVE  HeapInv' /\ Abstract!Dequeue
<1> DEFINE n == Len(heap)
           g == [Front(heap) EXCEPT ![1] = heap[n]]
           at == <<g, 1>>
           E == [item : Items, priority : Priorities]
<1>1. /\ heap \in Seq(E) /\ n \in Nat /\ DOMAIN heap = 1..n /\ n # 0
      /\ 1 \in DOMAIN heap
  <2>1. heap \in Seq(E) /\ n \in Nat /\ DOMAIN heap = 1..n /\ heap # <<>>
    BY ArraysAre DEF HeapInv, Arrays, Dequeue
  <2> HIDE DEF E
  <2> QED
    BY <2>1
<1>2. /\ returned' = heap[1] /\ priorities' = priorities \ {heap[1].item}
      /\ heap' = IF n = 1 THEN <<>> ELSE SinkDown[at]
  BY DEF Dequeue
<1>3. heap' \in Arrays /\ DistinctItems(heap') /\ Ordered(Pri(heap'), Len(heap'))
      /\ EntriesOf(heap') = EntriesOf(heap) \ {heap[1]}
  <2>1. CASE n = 1
    <3>1. heap' = <<>>
      BY <1>2, <2>1
    <3>2. EntriesOf(heap) = {heap[1]} /\ EntriesOf(heap') = {}
      BY <1>1, <2>1, <3>1 DEF EntriesOf
    <3>3. heap' \in Arrays /\ DistinctItems(heap') /\ Ordered(Pri(heap'), Len(heap'))
      BY <3>1 DEF Arrays, DistinctItems, Ordered
    <3> QED
      BY <3>2, <3>3
  <2>2. CASE n # 1
    <3> HIDE DEF E
    <3>1. /\ Front(heap) \in Seq(E) /\ Len(Front(heap)) = n - 1
          /\ \A j \in 1..(n - 1) : Front(heap)[j] = heap[j]
      BY <1>1 DEF Front
    <3>2. /\ g \in Seq(E) /\ Len(g) = n - 1
          /\ \A j \in 1..(n - 1) : g[j] = IF j = 1 THEN heap[n] ELSE heap[j]
      <4>1. heap[n] \in E /\ 1 \in 1..(n - 1) /\ n - 1 \in Nat
        BY <1>1, <2>2
      <4>2. DOMAIN Front(heap) = 1..(n - 1)
        BY <3>1, <4>1
      <4>3. 1 \in DOMAIN Front(heap)
        BY <4>1, <4>2
      <4>4. /\ g \in Seq(E) /\ Len(g) = Len(Front(heap))
            /\ \A j \in DOMAIN Front(heap) : g[j] = IF j = 1 THEN heap[n] ELSE Front(heap)[j]
        BY <3>1, <4>1, <4>3, FirstReplaced
      <4> HIDE DEF g
      <4> QED
        BY <3>1, <4>2, <4>4
    <3>3. g \in Arrays
      BY <3>2 DEF Arrays, E
    <3>4. Taken(heap, 1, g)
      BY <3>2, <3>3 DEF Taken
    <3>5. 1 \in 1..n /\ 1 <= n - 1
      BY <1>1, <2>2
    <3> HIDE DEF g, n
    <3>6. /\ DistinctItems(g) /\ EntriesOf(g) = EntriesOf(heap) \ {heap[1]}
          /\ PutAt(Pri(g), n - 1, 1)
      <4> DEFINE one == 1
      <4> HIDE DEF one
      <4>1. one \in 1..Len(heap) /\ Taken(heap, one, g) /\ one <= Len(g)
        BY <3>2, <3>4, <3>5 DEF one, n
      <4>2. /\ DistinctItems(g) /\ EntriesOf(g) = EntriesOf(heap) \ {heap[one]}
            /\ PutAt(Pri(g), Len(g), one)
        BY <4>1, TakenIs DEF HeapInv
      <4> QED
        BY <4>2, <3>2 DEF one
    <3>7. SinkingAt(Pri(g), n - 1, 1)
      BY <3>6 DEF PutAt, SinkingAt
    <3>8. at \in Positions /\ at[1] = g /\ at[2] = 1
      BY <3>2, <3>3, <3>5 DEF Positions
    <3>9. HeapMade(g, SinkDown[at])
      <4> HIDE DEF at
      <4> QED
        BY <3>2, <3>7, <3>8, SinkDownOrders
    <3>10. heap' = SinkDown[at]
      BY <1>2, <2>2
    <3> HIDE DEF at
    <3> QED
      BY <3>6, <3>9, <3>10 DEF HeapMade, Rearranged
  <2> QED
    BY <2>1, <2>2
<1> HIDE DEF n, E
<1>4. HeapInv' /\ Entries' = Entries \ {heap[1]}
  BY <1>1, <1>2, <1>3, TakenStep
<1>5. heap[1] \in Entries
  BY <1>1 DEF Entries
<1>6. \A f \in Entries : f.priority <= heap[1].priority
  BY RootIsHighest DEF Entries, HeapInv
<1>7. Abstract!Dequeue
  BY <1>2, <1>4, <1>5, <1>6 DEF Abstract!Dequeue
<1> QED
  BY <1>4, <1>7

\* remove: the last entry in place of the removed one, sunk or raised.
LEMMA RemoveStep ==
  ASSUME HeapInv, NEW x \in Items, Remove(x)
  PROVE  HeapInv' /\ Abstract!Remove(x)
<1> DEFINE n == Len(heap)
           E == [item : Items, priority : Priorities]
<1>1. PICK i \in DOMAIN heap :
        /\ heap[i].item = x
        /\ heap' = IF i <= Len(Front(Swap(heap, i, n)))
                   THEN BubbleUp[<<SinkDown[<<Front(Swap(heap, i, n)), i>>], i>>]
                   ELSE Front(Swap(heap, i, n))
        /\ priorities' = priorities \ {x} /\ returned' = returned
  BY DEF Remove
<1> DEFINE s == Swap(heap, i, n)
           g == Front(s)
           at == <<g, i>>
<1>2. heap \in Seq(E) /\ n \in Nat /\ DOMAIN heap = 1..n
  BY ArraysAre DEF HeapInv, Arrays
<1>3. n \in DOMAIN heap /\ i \in 1..n
  BY <1>2
<1> HIDE DEF E
<1>4. /\ s \in Seq(E) /\ Len(s) = n /\ s[i] = heap[n]
      /\ \A j \in DOMAIN heap : j # i /\ j # n => s[j] = heap[j]
  <2> HIDE DEF n
  <2>1. s \in Seq(E) /\ Len(s) = Len(heap)
    BY <1>2, <1>3, SwapIs
  <2>2. s[i] = heap[n]
    BY <1>2, <1>3, SwapIs
  <2>3. \A j \in DOMAIN heap : j # i /\ j # n => s[j] = heap[j]
    BY <1>2, <1>3, SwapIs
  <2> QED
    BY <2>1, <2>2, <2>3 DEF n
<1> HIDE DEF s
<1>5. g \in Seq(E) /\ Len(g) = n - 1 /\ \A j \in 1..(n - 1) : g[j] = s[j]
  BY <1>3, <1>4 DEF Front
<1>6. g \in Arrays
  BY <1>5 DEF Arrays, E
<1>7. Taken(heap, i, g)
  BY <1>2, <1>3, <1>4, <1>5, <1>6 DEF Taken
<1>8. heap' = IF i <= Len(g) THEN BubbleUp[<<SinkDown[at], i>>] ELSE g
  BY <1>1 DEF s
<1> HIDE DEF g
<1>9. /\ DistinctItems(g) /\ EntriesOf(g) = EntriesOf(heap) \ {heap[i]}
      /\ i <= Len(g) => PutAt(Pri(g), Len(g), i)
      /\ i = Len(heap) => Ordered(Pri(g), Len(g))
  <2>1. i \in 1..Len(heap)
    BY <1>3
  <2> QED
    BY <1>7, <2>1, TakenIs DEF HeapInv
<1>10. heap' \in Arrays /\ DistinctItems(heap') /\ Ordered(Pri(heap'), Len(heap'))
       /\ EntriesOf(heap') = EntriesOf(heap) \ {heap[i]}
  <2>1. CASE i <= Len(g)
    <3>1. at \in Positions /\ at[1] = g /\ at[2] = i
      BY <1>2, <1>3, <1>6, <2>1 DEF Positions
    <3>2. heap' = BubbleUp[<<SinkDown[at], i>>] /\ PutAt(Pri(g), Len(g), i)
      BY <1>8, <1>9, <2>1
    <3> HIDE DEF at
    <3>3. HeapMade(g, heap')
      BY <3>1, <3>2, SinkAndRise
    <3> QED
      BY <1>9, <3>3 DEF HeapMade, Rearranged
  <2>2. CASE ~ (i <= Len(g))
    <3>1. i = Len(heap)
      BY <1>2, <1>3, <1>5, <2>2
    <3> QED
      BY <1>6, <1>8, <1>9, <2>2, <3>1
  <2> QED
    BY <2>1, <2>2
<1> HIDE DEF n
<1>11. HeapInv' /\ Entries' = Entries \ {heap[i]}
  BY <1>1, <1>10, TakenStep
<1>12. Abstract!Remove(x)
  <2>1. heap[i] \in Entries
    BY DEF Entries
  <2> QED
    BY <1>1, <1>11, <2>1 DEF Abstract!Remove
<1> QED
  BY <1>11, <1>12

\* clear: nothing is left.
LEMMA ClearStep ==
  ASSUME Clear
  PROVE  HeapInv' /\ Abstract!Clear
<1>1. heap' = <<>> /\ priorities' = {} /\ returned' = returned
  BY DEF Clear
<1>2. heap' \in Arrays /\ DistinctItems(heap') /\ Ordered(Pri(heap'), Len(heap'))
  BY <1>1 DEF Arrays, DistinctItems, Ordered
<1>3. Entries' = {}
  BY <1>1 DEF Entries
<1> QED
  BY <1>1, <1>2, <1>3 DEF HeapInv, Abstract!Clear

\* Every step keeps the invariant and is one of the bag.
LEMMA HeapStep ==
  ASSUME HeapInv, [Next]_vars
  PROVE  HeapInv' /\ [Abstract!Next]_(Abstract!vars)
<1>1. CASE \E x \in Items, p \in Priorities : Enqueue(x, p)
  BY <1>1, EnqueueStep DEF Abstract!Next
<1>2. CASE Dequeue
  BY <1>2, DequeueStep DEF Abstract!Next
<1>3. CASE \E x \in Items : Remove(x)
  BY <1>3, RemoveStep DEF Abstract!Next
<1>4. CASE Clear
  BY <1>4, ClearStep DEF Abstract!Next
<1>5. CASE UNCHANGED vars
  BY <1>5 DEF vars, HeapInv, Entries, Abstract!vars
<1> QED
  BY <1>1, <1>2, <1>3, <1>4, <1>5 DEF Next

\* The invariant gives what the run checks.
LEMMA HeapInvGives ==
  ASSUME HeapInv
  PROVE  HeapOrder /\ HasMatchesHeap
<1> DEFINE n == Len(heap)
<1>1. n \in Nat /\ DOMAIN heap = 1..n
  BY ArraysAre DEF HeapInv
<1>2. \A k \in 1..n : Pri(heap)[k] = heap[k].priority
  BY <1>1 DEF Pri
<1>3. HeapOrder
  BY <1>1, <1>2, Halves DEF HeapInv, Ordered, HeapOrder
<1>4. Cardinality(Entries) = n
  <2> DEFINE f == [k \in 1..n |-> heap[k]]
  <2> HIDE DEF n
  <2>1. f \in Bijection(1..n, Entries)
    BY <1>1 DEF HeapInv, DistinctItems, Entries, Bijection, Injection, Surjection, IsInjective
  <2>2. IsFiniteSet(1..n) /\ Cardinality(1..n) = n
    BY <1>1, FS_Interval
  <2> QED
    BY <2>1, <2>2, FS_Bijection DEF ExistsBijection
<1> QED
  BY <1>3, <1>4 DEF HasMatchesHeap, HeapInv

\* "Remove and return highest priority item": the array heap of PriorityQueue
\* (lib/jobs/memory-job-queue.ts), with its bubbling and sinking, implements the bag
\* from which dequeue takes some entry of the highest priority, for any items and any
\* priorities that are numbers.
THEOREM HeapImplementsBag == Spec => RefinesBag
<1>1. Init => HeapInv /\ Abstract!Init
  BY HeapInit DEF Init, Abstract!Init, Entries, None, Abstract!None
<1>2. HeapInv /\ [Next]_vars => HeapInv' /\ [Abstract!Next]_(Abstract!vars)
  BY HeapStep
<1> QED
  BY <1>1, <1>2, PTL DEF Spec, RefinesBag, Abstract!Spec

\* The heap of lib/jobs/memory-job-queue.ts stays a heap, and its map of priorities has the
\* items of the array for keys, each once.
THEOREM HeapOrderAlways == Spec => [](HeapOrder /\ HasMatchesHeap)
<1>1. Init => HeapInv
  BY HeapInit
<1>2. HeapInv /\ [Next]_vars => HeapInv'
  BY HeapStep
<1>3. HeapInv => HeapOrder /\ HasMatchesHeap
  BY HeapInvGives
<1> QED
  BY <1>1, <1>2, <1>3, PTL DEF Spec

\* The heap moves by its own steps, and nothing else moves it.
LEMMA HeapMoves ==
  ASSUME [MCNext]_all
  PROVE  [Next]_vars
BY DEF MCNext, all

\* The same of the composition: whatever else works, the heap implements the bag.
THEOREM RefinesBagComposed == MCSpec => RefinesBag
<1>1. MCInit => HeapInv /\ Abstract!Init
  BY HeapInit DEF MCInit, Init, Abstract!Init, Entries, None, Abstract!None
<1>2. HeapInv /\ [MCNext]_all => HeapInv' /\ [Abstract!Next]_(Abstract!vars)
  BY HeapMoves, HeapStep
<1> QED
  BY <1>1, <1>2, PTL DEF MCSpec, RefinesBag, Abstract!Spec

-----------------------------------------------------------------------------
(* Sums of the weights of a set's members.                                  *)

Weights(B) == [c \in B |-> c.weight]

\* Weights have a sum, the one that the community modules compute.
LEMMA SumOfWeights ==
  ASSUME NEW B, IsFiniteSet(B), \A c \in B : c.weight \in Nat
  PROVE  \E f : Summing(f, Weights(B), B) /\ f[B] = MapThenSumSet(LAMBDA c : c.weight, B)
<1> DEFINE Def(f) == [s \in SUBSET B |-> IF s = {} THEN 0
                        ELSE (CHOOSE x \in s : TRUE).weight + f[s \ {CHOOSE x \in s : TRUE}]]
           iter == CHOOSE f : f = Def(f)
<1>1. Weights(B) \in [B -> Nat]
  BY DEF Weights
<1>2. ASSUME NEW f PROVE Summing(f, Weights(B), B) <=> f = Def(f)
  <2>1. \A s \in SUBSET B : s # {} => Chosen(s) \in B /\ Weights(B)[Chosen(s)] = (CHOOSE x \in s : TRUE).weight
    BY DEF Weights, Chosen
  <2>2. \A s \in SUBSET B : (IF s = {} THEN 0 ELSE Weights(B)[Chosen(s)] + f[s \ {Chosen(s)}]) = Def(f)[s]
    BY <2>1 DEF Chosen
  <2> QED
    BY <2>2 DEF Summing
<1>3. \E f : f = Def(f)
  <2>1. PICK f : Summing(f, Weights(B), B)
    BY <1>1, SumExists
  <2> HIDE DEF Def
  <2>2. f = Def(f)
    BY <1>2, <2>1
  <2> QED
    BY <2>2, Zenon
<1>4. iter = Def(iter)
  <2> HIDE DEF Def
  <2> QED
    BY <1>3, Zenon
<1>5. MapThenSumSet(LAMBDA c : c.weight, B) = iter[B]
  BY Zenon DEF MapThenSumSet, MapThenFoldSet
<1>6. Summing(iter, Weights(B), B)
  BY <1>2, <1>4
<1> QED
  BY <1>5, <1>6
\* The weights of at most three things.
LEMMA ThreeWeights ==
  ASSUME NEW a, NEW b, NEW c, a # b, a # c, b # c,
         a.weight \in Nat, b.weight \in Nat, c.weight \in Nat, NEW B \in SUBSET {a, b, c}
  PROVE  MapThenSumSet(LAMBDA x : x.weight, B) =
           (IF a \in B THEN a.weight ELSE 0) + ((IF b \in B THEN b.weight ELSE 0)
             + (IF c \in B THEN c.weight ELSE 0))
<1>1. IsFiniteSet(B)
  <2>1. IsFiniteSet({a, b, c})
    <3>1. IsFiniteSet({a})
      BY FS_Singleton
    <3>2. IsFiniteSet({a} \cup {b})
      BY <3>1, FS_AddElement
    <3>3. IsFiniteSet(({a} \cup {b}) \cup {c})
      BY <3>2, FS_AddElement
    <3>4. ({a} \cup {b}) \cup {c} = {a, b, c}
      OBVIOUS
    <3> QED
      BY <3>3, <3>4
  <2> QED
    BY <2>1, FS_Subset
<1>2. \A x \in B : x.weight \in Nat
  OBVIOUS
<1>3. PICK f : Summing(f, Weights(B), B) /\ f[B] = MapThenSumSet(LAMBDA x : x.weight, B)
  BY <1>1, <1>2, SumOfWeights
<1>4. Weights(B) \in [B -> Nat]
  BY <1>2 DEF Weights
<1>5. f[B] = (IF a \in B THEN Weights(B)[a] ELSE 0) + f[B \ {a}]
  BY <1>1, <1>3, <1>4, SumSplit
<1>6. f[B \ {a}] = (IF b \in B \ {a} THEN Weights(B)[b] ELSE 0) + f[(B \ {a}) \ {b}]
  BY <1>1, <1>3, <1>4, SumSplit
<1>7. f[(B \ {a}) \ {b}] =
        (IF c \in (B \ {a}) \ {b} THEN Weights(B)[c] ELSE 0) + f[((B \ {a}) \ {b}) \ {c}]
  <2> DEFINE u == (B \ {a}) \ {b}
  <2>1. u \in SUBSET B
    OBVIOUS
  <2> HIDE DEF u
  <2>2. f[u] = (IF c \in u THEN Weights(B)[c] ELSE 0) + f[u \ {c}]
    BY <1>1, <1>3, <1>4, <2>1, SumSplit
  <2> QED
    BY <2>2 DEF u
<1>8. ((B \ {a}) \ {b}) \ {c} = {} /\ f[{}] = 0
  BY <1>3, SumEmpty
<1>9. f[(B \ {a}) \ {b}] = IF c \in B THEN c.weight ELSE 0
  BY <1>7, <1>8 DEF Weights
<1>10. f[B \ {a}] = (IF b \in B THEN b.weight ELSE 0) + (IF c \in B THEN c.weight ELSE 0)
  BY <1>6, <1>9 DEF Weights
<1> QED
  BY <1>3, <1>5, <1>10 DEF Weights

-----------------------------------------------------------------------------
(* The monitoring (lib/monitoring/), the instances Dashboard and Detector.  *)

\* The confidence in a pattern is the sum of the weights of the conditions that are met.
LEMMA ConfidenceIs ==
  ASSUME NEW p, NEW w
  PROVE Detector!Confidence(p, w) = MapThenSumSet(LAMBDA c : c.weight, Detector!Breached(p, w))
BY DEF Detector!Confidence, Detector!MapThenSumSet, MapThenSumSet, Detector!MapThenFoldSet, MapThenFoldSet

\* What no request changes: there is no rate of evictions and no success rate of a
\* batch, and the numbers of batches are placeholders.
LEMMA PlaceholderMetrics ==
  ASSUME NEW w
  PROVE  /\ Detector!Metric(w, "evictionRate") = <<0, 1>>
         /\ Detector!Metric(w, "successRate") = <<0, 1>>
         /\ Detector!Metric(w, "batchSuccessRate") = <<IF w = <<>> THEN 0 ELSE 95, 1>>
         /\ Detector!Metric(w, "averageBatchSize") = <<IF w = <<>> THEN 0 ELSE 5, 1>>
         /\ Detector!Metric(w, "throughput") = <<Burst * Len(w), 300>>
BY DEF Detector!Metric

\* Without requests there are no times and no errors.
LEMMA EmptyMetrics ==
  /\ Detector!Metric(<<>>, "errorRate") = <<0, 1>>
  /\ Detector!Metric(<<>>, "p95ResponseTime") = <<0, 1>>
  /\ Detector!Metric(<<>>, "averageBatchDuration") = <<0, 1>>
BY DEF Detector!Metric, Detector!Ratio, Detector!Percentile95, Detector!Batched

\* The placeholders of batches.
LEMMA BatchMetrics ==
  ASSUME NEW w
  PROVE  /\ w = <<>> => /\ Detector!Metric(w, "batchSuccessRate") = <<0, 1>>
                        /\ Detector!Metric(w, "averageBatchSize") = <<0, 1>>
         /\ w # <<>> => /\ Detector!Metric(w, "batchSuccessRate") = <<95, 1>>
                        /\ Detector!Metric(w, "averageBatchSize") = <<5, 1>>
BY PlaceholderMetrics

\* A pattern's confidence is made of the weights of what is breached.
LEMMA PatternConfidence ==
  ASSUME NEW p, NEW w, NEW a, NEW b, NEW c, p.conditions = {a, b, c}, a # b, a # c, b # c,
         a.weight \in Nat, b.weight \in Nat, c.weight \in Nat
  PROVE  LET breached == Detector!Breached(p, w)
             Weight(x) == IF x \in breached THEN x.weight ELSE 0
         IN  /\ Detector!Confidence(p, w) = Weight(a) + (Weight(b) + Weight(c))
             /\ \A x \in {a, b, c} : Weight(x) \in 0..x.weight
<1> DEFINE B == Detector!Breached(p, w)
<1>1. B \in SUBSET {a, b, c}
  BY DEF Detector!Breached
<1> HIDE DEF B
<1>2. MapThenSumSet(LAMBDA x : x.weight, B) =
           (IF a \in B THEN a.weight ELSE 0) + ((IF b \in B THEN b.weight ELSE 0)
             + (IF c \in B THEN c.weight ELSE 0))
  BY <1>1, ThreeWeights
<1>3. Detector!Confidence(p, w) = MapThenSumSet(LAMBDA x : x.weight, B)
  BY ConfidenceIs DEF B
<1> QED
  BY <1>2, <1>3 DEF B

\* Nothing counts evictions: two of the three conditions of a memory leak weigh 55 of 85.
LEMMA MemoryLeakNever ==
  ASSUME NEW w
  PROVE  ~ (Detector!Confidence(Detector!MemoryLeak, w) >= 85)
<1> DEFINE p == Detector!MemoryLeak
           a == Detector!Condition("averageResponseTime", "gt", 200, 30)
           b == Detector!Condition("averageBatchDuration", "gt", 3000, 25)
           c == Detector!Condition("evictionRate", "gt", 50, 45)
           B == Detector!Breached(p, w)
           Weight(x) == IF x \in B THEN x.weight ELSE 0
<1>1. p.conditions = {a, b, c}
  BY DEF Detector!MemoryLeak, Detector!Pattern
<1>2. a # b /\ a # c /\ b # c
  BY DEF Detector!Condition
<1>3. a.weight = 30 /\ b.weight = 25 /\ c.weight = 45
  BY DEF Detector!Condition
<1>4. c \notin B
  BY PlaceholderMetrics DEF Detector!Breached, Detector!IsConditionBreached, Detector!Above,
    Detector!Below, Detector!Condition
<1> HIDE DEF p, a, b, c
<1>5. Detector!Confidence(p, w) = Weight(a) + (Weight(b) + Weight(c))
  BY <1>1, <1>2, <1>3, PatternConfidence DEF B
<1> HIDE DEF B
<1> QED
  BY <1>3, <1>4, <1>5 DEF p

\* Without evictions cache thrashing reaches 65 of 80.
LEMMA CacheThrashingNever ==
  ASSUME NEW w
  PROVE  ~ (Detector!Confidence(Detector!CacheThrashing, w) >= 80)
<1> DEFINE p == Detector!CacheThrashing
           a == Detector!Condition("hitRate", "lt", 60, 40)
           b == Detector!Condition("evictionRate", "gt", 30, 35)
           c == Detector!Condition("averageResponseTime", "gt", 150, 25)
           B == Detector!Breached(p, w)
           Weight(x) == IF x \in B THEN x.weight ELSE 0
<1>1. p.conditions = {a, b, c}
  BY DEF Detector!CacheThrashing, Detector!Pattern
<1>2. a # b /\ a # c /\ b # c
  BY DEF Detector!Condition
<1>3. a.weight = 40 /\ b.weight = 35 /\ c.weight = 25
  BY DEF Detector!Condition
<1>4. b \notin B
  BY PlaceholderMetrics DEF Detector!Breached, Detector!IsConditionBreached, Detector!Above,
    Detector!Below, Detector!Condition
<1> HIDE DEF p, a, b, c
<1>5. Detector!Confidence(p, w) = Weight(a) + (Weight(b) + Weight(c))
  BY <1>1, <1>2, <1>3, PatternConfidence DEF B
<1> HIDE DEF B
<1> QED
  BY <1>3, <1>4, <1>5 DEF p

\* Errors and failed batches never come together: rate limits reach 70 of 85.
LEMMA RateLimitExhaustionNever ==
  ASSUME NEW w
  PROVE  ~ (Detector!Confidence(Detector!RateLimitExhaustion, w) >= 85)
<1> DEFINE p == Detector!RateLimitExhaustion
           a == Detector!Condition("errorRate", "gt", 10, 30)
           b == Detector!Condition("successRate", "lt", 90, 35)
           c == Detector!Condition("batchSuccessRate", "lt", 95, 35)
           B == Detector!Breached(p, w)
           Weight(x) == IF x \in B THEN x.weight ELSE 0
<1>1. p.conditions = {a, b, c}
  BY DEF Detector!RateLimitExhaustion, Detector!Pattern
<1>2. a # b /\ a # c /\ b # c
  BY DEF Detector!Condition
<1>3. a.weight = 30 /\ b.weight = 35 /\ c.weight = 35
  BY DEF Detector!Condition
<1>4. a \notin B \/ c \notin B
  <2>1. CASE w = <<>>
    BY <2>1, EmptyMetrics DEF Detector!Breached, Detector!IsConditionBreached, Detector!Above,
      Detector!Condition
  <2>2. CASE w # <<>>
    BY <2>2, BatchMetrics DEF Detector!Breached, Detector!IsConditionBreached, Detector!Below,
      Detector!Condition
  <2> QED
    BY <2>1, <2>2
<1> HIDE DEF p, a, b, c
<1>5. Detector!Confidence(p, w) = Weight(a) + (Weight(b) + Weight(c))
  BY <1>1, <1>2, <1>3, PatternConfidence DEF B
<1> HIDE DEF B
<1> QED
  BY <1>3, <1>4, <1>5 DEF p

\* No batch is large, and slow batches and failed ones never come together: an
\* overload of batches reaches 40 of 75.
LEMMA BatchOverloadNever ==
  ASSUME NEW w
  PROVE  ~ (Detector!Confidence(Detector!BatchOverload, w) >= 75)
<1> DEFINE p == Detector!BatchOverload
           a == Detector!Condition("averageBatchDuration", "gt", 5000, 40)
           b == Detector!Condition("batchSuccessRate", "lt", 85, 35)
           c == Detector!Condition("averageBatchSize", "gt", 15, 25)
           B == Detector!Breached(p, w)
           Weight(x) == IF x \in B THEN x.weight ELSE 0
<1>1. p.conditions = {a, b, c}
  BY DEF Detector!BatchOverload, Detector!Pattern
<1>2. a # b /\ a # c /\ b # c
  BY DEF Detector!Condition
<1>3. a.weight = 40 /\ b.weight = 35 /\ c.weight = 25
  BY DEF Detector!Condition
<1>4. c \notin B /\ (a \notin B \/ b \notin B)
  <2>1. CASE w = <<>>
    BY <2>1, EmptyMetrics, BatchMetrics DEF Detector!Breached, Detector!IsConditionBreached,
      Detector!Above, Detector!Condition
  <2>2. CASE w # <<>>
    BY <2>2, BatchMetrics DEF Detector!Breached, Detector!IsConditionBreached, Detector!Above,
      Detector!Below, Detector!Condition
  <2> QED
    BY <2>1, <2>2
<1> HIDE DEF p, a, b, c
<1>5. Detector!Confidence(p, w) = Weight(a) + (Weight(b) + Weight(c))
  BY <1>1, <1>2, <1>3, PatternConfidence DEF B
<1> HIDE DEF B
<1> QED
  BY <1>3, <1>4, <1>5 DEF p

\* Half failed batches never come with errors or slow answers: the failover of a
\* circuit reaches 80 of 95.
LEMMA CircuitFailoverNever ==
  ASSUME NEW w
  PROVE  ~ (Detector!Confidence(Detector!CircuitFailover, w) >= 95)
<1> DEFINE p == Detector!CircuitFailover
           a == Detector!Condition("errorRate", "gt", 25, 50)
           b == Detector!Condition("p95ResponseTime", "gt", 5000, 30)
           c == Detector!Condition("batchSuccessRate", "lt", 50, 20)
           B == Detector!Breached(p, w)
           Weight(x) == IF x \in B THEN x.weight ELSE 0
<1>1. p.conditions = {a, b, c}
  BY DEF Detector!CircuitFailover, Detector!Pattern
<1>2. a # b /\ a # c /\ b # c
  BY DEF Detector!Condition
<1>3. a.weight = 50 /\ b.weight = 30 /\ c.weight = 20
  BY DEF Detector!Condition
<1>4. c \notin B \/ (a \notin B /\ b \notin B)
  <2>1. CASE w = <<>>
    BY <2>1, EmptyMetrics DEF Detector!Breached, Detector!IsConditionBreached,
      Detector!Above, Detector!Condition
  <2>2. CASE w # <<>>
    BY <2>2, BatchMetrics DEF Detector!Breached, Detector!IsConditionBreached,
      Detector!Below, Detector!Condition
  <2> QED
    BY <2>1, <2>2
<1> HIDE DEF p, a, b, c
<1>5. Detector!Confidence(p, w) = Weight(a) + (Weight(b) + Weight(c))
  BY <1>1, <1>2, <1>3, PatternConfidence DEF B
<1> HIDE DEF B
<1> QED
  BY <1>3, <1>4, <1>5 DEF p

\* The requests of a window are among the last 10,000.
FewRequests(w) == Burst * Len(w) \in 0..10000

\* A window of ten thousand requests in five minutes is never 900 a second: throughput
\* saturation reaches 65 of 70.
LEMMA ThroughputSaturationNever ==
  ASSUME NEW w, FewRequests(w)
  PROVE  ~ (Detector!Confidence(Detector!ThroughputSaturation, w) >= 70)
<1> DEFINE p == Detector!ThroughputSaturation
           a == Detector!Condition("throughput", "gt", 900, 35)
           b == Detector!Condition("averageResponseTime", "gt", 100, 35)
           c == Detector!Condition("p95ResponseTime", "gt", 300, 30)
           B == Detector!Breached(p, w)
           Weight(x) == IF x \in B THEN x.weight ELSE 0
<1>1. p.conditions = {a, b, c}
  BY DEF Detector!ThroughputSaturation, Detector!Pattern
<1>2. a # b /\ a # c /\ b # c
  BY DEF Detector!Condition
<1>3. a.weight = 35 /\ b.weight = 35 /\ c.weight = 30
  BY DEF Detector!Condition
<1>4. a \notin B
  <2> DEFINE n == Burst * Len(w)
  <2>1. n \in 0..10000
    BY DEF FewRequests
  <2>2. Detector!Metric(w, "throughput") = <<n, 300>>
    BY PlaceholderMetrics
  <2> HIDE DEF n
  <2> QED
    <3>1. ~ (n > 900 * 300)
      BY <2>1, SMTT(30)
    <3>2. ~ Detector!Above(<<n, 300>>, 900)
      BY <3>1 DEF Detector!Above
    <3> QED
      BY <2>2, <3>2 DEF Detector!Breached, Detector!IsConditionBreached, Detector!Condition
<1> HIDE DEF p, a, b, c
<1>5. Detector!Confidence(p, w) = Weight(a) + (Weight(b) + Weight(c))
  BY <1>1, <1>2, <1>3, PatternConfidence DEF B
<1> HIDE DEF B
<1> QED
  BY <1>3, <1>4, <1>5 DEF p

Ids == {"memory", "thrashing", "limits", "pool", "compression", "batches", "failover",
        "throughput", "slow"}
Firing == {"pool", "compression", "slow"}

\* The nine patterns, by their ids.
LEMMA PatternsAre ==
  /\ DOMAIN Detector!Patterns = Ids
  /\ Detector!Patterns["memory"] = Detector!MemoryLeak
  /\ Detector!Patterns["thrashing"] = Detector!CacheThrashing
  /\ Detector!Patterns["limits"] = Detector!RateLimitExhaustion
  /\ Detector!Patterns["pool"] = Detector!PoolExhaustion
  /\ Detector!Patterns["compression"] = Detector!CompressionDegradation
  /\ Detector!Patterns["batches"] = Detector!BatchOverload
  /\ Detector!Patterns["failover"] = Detector!CircuitFailover
  /\ Detector!Patterns["throughput"] = Detector!ThroughputSaturation
  /\ Detector!Patterns["slow"] = Detector!SlowOperations
BY DEF Detector!Patterns, Ids

\* The confidence each pattern asks for.
LEMMA MinimaAre ==
  /\ Detector!MemoryLeak.minimum = 85
  /\ Detector!CacheThrashing.minimum = 80
  /\ Detector!RateLimitExhaustion.minimum = 85
  /\ Detector!PoolExhaustion.minimum = 90
  /\ Detector!CompressionDegradation.minimum = 65
  /\ Detector!BatchOverload.minimum = 75
  /\ Detector!CircuitFailover.minimum = 95
  /\ Detector!ThroughputSaturation.minimum = 70
  /\ Detector!SlowOperations.minimum = 85
<1> USE DEF Detector!Pattern
<1>1. Detector!MemoryLeak.minimum = 85
  BY DEF Detector!MemoryLeak
<1>2. Detector!CacheThrashing.minimum = 80
  BY DEF Detector!CacheThrashing
<1>3. Detector!RateLimitExhaustion.minimum = 85
  BY DEF Detector!RateLimitExhaustion
<1>4. Detector!PoolExhaustion.minimum = 90
  BY DEF Detector!PoolExhaustion
<1>5. Detector!CompressionDegradation.minimum = 65
  BY DEF Detector!CompressionDegradation
<1>6. Detector!BatchOverload.minimum = 75
  BY DEF Detector!BatchOverload
<1>7. Detector!CircuitFailover.minimum = 95
  BY DEF Detector!CircuitFailover
<1>8. Detector!ThroughputSaturation.minimum = 70
  BY DEF Detector!ThroughputSaturation
<1>9. Detector!SlowOperations.minimum = 85
  BY DEF Detector!SlowOperations
<1> QED
  BY <1>1, <1>2, <1>3, <1>4, <1>5, <1>6, <1>7, <1>8, <1>9

\* Whatever the requests, only three patterns reach their confidence.
LEMMA DetectedAreFiring ==
  ASSUME NEW w, FewRequests(w)
  PROVE  Detector!Detected(w) \subseteq Firing
<1> SUFFICES ASSUME NEW id \in Detector!Detected(w) PROVE id \in Firing
  OBVIOUS
<1>1. id \in Ids /\ Detector!Confidence(Detector!Patterns[id], w) >= Detector!Patterns[id].minimum
  BY PatternsAre DEF Detector!Detected
<1>2. id # "memory"
  BY <1>1, PatternsAre, MemoryLeakNever, MinimaAre
<1>3. id # "thrashing"
  BY <1>1, PatternsAre, CacheThrashingNever, MinimaAre
<1>4. id # "limits"
  BY <1>1, PatternsAre, RateLimitExhaustionNever, MinimaAre
<1>5. id # "batches"
  BY <1>1, PatternsAre, BatchOverloadNever, MinimaAre
<1>6. id # "failover"
  BY <1>1, PatternsAre, CircuitFailoverNever, MinimaAre
<1>7. id # "throughput"
  BY <1>1, PatternsAre, ThroughputSaturationNever, MinimaAre
<1> QED
  BY <1>1, <1>2, <1>3, <1>4, <1>5, <1>6, <1>7 DEF Ids, Firing

\* Three conditions whose weights make 100.
MakeHundred(p, a, b, c) ==
  /\ p.conditions = {a, b, c} /\ a # b /\ a # c /\ b # c
  /\ a.weight \in Nat /\ b.weight \in Nat /\ c.weight \in Nat
  /\ a.weight + (b.weight + c.weight) = 100

\* The weights of a pattern make 100.
LEMMA ConfidenceUpTo ==
  ASSUME NEW p, NEW w, NEW a, NEW b, NEW c, MakeHundred(p, a, b, c)
  PROVE  Detector!Confidence(p, w) \in 0..100
<1> USE DEF MakeHundred
<1> DEFINE B == Detector!Breached(p, w)
           Weight(x) == IF x \in B THEN x.weight ELSE 0
<1>1. Detector!Confidence(p, w) = Weight(a) + (Weight(b) + Weight(c))
  BY PatternConfidence
<1>2. Weight(a) \in 0..a.weight /\ Weight(b) \in 0..b.weight /\ Weight(c) \in 0..c.weight
  OBVIOUS
<1> HIDE DEF Weight
<1> QED
  BY <1>1, <1>2

\* The confidence in a pattern that can fire is a percentage.
LEMMA ConfidenceIn ==
  ASSUME NEW w, NEW id \in Firing
  PROVE  Detector!Confidence(Detector!Patterns[id], w) \in 0..100
<1> DEFINE p == Detector!Patterns[id]
<1>1. CASE id = "pool"
  <2> DEFINE a == Detector!Condition("p95ResponseTime", "gt", 2000, 40)
             b == Detector!Condition("errorRate", "gt", 5, 30)
             c == Detector!Condition("totalRequests", "gt", 100, 30)
  <2>1. p.conditions = {a, b, c}
    BY <1>1, PatternsAre DEF Detector!PoolExhaustion, Detector!Pattern
  <2>2. a # b /\ a # c /\ b # c /\ a.weight = 40 /\ b.weight = 30 /\ c.weight = 30
    BY DEF Detector!Condition
  <2>3. a.weight + (b.weight + c.weight) = 100 /\ a.weight \in Nat /\ b.weight \in Nat /\ c.weight \in Nat
    BY <2>2
  <2> HIDE DEF p, a, b, c
  <2>4. MakeHundred(p, a, b, c)
    BY <2>1, <2>2, <2>3 DEF MakeHundred
  <2>5. Detector!Confidence(p, w) \in 0..100
    BY <2>4, ConfidenceUpTo
  <2> QED
    BY <2>5 DEF p
<1>2. CASE id = "compression"
  <2> DEFINE a == Detector!Condition("compressionRatio", "lt", 40, 50)
             b == Detector!Condition("averageResponseTime", "gt", 100, 30)
             c == Detector!Condition("compressionSavings", "lt", 50000, 20)
  <2>1. p.conditions = {a, b, c}
    BY <1>2, PatternsAre DEF Detector!CompressionDegradation, Detector!Pattern
  <2>2. a # b /\ a # c /\ b # c /\ a.weight = 50 /\ b.weight = 30 /\ c.weight = 20
    BY DEF Detector!Condition
  <2>3. a.weight + (b.weight + c.weight) = 100 /\ a.weight \in Nat /\ b.weight \in Nat /\ c.weight \in Nat
    BY <2>2
  <2> HIDE DEF p, a, b, c
  <2>4. MakeHundred(p, a, b, c)
    BY <2>1, <2>2, <2>3 DEF MakeHundred
  <2>5. Detector!Confidence(p, w) \in 0..100
    BY <2>4, ConfidenceUpTo
  <2> QED
    BY <2>5 DEF p
<1>3. CASE id = "slow"
  <2> DEFINE a == Detector!Condition("p95ResponseTime", "gt", 500, 40)
             b == Detector!Condition("averageResponseTime", "gt", 100, 40)
             c == Detector!Condition("hitRate", "lt", 75, 20)
  <2>1. p.conditions = {a, b, c}
    BY <1>3, PatternsAre DEF Detector!SlowOperations, Detector!Pattern
  <2>2. a # b /\ a # c /\ b # c /\ a.weight = 40 /\ b.weight = 40 /\ c.weight = 20
    BY DEF Detector!Condition
  <2>3. a.weight + (b.weight + c.weight) = 100 /\ a.weight \in Nat /\ b.weight \in Nat /\ c.weight \in Nat
    BY <2>2
  <2> HIDE DEF p, a, b, c
  <2>4. MakeHundred(p, a, b, c)
    BY <2>1, <2>2, <2>3 DEF MakeHundred
  <2>5. Detector!Confidence(p, w) \in 0..100
    BY <2>4, ConfidenceUpTo
  <2> QED
    BY <2>5 DEF p
<1> QED
  BY <1>1, <1>2, <1>3 DEF Firing

\* What a bottleneck that is found looks like.
Found(b, w) ==
  /\ b.id \in Firing /\ b.resolved = FALSE
  /\ b.confidence \in Detector!Patterns[b.id].minimum..100

\* What is detected is one of the three patterns that can fire, with the confidence it
\* asks for.
LEMMA FoundAre ==
  ASSUME NEW w, FewRequests(w), NEW id \in Detector!Detected(w)
  PROVE  /\ id \in Firing /\ id \in Ids
         /\ Detector!Confidence(Detector!Patterns[id], w) \in Detector!Patterns[id].minimum..100
<1>1. id \in Firing
  BY DetectedAreFiring
<1>2. Detector!Confidence(Detector!Patterns[id], w) >= Detector!Patterns[id].minimum
  BY DEF Detector!Detected
<1>3. Detector!Patterns[id].minimum \in Int
  BY <1>1, PatternsAre, MinimaAre DEF Firing
<1>4. Detector!Confidence(Detector!Patterns[id], w) \in 0..100
  BY <1>1, ConfidenceIn
<1> QED
  BY <1>1, <1>2, <1>3, <1>4 DEF Firing, Ids

snapshots == v2
active == v6
history == v7
detections == v8

\* A burst has requests in it, and no time is "never".
MonitoringIsSane == Burst \in Nat \ {0} /\ Nil \notin Nat

KeyOf(b) == <<b.id, b.at>>

ActiveOK(b, now, runs) ==
  /\ b.id \in Firing /\ b.confidence \in Detector!Patterns[b.id].minimum..100
  /\ b.resolved = FALSE
  /\ b.at \in Nat \X Nat /\ b.at[1] <= now /\ b.at[2] < runs

ResolvedOK(h, runs) ==
  /\ h.id \in Firing /\ h.resolved = TRUE
  /\ h.at \in Nat \X Nat /\ h.at[2] < runs
  /\ h.resolvedAt \in Nat /\ h.at[1] <= h.resolvedAt

KeepsSnapshots ==
  /\ snapshots \in Seq(Elements(snapshots))
  /\ Len(snapshots) <= 10000 \div Burst

OneOfEach ==
  /\ \A b, c \in active : KeyOf(b) = KeyOf(c) => b = c
  /\ \A g, h \in history : KeyOf(g) = KeyOf(h) => g = h
  /\ \A b \in active : \A h \in history : KeyOf(b) # KeyOf(h)

DetectorInv ==
  /\ clock \in Nat /\ detections \in Nat
  /\ KeepsSnapshots
  /\ IsFiniteSet(active) /\ IsFiniteSet(history)
  /\ \A b \in active : ActiveOK(b, clock, detections)
  /\ \A h \in history : ResolvedOK(h, detections)
  /\ OneOfEach

\* The instance's operators on sequences and sets are those of this module.
LEMMA DetectorOperators ==
  /\ \A s, ks : Detector!Without(s, ks) = Without(s, ks)
  /\ \A S : Detector!Cardinality(S) = Cardinality(S)
  /\ \A s : Detector!Elements(s) = Elements(s)
<1>1. ASSUME NEW s, NEW ks PROVE Detector!Without(s, ks) = Without(s, ks)
  BY DEF Detector!Without, Without, Detector!Cardinality, Cardinality
<1>2. \A S : Detector!Cardinality(S) = Cardinality(S)
  BY DEF Detector!Cardinality, Cardinality
<1>3. \A s : Detector!Elements(s) = Elements(s)
  BY DEF Detector!Elements, Elements
<1> QED BY <1>1, <1>2, <1>3

\* What is left of a sequence is not longer.
LEMMA WithoutIsShorter ==
  ASSUME NEW E, NEW s \in Seq(E), NEW ks
  PROVE  Len(Without(s, ks)) \in 0..Len(s)
<1> DEFINE kept == {i \in DOMAIN s : s[i] \notin ks}
<1>1. DOMAIN s = 1..Len(s) /\ Len(s) \in Nat
  OBVIOUS
<1>2. kept \in SUBSET (1..Len(s))
  BY <1>1
<1> DEFINE n == Cardinality(kept)
           Nth(k) == CHOOSE i \in kept : Cardinality({j \in kept : j <= i}) = k
<1>3. Without(s, ks) = [k \in 1..n |-> s[Nth(k)]]
  BY DEF Without
<1> HIDE DEF kept
<1>4. n \in Nat /\ n <= Len(s)
  BY <1>1, <1>2, Places
<1> HIDE DEF n, Nth
<1>5. Len(Without(s, ks)) = n
  BY <1>3, <1>4
<1> QED
  BY <1>1, <1>4, <1>5

\* The division and the multiplication.
LEMMA FewBursts ==
  ASSUME NEW a \in Nat \ {0}, NEW n \in Nat, n <= 10000 \div a
  PROVE  a * n \in 0..10000
<1>1. a * n <= 10000 /\ a * n \in Nat
  BY SMTT(30)
<1> QED
  BY <1>1, SMTT(30)

\* The snapshots in the window hold at most ten thousand requests.
LEMMA WindowIsSmall ==
  ASSUME MonitoringIsSane, KeepsSnapshots
  PROVE  FewRequests(Detector!InWindow(snapshots))
<1> DEFINE E == Elements(snapshots)
           ks == {s \in E : s.at < clock - AlertLife}
           n == Len(Without(snapshots, ks))
<1>1. Detector!InWindow(snapshots) = Without(snapshots, ks)
  BY DetectorOperators DEF Detector!InWindow, clock
<1>2. snapshots \in Seq(E)
  BY DEF KeepsSnapshots
<1> HIDE DEF E, ks
<1>3. n \in 0..Len(snapshots) /\ Len(snapshots) \in Nat
  BY <1>2, WithoutIsShorter
<1> DEFINE d == 10000 \div Burst
<1>4. Burst \in Nat \ {0} /\ d \in Nat /\ Len(snapshots) <= d
  BY DEF KeepsSnapshots, MonitoringIsSane
<1> HIDE DEF d, n
<1>5. n \in Nat /\ n <= d
  BY <1>3, <1>4, SMTT(30)
<1>6. Burst * n \in 0..10000
  <2> DEFINE a == Burst
  <2>1. a \in Nat \ {0} /\ n \in Nat /\ n <= 10000 \div a
    BY <1>4, <1>5, SMTT(30) DEF d
  <2> HIDE DEF a
  <2>2. a * n \in 0..10000
    BY <2>1, FewBursts
  <2> QED
    BY <2>2 DEF a
<1> QED
  BY <1>1, <1>6 DEF FewRequests, n

\* Array.push and shift.
Shifted(s, limit) == IF Len(s) > limit THEN Tail(s) ELSE s

\* One more at the end, and one fewer in front when there are too many.
LEMMA ShiftedIs ==
  ASSUME NEW E, NEW s \in Seq(E), NEW e \in E, NEW n \in Nat, Len(s) <= n
  PROVE  Shifted(Append(s, e), n) \in Seq(E) /\ Len(Shifted(Append(s, e), n)) <= n
<1>1. Append(s, e) \in Seq(E) /\ Len(Append(s, e)) = Len(s) + 1
  OBVIOUS
<1>2. Tail(Append(s, e)) \in Seq(E) /\ Len(Tail(Append(s, e))) = Len(s)
  BY <1>1
<1> QED
  BY <1>1, <1>2 DEF Shifted

\* One snapshot more, and the oldest of too many gone.
LEMMA OneMoreSnapshot ==
  ASSUME MonitoringIsSane, KeepsSnapshots, NEW e,
         snapshots' = Shifted(Append(snapshots, e), 10000 \div Burst)
  PROVE  KeepsSnapshots' /\ Elements(snapshots') \subseteq Elements(snapshots) \cup {e}
<1> DEFINE X == Elements(snapshots)
           E == X \cup {e}
           n == 10000 \div Burst
           next == Shifted(Append(snapshots, e), n)
<1>1. snapshots' = next
  OBVIOUS
<1>2. n \in Nat
  BY DEF MonitoringIsSane
<1>3. snapshots \in Seq(E) /\ e \in E /\ Len(snapshots) <= n
  <2>1. snapshots \in Seq(X) /\ X \subseteq E
    BY DEF KeepsSnapshots
  <2>2. snapshots \in Seq(E)
    <3> HIDE DEF X, E
    <3> QED
      BY <2>1
  <2> QED
    BY <2>2 DEF KeepsSnapshots
<1> HIDE DEF X, E, n
<1>4. next \in Seq(E) /\ Len(next) <= n
  BY <1>2, <1>3, ShiftedIs
<1> HIDE DEF next
<1>5. next \in Seq(Elements(next)) /\ Elements(next) \subseteq E
  BY <1>4 DEF Elements
<1>6. KeepsSnapshots'
  BY <1>1, <1>4, <1>5 DEF KeepsSnapshots, n
<1> QED
  BY <1>1, <1>5, <1>6 DEF E, X

\* At first there is no snapshot.
LEMMA NoSnapshots ==
  ASSUME MonitoringIsSane, snapshots = <<>>
  PROVE  KeepsSnapshots
<1>1. <<>> \in Seq(Elements(<<>>)) /\ Len(<<>>) = 0
  OBVIOUS
<1>2. 0 <= 10000 \div Burst
  BY DEF MonitoringIsSane
<1> QED
  BY <1>1, <1>2 DEF KeepsSnapshots

\* The detector's initial states.
LEMMA DetectorInit ==
  ASSUME MonitoringIsSane, Detector!BottlenecksInit
  PROVE  DetectorInv
<1>1. clock = 0 /\ detections = 0 /\ active = {} /\ history = {} /\ snapshots = <<>>
  BY DEF Detector!BottlenecksInit, Detector!Init, clock, detections, active, history, snapshots
<1>2. KeepsSnapshots
  BY <1>1, NoSnapshots
<1>3. IsFiniteSet({})
  BY FS_EmptySet
<1> QED
  BY <1>1, <1>2, <1>3 DEF DetectorInv, OneOfEach

\* A snapshot is kept among at most ten thousand requests.
LEMMA SnapshotsStep ==
  ASSUME MonitoringIsSane, DetectorInv, NEW k \in LoadKinds, Detector!RecordSnapshot(k)
  PROVE  KeepsSnapshots' /\ clock' = clock
<1>1. KeepsSnapshots
  BY DEF DetectorInv
<1>2. snapshots' = Shifted(Append(snapshots, Detector!Snapshot(k)), 10000 \div Burst) /\ clock' = clock
  BY DEF Detector!RecordSnapshot, Detector!Kept, Shifted, snapshots, clock
<1> QED
  BY <1>1, <1>2, OneMoreSnapshot

\* What is known stays as it is.
LEMMA KnownStays ==
  ASSUME MonitoringIsSane, DetectorInv, clock' \in Nat, clock <= clock', KeepsSnapshots',
         UNCHANGED <<active, history, detections>>
  PROVE  DetectorInv'
<1>1. clock \in Nat
  BY DEF DetectorInv
<1>2. \A b \in active : ActiveOK(b, clock', detections)
  <2> SUFFICES ASSUME NEW b \in active PROVE ActiveOK(b, clock', detections)
    OBVIOUS
  <2>1. ActiveOK(b, clock, detections)
    BY DEF DetectorInv
  <2>2. b.at[1] <= clock'
    BY <1>1, <2>1 DEF ActiveOK
  <2> QED
    BY <2>1, <2>2 DEF ActiveOK
<1>3. \A h \in history : ResolvedOK(h, detections)
  BY DEF DetectorInv
<1> QED
  BY <1>2, <1>3 DEF DetectorInv, OneOfEach

\* Requests, time and a reset of the dashboard leave the bottlenecks as they are.
LEMMA ObservesStep ==
  ASSUME MonitoringIsSane, DetectorInv, Detector!Observes
  PROVE  DetectorInv'
<1>1. UNCHANGED <<active, history, detections>>
  BY DEF Detector!Observes, Detector!bottleneckVars, active, history, detections
<1>2. clock \in Nat /\ KeepsSnapshots
  BY DEF DetectorInv
<1>3. ASSUME NEW k \in LoadKinds, Detector!RecordSnapshot(k) PROVE DetectorInv'
  BY <1>1, <1>2, <1>3, SnapshotsStep, KnownStays
<1>4. CASE Detector!Reset
  <2>1. clock' = clock /\ snapshots' = <<>>
    BY <1>4 DEF Detector!Reset, clock, snapshots
  <2>2. KeepsSnapshots'
    <3>1. <<>> \in Seq(Elements(<<>>)) /\ Len(<<>>) = 0
      OBVIOUS
    <3>2. 0 <= 10000 \div Burst
      BY DEF MonitoringIsSane
    <3> QED
      BY <2>1, <3>1, <3>2 DEF KeepsSnapshots
  <2> QED
    BY <1>1, <1>2, <2>1, <2>2, KnownStays
<1>5. CASE Detector!Tick
  <2>1. clock' = clock + 1 /\ snapshots' = snapshots
    BY <1>5 DEF Detector!Tick, clock, snapshots
  <2>2. KeepsSnapshots'
    BY <1>2, <2>1 DEF KeepsSnapshots
  <2>3. clock' \in Nat /\ clock <= clock'
    BY <1>2, <2>1
  <2> QED
    BY <1>1, <2>2, <2>3, KnownStays
<1> QED
  BY <1>3, <1>4, <1>5 DEF Detector!Observes

\* A detection adds the patterns found, at a moment no bottleneck has yet.
LEMMA DetectStep ==
  ASSUME MonitoringIsSane, DetectorInv, Detector!Detect
  PROVE  DetectorInv'
<1> DEFINE w == Detector!InWindow(snapshots)
           D == Detector!Detected(w)
           New(id) == Detector!Bottleneck(id, w)
           found == {New(id) : id \in D}
<1>1. /\ detections' = detections + 1 /\ active' = active \cup found
      /\ UNCHANGED <<clock, snapshots, history>>
  BY DEF Detector!Detect, detections, active, clock, snapshots, history
<1>2. /\ clock \in Nat /\ detections \in Nat /\ KeepsSnapshots
      /\ IsFiniteSet(active) /\ IsFiniteSet(history) /\ OneOfEach
  BY DEF DetectorInv
<1>3. FewRequests(w)
  BY <1>2, WindowIsSmall
<1>4. \A id \in D : New(id).id = id /\ New(id).at = <<clock, detections>> /\ New(id).resolved = FALSE
                    /\ New(id).confidence = Detector!Confidence(Detector!Patterns[id], w)
  BY DEF Detector!Bottleneck, clock, detections
<1> HIDE DEF w
<1>5. \A id \in D : id \in Firing
        /\ Detector!Confidence(Detector!Patterns[id], w) \in Detector!Patterns[id].minimum..100
  BY <1>3, FoundAre
<1> HIDE DEF D, New
<1>6. \A id \in D : ActiveOK(New(id), clock, detections + 1)
  <2> SUFFICES ASSUME NEW id \in D PROVE ActiveOK(New(id), clock, detections + 1)
    OBVIOUS
  <2> DEFINE b == New(id)
  <2>1. b.id \in Firing /\ b.confidence \in Detector!Patterns[b.id].minimum..100 /\ b.resolved = FALSE
    BY <1>4, <1>5
  <2>2. b.at = <<clock, detections>>
    BY <1>4
  <2> HIDE DEF b
  <2>3. b.at \in Nat \X Nat /\ b.at[1] <= clock /\ b.at[2] < detections + 1
    BY <1>2, <2>2
  <2>4. ActiveOK(b, clock, detections + 1)
    BY <2>1, <2>3 DEF ActiveOK
  <2> QED
    BY <2>4 DEF b
<1>7. \A b \in active : ActiveOK(b, clock, detections + 1) /\ b.at[2] < detections
  <2> SUFFICES ASSUME NEW b \in active
               PROVE  ActiveOK(b, clock, detections + 1) /\ b.at[2] < detections
    OBVIOUS
  <2>1. ActiveOK(b, clock, detections)
    BY DEF DetectorInv
  <2>2. b.at[2] \in Nat /\ b.at[2] < detections
    BY <2>1 DEF ActiveOK
  <2>3. b.at[2] < detections + 1
    BY <1>2, <2>2
  <2> QED
    BY <2>1, <2>2, <2>3 DEF ActiveOK
<1>8. \A h \in history : ResolvedOK(h, detections + 1) /\ h.at[2] < detections
  <2> SUFFICES ASSUME NEW h \in history
               PROVE  ResolvedOK(h, detections + 1) /\ h.at[2] < detections
    OBVIOUS
  <2>1. ResolvedOK(h, detections)
    BY DEF DetectorInv
  <2>2. h.at[2] \in Nat /\ h.at[2] < detections
    BY <2>1 DEF ResolvedOK
  <2>3. h.at[2] < detections + 1
    BY <1>2, <2>2
  <2> QED
    BY <2>1, <2>2, <2>3 DEF ResolvedOK
<1>9. IsFiniteSet(active \cup found)
  <2>1. IsFiniteSet(D)
    <3>1. D \subseteq Firing
      BY <1>5
    <3>2. IsFiniteSet(Firing)
      <4>1. IsFiniteSet({"pool"})
        BY FS_Singleton
      <4>2. IsFiniteSet({"pool"} \cup {"compression"})
        BY <4>1, FS_AddElement
      <4>3. IsFiniteSet(({"pool"} \cup {"compression"}) \cup {"slow"})
        BY <4>2, FS_AddElement
      <4>4. Firing = ({"pool"} \cup {"compression"}) \cup {"slow"}
        BY DEF Firing
      <4> QED
        BY <4>3, <4>4
    <3> QED
      BY <3>1, <3>2, FS_Subset
  <2>2. IsFiniteSet(found)
    <3> DEFINE f == [id \in D |-> New(id)]
    <3>1. f \in Surjection(D, found)
      BY DEF Surjection
    <3> HIDE DEF f, found
    <3> QED
      BY <2>1, <3>1, FS_Surjection
  <2> QED
    BY <1>2, <2>2, FS_Union
<1>10. \A b \in found : b.at[2] = detections /\ b.at = <<clock, detections>>
  BY <1>4
<1>11. \A b, c \in found : KeyOf(b) = KeyOf(c) => b = c
  <2>1. ASSUME NEW i \in D, NEW j \in D, KeyOf(New(i)) = KeyOf(New(j)) PROVE New(i) = New(j)
    BY <1>4, <2>1 DEF KeyOf
  <2> QED
    BY <2>1
<1>12. \A b \in found : (\A c \in active : KeyOf(b) # KeyOf(c)) /\ (\A h \in history : KeyOf(b) # KeyOf(h))
  <2>1. ASSUME NEW b, NEW c, b.at[2] = detections, c.at[2] < detections PROVE KeyOf(b) # KeyOf(c)
    BY <1>2, <2>1 DEF KeyOf
  <2> QED
    BY <1>7, <1>8, <1>10, <2>1
<1>13. \A b \in found : ActiveOK(b, clock, detections + 1)
  BY <1>6
<1> HIDE DEF found
<1>14. OneOfEach'
  <2>1. \A b, c \in active \cup found : KeyOf(b) = KeyOf(c) => b = c
    <3>1. \A b, c \in active : KeyOf(b) = KeyOf(c) => b = c
      BY <1>2 DEF OneOfEach
    <3> QED
      BY <1>11, <1>12, <3>1
  <2>2. \A b \in active \cup found : \A h \in history : KeyOf(b) # KeyOf(h)
    BY <1>2, <1>12 DEF OneOfEach
  <2> QED
    BY <1>1, <1>2, <2>1, <2>2 DEF OneOfEach
<1>15. KeepsSnapshots'
  BY <1>1, <1>2 DEF KeepsSnapshots
<1>16. \A b \in active \cup found : ActiveOK(b, clock, detections + 1)
  BY <1>7, <1>13
<1> QED
  BY <1>1, <1>2, <1>8, <1>9, <1>14, <1>15, <1>16 DEF DetectorInv

\* Resolving a bottleneck moves it to the history, and old history goes.
LEMMA ResolveStep ==
  ASSUME MonitoringIsSane, DetectorInv, NEW b \in active, Detector!Resolve(b)
  PROVE  DetectorInv'
<1> DEFINE r == Detector!Resolved(b)
           kept == {h \in history \cup {r} : h.at[1] > clock - HistoryLife}
<1>1. /\ active' = active \ {b} /\ history' = kept
      /\ UNCHANGED <<clock, snapshots, detections>>
  BY DEF Detector!Resolve, Detector!dashVars, active, history, clock, snapshots, detections
<1>2. /\ clock \in Nat /\ detections \in Nat /\ KeepsSnapshots
      /\ IsFiniteSet(active) /\ IsFiniteSet(history) /\ OneOfEach
  BY DEF DetectorInv
<1>3. ActiveOK(b, clock, detections)
  BY DEF DetectorInv
<1>4. ResolvedOK(r, detections) /\ KeyOf(r) = KeyOf(b)
  <2>1. r.id = b.id /\ r.at = b.at /\ r.resolved = TRUE /\ r.resolvedAt = clock
    BY DEF Detector!Resolved, clock
  <2> HIDE DEF r
  <2> QED
    BY <1>2, <1>3, <2>1 DEF ActiveOK, ResolvedOK, KeyOf
<1> HIDE DEF r
<1>5. IsFiniteSet(kept)
  <2>1. IsFiniteSet(history \cup {r})
    BY <1>2, FS_AddElement
  <2> QED
    BY <2>1, FS_Subset
<1>6. \A h \in kept : ResolvedOK(h, detections) /\ (h \in history \/ h = r)
  BY <1>4 DEF DetectorInv
<1> HIDE DEF kept
<1>7. OneOfEach'
  <2>1. \A g, h \in kept : KeyOf(g) = KeyOf(h) => g = h
    BY <1>2, <1>4, <1>6 DEF OneOfEach
  <2>2. \A c \in active \ {b} : \A h \in kept : KeyOf(c) # KeyOf(h)
    BY <1>2, <1>4, <1>6 DEF OneOfEach
  <2>3. \A c, d \in active \ {b} : KeyOf(c) = KeyOf(d) => c = d
    BY <1>2 DEF OneOfEach
  <2> QED
    BY <1>1, <2>1, <2>2, <2>3 DEF OneOfEach
<1>8. IsFiniteSet(active \ {b}) /\ \A c \in active \ {b} : ActiveOK(c, clock, detections)
  BY <1>2, FS_Subset DEF DetectorInv
<1>9. KeepsSnapshots'
  BY <1>1, <1>2 DEF KeepsSnapshots
<1> QED
  BY <1>1, <1>2, <1>5, <1>6, <1>7, <1>8, <1>9 DEF DetectorInv

\* Every step of the detector keeps its invariant.
LEMMA DetectorStep ==
  ASSUME MonitoringIsSane, DetectorInv,
         [Detector!BottlenecksNext]_<<Detector!dashVars, Detector!bottleneckVars>>
  PROVE  DetectorInv'
<1>1. CASE Detector!Observes
  BY <1>1, ObservesStep
<1>2. CASE Detector!Detect
  BY <1>2, DetectStep
<1>3. ASSUME NEW k \in Detector!Known, Detector!Patch(k) PROVE DetectorInv'
  <2>1. PICK b \in active : Detector!Resolve(b)
    BY <1>3 DEF Detector!Patch, Detector!Named, active
  <2> QED
    BY <2>1, ResolveStep
<1>4. CASE UNCHANGED <<Detector!dashVars, Detector!bottleneckVars>>
  <2>1. UNCHANGED <<clock, snapshots, active, history, detections>>
    BY <1>4 DEF Detector!dashVars, Detector!bottleneckVars, clock, snapshots, active, history, detections
  <2>2. clock \in Nat /\ KeepsSnapshots'
    BY <2>1 DEF DetectorInv, KeepsSnapshots
  <2>3. clock' \in Nat /\ clock <= clock'
    BY <2>1, <2>2
  <2> QED
    BY <2>1, <2>2, <2>3, KnownStays
<1> QED
  BY <1>1, <1>2, <1>3, <1>4 DEF Detector!BottlenecksNext

\* The detector's types follow from its invariant.
LEMMA DetectorTypes ==
  ASSUME MonitoringIsSane, DetectorInv
  PROVE  Detector!BottlenecksTypeOK
<1>1. \A b \in active : b.id \in DOMAIN Detector!Patterns
                        /\ b.confidence \in Detector!Patterns[b.id].minimum..100
  BY PatternsAre DEF DetectorInv, ActiveOK, Firing, Ids
<1>2. \A h \in history : h.resolved /\ h.at[1] <= h.resolvedAt
  BY DEF DetectorInv, ResolvedOK
<1> QED
  BY <1>1, <1>2 DEF Detector!BottlenecksTypeOK, active, history

-----------------------------------------------------------------------------
\* Sums over sets that are split by what they are about.

Spent(S) == [h \in S |-> h.resolvedAt - h.at[1]]

\* Times that passed add up to a time.
LEMMA SumOfTimes ==
  ASSUME NEW S, IsFiniteSet(S), \A h \in S : h.resolvedAt - h.at[1] \in Nat
  PROVE  MapThenSumSet(LAMBDA h : h.resolvedAt - h.at[1], S) \in Nat
<1> DEFINE g == Spent(S)
           Def(f) == [s \in SUBSET S |-> IF s = {} THEN 0
                        ELSE ((CHOOSE x \in s : TRUE).resolvedAt - (CHOOSE x \in s : TRUE).at[1])
                               + f[s \ {CHOOSE x \in s : TRUE}]]
           iter == CHOOSE f : f = Def(f)
<1>1. g \in [S -> Nat]
  BY DEF Spent
<1>2. ASSUME NEW f PROVE Summing(f, g, S) <=> f = Def(f)
  <2>1. \A s \in SUBSET S : s # {} => Chosen(s) \in S
          /\ g[Chosen(s)] = (CHOOSE x \in s : TRUE).resolvedAt - (CHOOSE x \in s : TRUE).at[1]
    BY DEF Spent, Chosen
  <2> HIDE DEF g
  <2>2. \A s \in SUBSET S : (IF s = {} THEN 0 ELSE g[Chosen(s)] + f[s \ {Chosen(s)}]) = Def(f)[s]
    BY <2>1 DEF Chosen
  <2> QED
    BY <2>2 DEF Summing
<1> HIDE DEF g
<1>3. \E f : f = Def(f)
  <2>1. PICK f : Summing(f, g, S)
    BY <1>1, SumExists
  <2> HIDE DEF Def
  <2>2. f = Def(f)
    BY <1>2, <2>1
  <2> QED
    BY <2>2, Zenon
<1>4. iter = Def(iter)
  <2> HIDE DEF Def
  <2> QED
    BY <1>3, Zenon
<1>5. MapThenSumSet(LAMBDA h : h.resolvedAt - h.at[1], S) = iter[S]
  BY Zenon DEF MapThenSumSet, MapThenFoldSet
<1>6. Summing(iter, g, S)
  BY <1>2, <1>4
<1> HIDE DEF iter
<1>7. iter \in [SUBSET S -> Nat]
  BY <1>1, <1>6, SumIsNat
<1> QED
  BY <1>5, <1>7

Counts2(S, A, B) ==
  [id \in S |-> Cardinality({b \in A : b.id = id}) + Cardinality({h \in B : h.id = id})]

\* The members of a set whose id is among some, and those of one of them apart.
LEMMA CountOne ==
  ASSUME NEW A, IsFiniteSet(A), NEW T, NEW x \in T
  PROVE  /\ Cardinality({b \in A : b.id \in T}) \in Nat
         /\ Cardinality({b \in A : b.id = x}) \in Nat
         /\ Cardinality({b \in A : b.id \in T}) =
              Cardinality({b \in A : b.id = x}) + Cardinality({b \in A : b.id \in T \ {x}})
<1> DEFINE P == {b \in A : b.id = x}
           Q == {b \in A : b.id \in T \ {x}}
           R == {b \in A : b.id \in T}
<1>1. P \cup Q = R /\ P \cap Q = {}
  OBVIOUS
<1>2. IsFiniteSet(P) /\ IsFiniteSet(Q) /\ IsFiniteSet(R)
  BY FS_Subset
<1> HIDE DEF P, Q, R
<1>3. Cardinality(P) \in Nat /\ Cardinality(Q) \in Nat /\ Cardinality(R) \in Nat
  BY <1>2, FS_CardinalityType
<1>4. Cardinality(P \cup Q) = Cardinality(P) + Cardinality(Q) - Cardinality(P \cap Q)
  BY <1>2, FS_Union
<1>5. Cardinality(P \cap Q) = 0
  <2>1. Cardinality({}) = 0
    BY FS_EmptySet
  <2> QED
    BY <1>1, <2>1, Zenon
<1>6. Cardinality(R) = Cardinality(P) + Cardinality(Q)
  <2>1. Cardinality(R) = Cardinality(P) + Cardinality(Q) - Cardinality(P \cap Q)
    BY <1>1, <1>4, Zenon
  <2> DEFINE r == Cardinality(R)
             p == Cardinality(P)
             q == Cardinality(Q)
             i == Cardinality(P \cap Q)
  <2>2. r = p + q - i /\ i = 0 /\ p \in Nat /\ q \in Nat
    BY <2>1, <1>3, <1>5
  <2> HIDE DEF r, p, q, i
  <2>3. r = p + q
    BY <2>2
  <2> QED
    BY <2>3 DEF r, p, q
<1>7. Cardinality({b \in A : b.id \in T}) \in Nat
  BY <1>3 DEF R
<1>8. Cardinality({b \in A : b.id = x}) \in Nat
  BY <1>3 DEF P
<1>9. Cardinality({b \in A : b.id \in T}) =
        Cardinality({b \in A : b.id = x}) + Cardinality({b \in A : b.id \in T \ {x}})
  BY <1>6, Zenon DEF P, Q, R
<1> QED
  BY <1>7, <1>8, <1>9, Zenon

\* What is counted id by id adds up to what there is in both sets.
LEMMA SumOfCounts ==
  ASSUME NEW S, IsFiniteSet(S), NEW A, IsFiniteSet(A), NEW B, IsFiniteSet(B),
         NEW f, Summing(f, Counts2(S, A, B), S), NEW s \in SUBSET S
  PROVE  f[s] = Cardinality({b \in A : b.id \in s}) + Cardinality({h \in B : h.id \in s})
<1> DEFINE Both(t) == Cardinality({b \in A : b.id \in t}) + Cardinality({h \in B : h.id \in t})
           Wrong == {Cardinality(t) : t \in {u \in SUBSET S : f[u] # Both(u)}}
           g == Counts2(S, A, B)
<1>1. \A t \in SUBSET S : IsFiniteSet(t) /\ Cardinality(t) \in Nat
  BY FS_Subset, FS_CardinalityType
<1>2. \A t : \A x \in t : Both(t) = (Cardinality({b \in A : b.id = x}) + Cardinality({h \in B : h.id = x}))
                                      + Both(t \ {x})
  <2> SUFFICES ASSUME NEW t, NEW x \in t
               PROVE  Both(t) = (Cardinality({b \in A : b.id = x}) + Cardinality({h \in B : h.id = x}))
                                      + Both(t \ {x})
    OBVIOUS
  <2> DEFINE a1 == Cardinality({b \in A : b.id \in t})
             a2 == Cardinality({b \in A : b.id = x})
             a3 == Cardinality({b \in A : b.id \in t \ {x}})
             b1 == Cardinality({b \in B : b.id \in t})
             b2 == Cardinality({b \in B : b.id = x})
             b3 == Cardinality({b \in B : b.id \in t \ {x}})
  <2>1. a1 = a2 + a3
    BY CountOne
  <2>2. b1 = b2 + b3
    BY CountOne
  <2>3. IsFiniteSet({b \in A : b.id = x}) /\ IsFiniteSet({b \in A : b.id \in t \ {x}})
        /\ IsFiniteSet({b \in B : b.id = x}) /\ IsFiniteSet({b \in B : b.id \in t \ {x}})
    BY FS_Subset
  <2>4. a2 \in Nat /\ a3 \in Nat /\ b2 \in Nat /\ b3 \in Nat
    BY <2>3, FS_CardinalityType
  <2> HIDE DEF a1, a2, a3, b1, b2, b3
  <2>5. a1 + b1 = (a2 + b2) + (a3 + b3)
    BY <2>1, <2>2, <2>4
  <2> QED
    BY <2>5 DEF a1, a2, a3, b1, b2, b3
<1>3. g \in [S -> Nat]
  <2>1. ASSUME NEW id \in S
        PROVE  Cardinality({b \in A : b.id = id}) + Cardinality({h \in B : h.id = id}) \in Nat
    <3>1. IsFiniteSet({b \in A : b.id = id}) /\ IsFiniteSet({h \in B : h.id = id})
      BY FS_Subset
    <3>2. Cardinality({b \in A : b.id = id}) \in Nat /\ Cardinality({h \in B : h.id = id}) \in Nat
      BY <3>1, FS_CardinalityType
    <3> QED
      BY <3>2
  <2> QED
    BY <2>1 DEF Counts2
<1>4. f[{}] = Both({})
  <2>1. {b \in A : b.id \in {}} = {} /\ {b \in B : b.id \in {}} = {}
    OBVIOUS
  <2>2. Cardinality({}) = 0
    BY FS_EmptySet
  <2>3. f[{}] = 0
    BY SumEmpty
  <2> QED
    BY <2>1, <2>2, <2>3
<1>5. \A x \in S : g[x] = Cardinality({b \in A : b.id = x}) + Cardinality({h \in B : h.id = x})
  BY DEF Counts2
<1>6. Summing(f, g, S)
  OBVIOUS
<1> HIDE DEF Both, g
<1>7. Wrong = {}
  <2> SUFFICES ASSUME Wrong # {} PROVE FALSE
    OBVIOUS
  <2>1. Wrong \subseteq Nat
    BY <1>1
  <2>2. PICK n \in Wrong : \A m \in Wrong : n <= m
    <3> HIDE DEF Wrong
    <3> QED
      BY <2>1, LeastElement
  <2>3. PICK t \in SUBSET S : f[t] # Both(t) /\ Cardinality(t) = n
    OBVIOUS
  <2>4. PICK x \in t : TRUE
    BY <1>4, <2>3
  <2>5. f[t] = g[x] + f[t \ {x}]
    BY <1>3, <1>6, SumOne
  <2>6. Both(t) = g[x] + Both(t \ {x})
    BY <1>2, <1>5
  <2>7. /\ t \ {x} \in SUBSET S /\ Cardinality(t) \in Nat
        /\ Cardinality(t \ {x}) \in Nat /\ Cardinality(t) = Cardinality(t \ {x}) + 1
    BY OneLess
  <2>8. f[t \ {x}] # Both(t \ {x})
    BY <2>3, <2>5, <2>6
  <2>9. Cardinality(t \ {x}) \in Wrong
    BY <2>7, <2>8
  <2> HIDE DEF Wrong
  <2> QED
    BY <2>2, <2>3, <2>7, <2>9
<1>8. f[s] = Both(s)
  BY <1>7
<1> QED
  BY <1>8 DEF Both

\* There are as many keys as bottlenecks.
LEMMA KeysCount ==
  ASSUME NEW A, IsFiniteSet(A), \A b, c \in A : KeyOf(b) = KeyOf(c) => b = c
  PROVE  IsFiniteSet({KeyOf(b) : b \in A}) /\ Cardinality({KeyOf(b) : b \in A}) = Cardinality(A)
<1> DEFINE K == {KeyOf(b) : b \in A}
           f == [b \in A |-> KeyOf(b)]
<1>1. f \in Bijection(A, K)
  BY DEF Bijection, Injection, IsInjective, Surjection
<1>2. ExistsBijection(A, K)
  BY <1>1 DEF ExistsBijection
<1> HIDE DEF K
<1>3. IsFiniteSet(K) /\ Cardinality(K) = Cardinality(A)
  BY <1>2, FS_Bijection
<1> QED
  BY <1>3 DEF K

\* A function's values add up to its sum.
LEMMA SumOfValues ==
  ASSUME NEW S, IsFiniteSet(S), NEW g \in [S -> Nat]
  PROVE  \E f : Summing(f, g, S) /\ f[S] = MapThenSumSet(LAMBDA x : g[x], S)
<1> DEFINE Def(f) == [s \in SUBSET S |-> IF s = {} THEN 0
                        ELSE g[CHOOSE x \in s : TRUE] + f[s \ {CHOOSE x \in s : TRUE}]]
           iter == CHOOSE f : f = Def(f)
<1>1. \A f : Summing(f, g, S) <=> f = Def(f)
  BY DEF Summing, Chosen
<1> HIDE DEF Def
<1>2. \E f : f = Def(f)
  <2>1. PICK f : Summing(f, g, S)
    BY SumExists
  <2>2. f = Def(f)
    BY <1>1, <2>1
  <2> QED
    BY <2>2, Zenon
<1>3. iter = Def(iter)
  BY <1>2, Zenon
<1>4. MapThenSumSet(LAMBDA x : g[x], S) = iter[S]
  BY Zenon DEF MapThenSumSet, MapThenFoldSet, Def
<1>5. Summing(iter, g, S)
  BY <1>1, <1>3
<1> QED
  BY <1>4, <1>5

\* The counts of the types add up to the bottlenecks there are, active or resolved.
LEMMA TopTypesAddUp ==
  ASSUME MonitoringIsSane, DetectorInv
  PROVE  Detector!MapThenSumSet(LAMBDA id : Detector!Analysis.topBottleneckTypes[id],
                                DOMAIN Detector!Patterns) = Cardinality(Detector!Known)
<1> DEFINE g == Counts2(Ids, active, history)
           top == Detector!Analysis.topBottleneckTypes
           KA == {KeyOf(b) : b \in active}
           KH == {KeyOf(h) : h \in history}
<1>1. IsFiniteSet(active) /\ IsFiniteSet(history) /\ OneOfEach
      /\ (\A b \in active : b.id \in Ids) /\ (\A h \in history : h.id \in Ids)
  BY DEF DetectorInv, ActiveOK, ResolvedOK, Firing, Ids
<1>2. top = g
  BY PatternsAre, DetectorOperators DEF Detector!Analysis, Counts2, active, history
<1>3. IsFiniteSet(Ids)
  <2> DEFINE s == <<"memory", "thrashing", "limits", "pool", "compression", "batches", "failover",
                    "throughput", "slow">>
  <2>1. s \in Surjection(1..9, Ids)
    BY DEF Surjection, Ids
  <2>2. IsFiniteSet(1..9)
    <3> DEFINE one == 1
               nine == 9
    <3>1. one \in Int /\ nine \in Int
      OBVIOUS
    <3> HIDE DEF one, nine
    <3>2. IsFiniteSet(one..nine)
      BY <3>1, FS_Interval
    <3> QED
      BY <3>2 DEF one, nine
  <2> HIDE DEF s
  <2> QED
    BY <2>1, <2>2, FS_Surjection
<1>4. g \in [Ids -> Nat]
  <2>1. ASSUME NEW id \in Ids
        PROVE  Cardinality({b \in active : b.id = id}) + Cardinality({h \in history : h.id = id}) \in Nat
    <3>1. IsFiniteSet({b \in active : b.id = id}) /\ IsFiniteSet({h \in history : h.id = id})
      BY <1>1, FS_Subset
    <3>2. Cardinality({b \in active : b.id = id}) \in Nat /\ Cardinality({h \in history : h.id = id}) \in Nat
      BY <3>1, FS_CardinalityType
    <3> QED
      BY <3>2
  <2> QED
    BY <2>1 DEF Counts2
<1>5. Detector!MapThenSumSet(LAMBDA id : top[id], DOMAIN Detector!Patterns)
        = MapThenSumSet(LAMBDA id : top[id], Ids)
  <2> HIDE DEF top
  <2>1. DOMAIN Detector!Patterns = Ids
    BY PatternsAre
  <2>2. Detector!MapThenSumSet(LAMBDA id : top[id], Ids) = MapThenSumSet(LAMBDA id : top[id], Ids)
    BY Zenon DEF Detector!MapThenSumSet, MapThenSumSet, Detector!MapThenFoldSet, MapThenFoldSet
  <2> QED
    BY <2>1, <2>2, Zenon
<1> HIDE DEF g
<1>6. PICK f : Summing(f, g, Ids) /\ f[Ids] = MapThenSumSet(LAMBDA id : g[id], Ids)
  BY <1>3, <1>4, SumOfValues
<1>7. f[Ids] = Cardinality({b \in active : b.id \in Ids}) + Cardinality({h \in history : h.id \in Ids})
  BY <1>1, <1>3, <1>6, SumOfCounts DEF g
<1>8. {b \in active : b.id \in Ids} = active /\ {h \in history : h.id \in Ids} = history
  BY <1>1
<1>9. IsFiniteSet(KA) /\ Cardinality(KA) = Cardinality(active)
  BY <1>1, KeysCount DEF OneOfEach
<1>10. IsFiniteSet(KH) /\ Cardinality(KH) = Cardinality(history)
  BY <1>1, KeysCount DEF OneOfEach
<1>11. KA \cap KH = {} /\ Detector!Known = KA \cup KH
  BY <1>1 DEF OneOfEach, Detector!Known, Detector!Key, KeyOf, active, history
<1> HIDE DEF KA, KH
<1>12. Cardinality(Detector!Known) = Cardinality(active) + Cardinality(history)
  <2>1. Cardinality(KA \cup KH) = Cardinality(KA) + Cardinality(KH) - Cardinality(KA \cap KH)
    BY <1>9, <1>10, FS_Union
  <2>2. Cardinality({}) = 0
    BY FS_EmptySet
  <2>3. Cardinality(KA \cap KH) = 0
    BY <1>11, <2>2, Zenon
  <2>4. Cardinality(active) \in Nat /\ Cardinality(history) \in Nat
    BY <1>1, FS_CardinalityType
  <2> DEFINE a == Cardinality(active)
             h == Cardinality(history)
             i == Cardinality(KA \cap KH)
             k == Cardinality(KA \cup KH)
  <2>5. k = a + h - i /\ i = 0 /\ a \in Nat /\ h \in Nat
    BY <1>9, <1>10, <2>1, <2>3, <2>4
  <2> HIDE DEF a, h, i, k
  <2>6. k = a + h
    BY <2>5
  <2> QED
    BY <1>11, <2>6, Zenon DEF a, h, k
<1>13. MapThenSumSet(LAMBDA id : top[id], Ids) = MapThenSumSet(LAMBDA id : g[id], Ids)
  <2> HIDE DEF top
  <2> QED
    BY <1>2, Zenon DEF MapThenSumSet, MapThenFoldSet
<1>14. f[Ids] = Cardinality(active) + Cardinality(history)
  BY <1>7, <1>8, Zenon
<1> QED
  BY <1>5, <1>6, <1>12, <1>13, <1>14, Zenon

\* Every bottleneck is counted once, and was found before it was resolved.
LEMMA AllCountedOnce ==
  ASSUME MonitoringIsSane, DetectorInv
  PROVE  Detector!CountedOnce
<1> DEFINE gone == {h \in history : h.resolvedAt = Nil}
           done == history \ gone
           sum == Detector!MapThenSumSet(LAMBDA h : h.resolvedAt - h.at[1], done)
           n == Cardinality(done)
<1>1. Detector!Analysis.averageResolutionTime = Detector!Ratio(sum, n)
  BY DetectorOperators DEF Detector!Analysis, history
<1>2. IsFiniteSet(done) /\ n \in Nat
  <2>1. IsFiniteSet(history)
    BY DEF DetectorInv
  <2>2. IsFiniteSet(done)
    BY <2>1, FS_Subset
  <2> QED
    BY <2>2, FS_CardinalityType
<1>3. sum \in Nat
  <2>1. \A h \in done : h.resolvedAt - h.at[1] \in Nat
    <3> SUFFICES ASSUME NEW h \in history PROVE h.resolvedAt - h.at[1] \in Nat
      OBVIOUS
    <3>1. h.resolvedAt \in Nat /\ h.at[1] \in Nat /\ h.at[1] <= h.resolvedAt
      BY DEF DetectorInv, ResolvedOK
    <3> QED
      BY <3>1
  <2> HIDE DEF done
  <2>2. MapThenSumSet(LAMBDA h : h.resolvedAt - h.at[1], done) \in Nat
    BY <1>2, <2>1, SumOfTimes
  <2>3. sum = MapThenSumSet(LAMBDA h : h.resolvedAt - h.at[1], done)
    BY Zenon DEF Detector!MapThenSumSet, MapThenSumSet, Detector!MapThenFoldSet, MapThenFoldSet
  <2> QED
    BY <2>2, <2>3
<1> HIDE DEF sum, n, gone, done
<1>4. ~ Detector!Below(Detector!Ratio(sum, n), 0)
  BY <1>2, <1>3 DEF Detector!Below, Detector!Ratio
<1>5. Detector!MapThenSumSet(LAMBDA id : Detector!Analysis.topBottleneckTypes[id],
                             DOMAIN Detector!Patterns) = Detector!Cardinality(Detector!Known)
  BY TopTypesAddUp, DetectorOperators
<1> QED
  BY <1>1, <1>4, <1>5 DEF Detector!CountedOnce

\* For any kinds and sizes of bursts of requests, any thresholds and lengths of time, the
\* analysis of lib/monitoring/bottleneck-detector.ts counts every bottleneck once, under
\* its own key, while it is active and after it was resolved.
THEOREM CountedOnceAlways ==
  ASSUME MonitoringIsSane
  PROVE  Detector!BottlenecksSpec => []Detector!CountedOnce
<1>1. Detector!BottlenecksInit => DetectorInv
  BY DetectorInit
<1>2. DetectorInv /\ [Detector!BottlenecksNext]_<<Detector!dashVars, Detector!bottleneckVars>> => DetectorInv'
  BY DetectorStep
<1>3. DetectorInv => Detector!CountedOnce
  BY AllCountedOnce
<1> QED
  BY <1>1, <1>2, <1>3, PTL DEF Detector!BottlenecksSpec

raisedAlerts == v3

\* What endpoint an alert is about, and the alerts raised up to a time.
Endpoints == {k.endpoint : k \in RequestKinds} \cup {Nil}
AlertsUpTo(now) ==
  [type : {"response", "errors", "hits", "compression"},
   severity : {"critical", "warning", "info"}, endpoint : Endpoints,
   at : 0..now, resolved : BOOLEAN]

Stands(a, now) == ~ a.resolved /\ now - a.at < AlertLife
AlikeAlerts(a, b) == a.type = b.type /\ a.endpoint = b.endpoint

\* No two that stand are alike.
NoneTwice(as, now) ==
  \A i, j \in DOMAIN as :
    i # j /\ Stands(as[i], now) /\ Stands(as[j], now) => ~ AlikeAlerts(as[i], as[j])

AlertLists(now) ==
  {list \in Seq(AlertsUpTo(now)) : Len(list) <= AlertsKept /\ NoneTwice(list, now)}

AlertsAreKept == AlertsKept \in Nat /\ AlertLife \in Int

\* What is raised now.
RaisedAt(now) == {a \in AlertsUpTo(now) : a.at = now /\ a.resolved = FALSE}

\* A member at the end of a sequence, and the first one gone.
LEMMA AppendedAre ==
  ASSUME NEW E, NEW s \in Seq(E), NEW e \in E
  PROVE  /\ Len(s) \in Nat /\ DOMAIN s = 1..Len(s)
         /\ Append(s, e) \in Seq(E) /\ Len(Append(s, e)) = Len(s) + 1
         /\ DOMAIN Append(s, e) = 1..(Len(s) + 1)
         /\ Append(s, e)[Len(s) + 1] = e /\ \A i \in 1..Len(s) : Append(s, e)[i] = s[i]
OBVIOUS

\* The last of an appended sequence.
LEMMA LastOfAppended ==
  ASSUME NEW E, NEW s \in Seq(E), NEW e \in E
  PROVE  Append(s, e)[Len(s) + 1] = e
BY AppendedAre

\* A sequence without its first.
LEMMA TailIs ==
  ASSUME NEW E, NEW t \in Seq(E), NEW n \in Nat, Len(t) = n + 1
  PROVE  /\ Tail(t) \in Seq(E) /\ Len(Tail(t)) = n /\ DOMAIN Tail(t) = 1..n
         /\ \A i \in 1..n : Tail(t)[i] = t[i + 1]
<1>1. t # <<>>
  OBVIOUS
<1>2. Tail(t) \in Seq(E) /\ Len(Tail(t)) = n
  BY <1>1
<1>3. DOMAIN Tail(t) = 1..n
  BY <1>2
<1>4. \A i \in 1..n : Tail(t)[i] = t[i + 1]
  BY <1>1
<1> QED
  BY <1>2, <1>3, <1>4

\* An alert like none that stands is added, and the oldest goes when there are too many.
LEMMA AlertAdded ==
  ASSUME AlertsAreKept, NEW now \in Nat, NEW as \in AlertLists(now), NEW a \in RaisedAt(now),
         \A i \in DOMAIN as : ~ (AlikeAlerts(as[i], a) /\ Stands(as[i], now))
  PROVE  Shifted(Append(as, a), AlertsKept) \in AlertLists(now)
<1> DEFINE E == AlertsUpTo(now)
           n == Len(as)
           t == Append(as, a)
           u == Tail(t)
<1>1. as \in Seq(E) /\ n <= AlertsKept /\ NoneTwice(as, now)
  BY DEF AlertLists
<1>2. a \in E
  BY DEF RaisedAt
<1> HIDE DEF E
<1>a. as \in Seq(E) /\ a \in E
  BY <1>1, <1>2
<1>b. Len(as) \in Nat /\ DOMAIN as = 1..Len(as)
  BY <1>a, AppendedAre
<1>c. ASSUME NEW i \in 1..Len(as) PROVE Append(as, a)[i] = as[i]
  BY <1>a, <1>c, AppendedAre
<1>d. /\ t \in Seq(E) /\ Len(t) = Len(as) + 1 /\ DOMAIN t = 1..(Len(as) + 1)
      /\ t[Len(as) + 1] = a
  <2>1. t \in Seq(E)
    BY <1>a, AppendedAre
  <2>2. Len(t) = Len(as) + 1
    BY <1>a, AppendedAre
  <2>3. DOMAIN t = 1..(Len(as) + 1)
    BY <1>a, AppendedAre
  <2>4. t[Len(as) + 1] = a
    BY <1>a, LastOfAppended
  <2> QED
    BY <2>1, <2>2, <2>3, <2>4
<1> HIDE DEF t, u
<1>e. /\ n \in Nat /\ t \in Seq(E) /\ Len(t) = n + 1 /\ DOMAIN t = 1..(n + 1)
      /\ DOMAIN as = 1..n /\ t[n + 1] = a /\ \A i \in 1..n : t[i] = as[i]
  BY <1>b, <1>c, <1>d DEF t
<1> HIDE DEF n
<1>4. /\ u \in Seq(E) /\ Len(u) = n /\ DOMAIN u = 1..n
      /\ \A i \in 1..n : u[i] = t[i + 1]
  BY <1>e, TailIs DEF u
<1>f. n \in Nat /\ n + 1 \in Nat
  BY <1>e
<1>3. NoneTwice(t, now)
  <2> SUFFICES ASSUME NEW i \in 1..(n + 1), NEW j \in 1..(n + 1), i # j,
                      Stands(t[i], now), Stands(t[j], now), AlikeAlerts(t[i], t[j])
               PROVE  FALSE
    BY <1>e DEF NoneTwice
  <2>1. CASE i \in 1..n /\ j \in 1..n
    BY <1>1, <1>e, <2>1 DEF NoneTwice
  <2>2. CASE i = n + 1
    <3>1. j \in 1..n
      BY <1>f, <2>2
    <3> QED
      BY <1>e, <2>2, <3>1 DEF AlikeAlerts
  <2>3. CASE j = n + 1
    <3>1. i \in 1..n
      BY <1>f, <2>3
    <3> QED
      BY <1>e, <2>3, <3>1 DEF AlikeAlerts
  <2> QED
    BY <1>f, <2>1, <2>2, <2>3
<1>5. NoneTwice(u, now)
  <2> SUFFICES ASSUME NEW i \in 1..n, NEW j \in 1..n, i # j
               PROVE  Stands(u[i], now) /\ Stands(u[j], now) => ~ AlikeAlerts(u[i], u[j])
    BY <1>4 DEF NoneTwice
  <2>1. i + 1 \in 1..(n + 1) /\ j + 1 \in 1..(n + 1) /\ i + 1 # j + 1
    BY <1>f
  <2> QED
    BY <1>e, <1>3, <1>4, <2>1 DEF NoneTwice
<1>6. CASE n + 1 > AlertsKept
  <2>1. Shifted(t, AlertsKept) = u
    BY <1>e, <1>6 DEF Shifted, u
  <2> QED
    BY <1>1, <1>4, <1>5, <2>1 DEF AlertLists, E, t
<1>7. CASE ~ (n + 1 > AlertsKept)
  <2>1. Shifted(t, AlertsKept) = t /\ n + 1 <= AlertsKept
    BY <1>f, <1>e, <1>7 DEF Shifted, AlertsAreKept
  <2> QED
    BY <1>e, <1>3, <2>1 DEF AlertLists, E, t
<1> QED
  BY <1>6, <1>7

\* An alert that stands is given the time, or one is resolved: none stands that did not.
LEMMA AlertChanged ==
  ASSUME AlertsAreKept, NEW now \in Nat, NEW as \in AlertLists(now), NEW b \in Seq(AlertsUpTo(now)),
         Len(b) = Len(as),
         \A i \in DOMAIN as : AlikeAlerts(b[i], as[i]) /\ b[i].endpoint = as[i].endpoint
                                 /\ (Stands(b[i], now) => Stands(as[i], now))
  PROVE  b \in AlertLists(now)
<1>1. as \in Seq(AlertsUpTo(now)) /\ Len(as) <= AlertsKept /\ NoneTwice(as, now)
  BY DEF AlertLists
<1>2. DOMAIN b = DOMAIN as
  BY <1>1
<1>3. NoneTwice(b, now)
  BY <1>1, <1>2 DEF NoneTwice, AlikeAlerts
<1> QED
  BY <1>1, <1>3 DEF AlertLists

\* An alert given another time, or resolved, is an alert.
LEMMA AlertRenewed ==
  ASSUME NEW now, NEW r \in AlertsUpTo(now), NEW at \in 0..now
  PROVE  /\ [r EXCEPT !.at = at] \in AlertsUpTo(now)
         /\ [r EXCEPT !.at = at].type = r.type /\ [r EXCEPT !.at = at].endpoint = r.endpoint
BY DEF AlertsUpTo

\* A resolved alert is about the same.
LEMMA AlertResolved ==
  ASSUME NEW now, NEW r \in AlertsUpTo(now)
  PROVE  /\ [r EXCEPT !.resolved = TRUE] \in AlertsUpTo(now)
         /\ [r EXCEPT !.resolved = TRUE].type = r.type
         /\ [r EXCEPT !.resolved = TRUE].endpoint = r.endpoint
         /\ [r EXCEPT !.resolved = TRUE].resolved = TRUE
BY DEF AlertsUpTo

\* The members and the places of a sequence.
LEMMA PlacesOf ==
  ASSUME NEW E, NEW s \in Seq(E)
  PROVE  /\ Len(s) \in Nat /\ DOMAIN s = 1..Len(s) /\ DOMAIN s \subseteq Nat
         /\ \A i \in DOMAIN s : s[i] \in E
OBVIOUS

\* A member of a sequence is replaced.
LEMMA ReplacedIn ==
  ASSUME NEW E, NEW s \in Seq(E), NEW i \in DOMAIN s, NEW e \in E
  PROVE  [s EXCEPT ![i] = e] \in Seq(E)
OBVIOUS

\* Sequences of the same places are as long.
LEMMA SameLen ==
  ASSUME NEW E, NEW s \in Seq(E), NEW t \in Seq(E), DOMAIN s = DOMAIN t
  PROVE  Len(s) = Len(t)
OBVIOUS

\* createAlert keeps the alerts distinct: what stands is renewed, and else one is added.
LEMMA CreatedKeeps ==
  ASSUME AlertsAreKept, clock \in Nat, NEW as \in AlertLists(clock), NEW a \in RaisedAt(clock)
  PROVE  Dashboard!Created(as, a) \in AlertLists(clock)
<1> DEFINE now == clock
           standing == {i \in DOMAIN as : AlikeAlerts(as[i], a) /\ Stands(as[i], now)}
           first == CHOOSE i \in standing : \A j \in standing : i <= j
           renewed == [as[first] EXCEPT !.at = now]
           b == [as EXCEPT ![first] = renewed]
           E == AlertsUpTo(now)
<1>1. standing = {i \in DOMAIN as : Dashboard!Same(as[i], a) /\ Dashboard!Active(as[i])}
  BY DEF Dashboard!Same, Dashboard!Active, AlikeAlerts, Stands, clock
<1>2. Dashboard!Created(as, a) = IF standing = {} THEN Shifted(Append(as, a), AlertsKept) ELSE b
  <2>1. Dashboard!Created(as, a) =
          IF standing = {} THEN Shifted(Append(as, a), AlertsKept) ELSE [as EXCEPT ![first].at = now]
    <3> DEFINE raw == {i \in DOMAIN as : Dashboard!Same(as[i], a) /\ Dashboard!Active(as[i])}
               FirstOf(S) == CHOOSE i \in S : \A j \in S : i <= j
    <3>1. Dashboard!Created(as, a) =
            IF raw = {} THEN Shifted(Append(as, a), AlertsKept)
            ELSE [as EXCEPT ![FirstOf(raw)].at = now]
      BY DEF Dashboard!Created, Dashboard!Kept, Shifted, clock
    <3>2. first = FirstOf(standing) /\ raw = standing
      BY <1>1
    <3> HIDE DEF raw, standing, FirstOf, first
    <3> QED
      BY <3>1, <3>2
  <2>2. [as EXCEPT ![first].at = now] = b
    <3> HIDE DEF first, now
    <3> QED
      OBVIOUS
  <2> QED
    BY <2>1, <2>2
<1>3. as \in Seq(E) /\ now \in Nat
  BY DEF AlertLists
<1>a. DOMAIN as \subseteq Nat /\ \A i \in DOMAIN as : as[i] \in E
  <2> HIDE DEF E
  <2> QED
    BY <1>3, PlacesOf
<1>4. CASE standing = {}
  <2>1. \A i \in DOMAIN as : ~ (AlikeAlerts(as[i], a) /\ Stands(as[i], now))
    BY <1>4
  <2> HIDE DEF standing
  <2> QED
    BY <1>2, <1>3, <1>4, <2>1, AlertAdded
<1>5. CASE standing # {}
  <2>1. standing \subseteq Nat /\ standing \subseteq DOMAIN as
    BY <1>a
  <2>2. \E i \in standing : \A j \in standing : i <= j
    <3> HIDE DEF standing
    <3> QED
      BY <1>5, <2>1, LeastElement
  <2>3. first \in standing
    <3> HIDE DEF standing
    <3> QED
      BY <2>2
  <2>4. first \in DOMAIN as /\ AlikeAlerts(as[first], a) /\ Stands(as[first], now)
    BY <2>3
  <2> HIDE DEF first, standing
  <2>5. as[first] \in AlertsUpTo(now)
    BY <1>a, <2>4
  <2>6. /\ renewed \in AlertsUpTo(now)
        /\ renewed.type = as[first].type /\ renewed.endpoint = as[first].endpoint
    <3> DEFINE one == as[first]
    <3>1. now \in 0..now
      BY <1>3
    <3>2. one \in AlertsUpTo(now)
      BY <2>5
    <3> HIDE DEF one, now
    <3>3. /\ [one EXCEPT !.at = now] \in AlertsUpTo(now)
          /\ [one EXCEPT !.at = now].type = one.type
          /\ [one EXCEPT !.at = now].endpoint = one.endpoint
      BY <3>1, <3>2, AlertRenewed
    <3> QED
      BY <3>3 DEF one
  <2> HIDE DEF renewed, now
  <2> HIDE DEF E
  <2>7. /\ b \in Seq(E) /\ Len(b) = Len(as) /\ b[first] = renewed
        /\ \A j \in DOMAIN as : j # first => b[j] = as[j]
    <3>1. renewed \in E
      BY <2>6 DEF E
    <3>2. as \in Seq(E) /\ first \in DOMAIN as
      BY <1>3, <2>4
    <3>3. b \in Seq(E)
      BY <3>1, <3>2, ReplacedIn
    <3>6. Len(b) = Len(as)
      <4>1. DOMAIN b = DOMAIN as
        OBVIOUS
      <4> HIDE DEF b
      <4> QED
        BY <3>2, <3>3, <4>1, SameLen
    <3>4. b[first] = renewed
      BY <3>2
    <3>5. \A j \in DOMAIN as : j # first => b[j] = as[j]
      OBVIOUS
    <3> QED
      BY <3>3, <3>4, <3>5, <3>6
  <2> HIDE DEF b
  <2>8. \A i \in DOMAIN as : AlikeAlerts(b[i], as[i]) /\ b[i].endpoint = as[i].endpoint
                               /\ (Stands(b[i], now) => Stands(as[i], now))
    BY <2>4, <2>6, <2>7 DEF AlikeAlerts
  <2>9. b \in AlertLists(now)
    BY <1>3, <2>7, <2>8, AlertChanged DEF now, E
  <2> QED
    BY <1>2, <1>5, <2>9 DEF now
<1> QED
  BY <1>4, <1>5

\* A set of places has a last one.
LEMMA LastElement ==
  ASSUME NEW n \in Nat, NEW s \in SUBSET (1..n), s # {}
  PROVE  Dashboard!Max(s) \in s
<1> DEFINE T == {n - x : x \in s}
<1>1. T \subseteq Nat /\ T # {}
  <2>1. \A x \in s : n - x \in Nat
    OBVIOUS
  <2> QED
    BY <2>1
<1>2. PICK y \in T : \A z \in T : y <= z
  <2> HIDE DEF T
  <2> QED
    BY <1>1, LeastElement
<1>3. PICK x \in s : y = n - x
  BY <1>2
<1>4. \A z \in s : n - z \in T
  OBVIOUS
<1> HIDE DEF T
<1>5. \A z \in s : x >= z
  BY <1>2, <1>3, <1>4
<1>6. \E x1_ \in s : \A z \in s : x1_ >= z
  BY <1>5
<1> QED
  BY <1>6 DEF Dashboard!Max

\* What a fold takes stays where its steps keep it.
Inherits(f, S, V, choice) ==
  \A s \in SUBSET S : s # {} /\ f[s \ {choice[s]}] \in V => f[s] \in V

\* A fold stays among the values that its step inherits from one fold to the next.
LEMMA FoldStays ==
  ASSUME NEW S, IsFiniteSet(S), NEW V, NEW choice, Chooses(choice, S),
         NEW f, f[{}] \in V, Inherits(f, S, V, choice)
  PROVE  \A s \in SUBSET S : f[s] \in V
<1> DEFINE Wrong == {Cardinality(s) : s \in {t \in SUBSET S : f[t] \notin V}}
<1>1. \A s \in SUBSET S : IsFiniteSet(s) /\ Cardinality(s) \in Nat
  BY FS_Subset, FS_CardinalityType
<1>2. Wrong = {}
  <2> SUFFICES ASSUME Wrong # {} PROVE FALSE
    OBVIOUS
  <2>1. Wrong \subseteq Nat
    BY <1>1
  <2>2. PICK n \in Wrong : \A m \in Wrong : n <= m
    <3> HIDE DEF Wrong
    <3> QED
      BY <2>1, LeastElement
  <2>3. PICK s \in SUBSET S : f[s] \notin V /\ Cardinality(s) = n
    OBVIOUS
  <2>4. s # {}
    BY <2>3
  <2> DEFINE x == choice[s]
  <2>5. x \in s
    BY <2>4 DEF Chooses
  <2>6. f[s \ {x}] \notin V
    BY <2>3, <2>4 DEF Inherits
  <2> HIDE DEF x
  <2>7. /\ s \ {x} \in SUBSET S /\ Cardinality(s) \in Nat /\ Cardinality(s \ {x}) \in Nat
        /\ Cardinality(s) = Cardinality(s \ {x}) + 1
    BY <2>5, OneLess
  <2>8. Cardinality(s \ {x}) \in Wrong
    BY <2>6, <2>7
  <2> DEFINE m == Cardinality(s \ {x})
  <2>9. m \in Nat /\ n = m + 1
    BY <2>3, <2>7
  <2>10. m \in Wrong
    BY <2>8
  <2> HIDE DEF Wrong, m
  <2>11. n <= m
    BY <2>2, <2>10
  <2> QED
    BY <2>9, <2>11
<1> QED
  BY <1>2

\* The alerts as after createAlert for each of the raised ones.
CreatedOf(as, raised) == Dashboard!FoldLeft(Dashboard!Created, as, raised)

\* createAlert for each of the alerts raised.
LEMMA CreatedAll ==
  ASSUME AlertsAreKept, clock \in Nat, NEW as \in AlertLists(clock),
         NEW raised \in Seq(RaisedAt(clock))
  PROVE  CreatedOf(as, raised) \in AlertLists(clock)
<1> DEFINE D == DOMAIN raised
           V == AlertLists(clock)
           choice == [s \in SUBSET D |-> Dashboard!Max(s)]
           step == [iv \in D \X V |-> Dashboard!Created(iv[2], raised[iv[1]])]
           Def(f) == [s \in SUBSET D |-> IF s = {} THEN as
                        ELSE Dashboard!Created(f[s \ {Dashboard!Max(s)}], raised[Dashboard!Max(s)])]
           iter == CHOOSE f : f = Def(f)
<1>1. D = 1..Len(raised) /\ Len(raised) \in Nat /\ \A i \in D : raised[i] \in RaisedAt(clock)
  OBVIOUS
<1>2. IsFiniteSet(D)
  <2> HIDE DEF D
  <2> QED
    BY <1>1, FS_Interval
<1>3. \A s \in SUBSET D : s # {} => Dashboard!Max(s) \in s
  BY <1>1, LastElement
<1>4. \A i \in D : \A v \in V : step[<<i, v>>] = Dashboard!Created(v, raised[i])
  <2> HIDE DEF D, V
  <2> QED
    OBVIOUS
<1>5. \A s \in SUBSET D : choice[s] = Dashboard!Max(s)
  <2> HIDE DEF D
  <2> QED
    OBVIOUS
<1>6. \A i \in D : \A v \in V : Dashboard!Created(v, raised[i]) \in V
  BY <1>1, CreatedKeeps
<1> HIDE DEF D, V, step, choice
<1>7. Chooses(choice, D) /\ StaysIn(step, D, V)
  BY <1>3, <1>4, <1>5, <1>6 DEF Chooses, StaysIn
<1>8. as \in V
  BY DEF V
<1>9. PICK f \in [SUBSET D -> V] : Folding(f, D, as, choice, step)
  <2>1. HasFold(D, V, as, choice, step)
    BY <1>2, <1>7, <1>8, FoldExists
  <2> QED
    BY <2>1 DEF HasFold
<1>10. ASSUME NEW g, \A s \in SUBSET D : g[s] \in V
       PROVE  \A s \in SUBSET D :
                (IF s = {} THEN as ELSE step[<<choice[s], g[s \ {choice[s]}]>>])
                = (IF s = {} THEN as
                   ELSE Dashboard!Created(g[s \ {Dashboard!Max(s)}], raised[Dashboard!Max(s)]))
  <2> SUFFICES ASSUME NEW s \in SUBSET D, s # {}
               PROVE  step[<<choice[s], g[s \ {choice[s]}]>>]
                      = Dashboard!Created(g[s \ {Dashboard!Max(s)}], raised[Dashboard!Max(s)])
    OBVIOUS
  <2> DEFINE m == Dashboard!Max(s)
  <2>1. m \in s /\ m \in D /\ choice[s] = m
    BY <1>3, <1>5
  <2> HIDE DEF m
  <2>2. g[s \ {m}] \in V
    BY <1>10
  <2>3. step[<<m, g[s \ {m}]>>] = Dashboard!Created(g[s \ {m}], raised[m])
    BY <1>4, <2>1, <2>2
  <2> QED
    BY <2>1, <2>3 DEF m
<1>11. f = Def(f)
  <2>1. f = [s \in SUBSET D |-> IF s = {} THEN as ELSE step[<<choice[s], f[s \ {choice[s]}]>>]]
    BY <1>9 DEF Folding
  <2>2. \A s \in SUBSET D : f[s] \in V
    BY <1>9
  <2> QED
    BY <1>10, <2>1, <2>2
<1>12. iter = Def(iter)
  <2> HIDE DEF Def
  <2> QED
    BY <1>11, Zenon
<1>14. iter[D] \in V
  <2> HIDE DEF iter
  <2>1. iter[{}] = as
    <3>1. {} \in SUBSET D
      OBVIOUS
    <3> QED
      BY <1>12, <3>1
  <2>2. Inherits(iter, D, V, choice)
    <3> SUFFICES ASSUME NEW s \in SUBSET D, s # {}, iter[s \ {choice[s]}] \in V
                 PROVE  iter[s] \in V
      BY DEF Inherits
    <3> DEFINE m == Dashboard!Max(s)
    <3>1. m \in D /\ choice[s] = m
      BY <1>3, <1>5
    <3>2. iter[s] = Dashboard!Created(iter[s \ {m}], raised[m])
      BY <1>12
    <3> HIDE DEF m
    <3> QED
      BY <1>6, <3>1, <3>2
  <2>3. \A s \in SUBSET D : iter[s] \in V
    BY <1>2, <1>7, <1>8, <2>1, <2>2, FoldStays
  <2> QED
    BY <2>3
<1>13. CreatedOf(as, raised) = iter[D]
  BY Zenon DEF CreatedOf, Dashboard!FoldLeft, Dashboard!MapThenFoldSet, D
<1> QED
  BY <1>13, <1>14 DEF V

DashboardInv ==
  /\ clock \in Nat
  /\ KeepsSnapshots /\ \A e \in Elements(snapshots) : e.at \in 0..clock
  /\ raisedAlerts \in AlertLists(clock)

\* A sequence of some is a sequence of more.
LEMMA SeqOfMore ==
  ASSUME NEW A, NEW B, A \subseteq B, NEW s \in Seq(A)
  PROVE  s \in Seq(B)
OBVIOUS

\* No alert at first, and none after a reset.
LEMMA NoAlerts ==
  ASSUME AlertsAreKept, NEW now
  PROVE  <<>> \in AlertLists(now)
<1>1. <<>> \in Seq(AlertsUpTo(now)) /\ Len(<<>>) = 0 /\ DOMAIN <<>> = {}
  <2> DEFINE E == AlertsUpTo(now)
  <2> HIDE DEF E
  <2>1. <<>> \in Seq(E) /\ Len(<<>>) = 0 /\ DOMAIN <<>> = {}
    OBVIOUS
  <2> QED
    BY <2>1 DEF E
<1>2. NoneTwice(<<>>, now)
  BY <1>1 DEF NoneTwice
<1> QED
  BY <1>1, <1>2 DEF AlertLists, AlertsAreKept

\* Time only ends what stands.
LEMMA AlertsExpire ==
  ASSUME AlertsAreKept, NEW now \in Nat, NEW as \in AlertLists(now)
  PROVE  as \in AlertLists(now + 1)
<1> DEFINE E == AlertsUpTo(now)
           F == AlertsUpTo(now + 1)
<1>1. as \in Seq(E) /\ Len(as) <= AlertsKept /\ NoneTwice(as, now)
  BY DEF AlertLists
<1>2. E \subseteq F
  <2>1. 0..now \subseteq 0..(now + 1)
    OBVIOUS
  <2> QED
    BY <2>1 DEF AlertsUpTo
<1>3. \A a \in E : a.at \in Int
  BY DEF AlertsUpTo
<1> HIDE DEF E, F
<1>4. as \in Seq(F)
  BY <1>1, <1>2, SeqOfMore
<1>5. \A i \in DOMAIN as : as[i] \in E
  BY <1>1, PlacesOf
<1>6. ASSUME NEW a \in E, Stands(a, now + 1) PROVE Stands(a, now)
  BY <1>3, <1>6 DEF Stands, AlertsAreKept
<1>7. NoneTwice(as, now + 1)
  BY <1>1, <1>5, <1>6 DEF NoneTwice
<1> QED
  BY <1>1, <1>4, <1>7 DEF AlertLists, F

\* checkAlertConditions raises alerts of now.
LEMMA RaisedIs ==
  ASSUME clock \in Nat, NEW k \in RequestKinds, NEW w
  PROVE  Dashboard!Raised(k, w) \in Seq(RaisedAt(clock))
<1> DEFINE R == RaisedAt(clock)
           A(t, v, e) == Dashboard!Alert(t, v, e)
<1>1. ASSUME NEW t \in {"response", "errors", "hits", "compression"},
             NEW v \in {"critical", "warning", "info"}, NEW e \in Endpoints
      PROVE  A(t, v, e) \in R
  <2>1. clock \in 0..clock /\ Dashboard!Alert(t, v, e).at = clock
    BY DEF Dashboard!Alert, clock
  <2> QED
    BY <2>1 DEF Dashboard!Alert, RaisedAt, AlertsUpTo, clock
<1>2. Nil \in Endpoints /\ k.endpoint \in Endpoints
  BY DEF Endpoints
<1>3. /\ A("response", "critical", k.endpoint) \in R /\ A("response", "warning", k.endpoint) \in R
      /\ A("errors", "warning", Nil) \in R /\ A("hits", "warning", Nil) \in R
      /\ A("compression", "info", Nil) \in R
  BY <1>1, <1>2
<1> HIDE DEF R, A
<1> DEFINE L1 == CASE k.ms > v4.p99 -> <<A("response", "critical", k.endpoint)>>
                   [] k.ms > v4.p95 /\ k.ms <= v4.p99 -> <<A("response", "warning", k.endpoint)>>
                   [] OTHER -> <<>>
           L2 == IF Dashboard!Above(Dashboard!Metric(w, "errorRate"), v4.errors)
                 THEN <<A("errors", "warning", Nil)>> ELSE <<>>
           L3 == IF Dashboard!Below(Dashboard!Metric(w, "hitRate"), v4.hits)
                 THEN <<A("hits", "warning", Nil)>> ELSE <<>>
           L4 == IF Dashboard!Below(Dashboard!Metric(w, "compressionRatio"), v4.ratio)
                 THEN <<A("compression", "info", Nil)>> ELSE <<>>
<1>4. \A a \in R : <<a>> \in Seq(R)
  OBVIOUS
<1>5. <<>> \in Seq(R)
  OBVIOUS
<1>6. L1 \in Seq(R)
  BY <1>3, <1>4, <1>5
<1>7. L2 \in Seq(R) /\ L3 \in Seq(R) /\ L4 \in Seq(R)
  BY <1>3, <1>4, <1>5
<1>8. Dashboard!Raised(k, w) = L1 \o L2 \o L3 \o L4
  BY DEF Dashboard!Raised, A
<1> HIDE DEF L1, L2, L3, L4
<1>9. \A s, t \in Seq(R) : s \o t \in Seq(R)
  OBVIOUS
<1>10. L1 \o L2 \in Seq(R)
  BY <1>6, <1>7, <1>9
<1>11. (L1 \o L2) \o L3 \in Seq(R)
  BY <1>7, <1>9, <1>10
<1>12. ((L1 \o L2) \o L3) \o L4 \in Seq(R)
  BY <1>7, <1>9, <1>11
<1> QED
  BY <1>8, <1>12 DEF R

\* The dashboard's initial states.
LEMMA DashboardInit ==
  ASSUME MonitoringIsSane, AlertsAreKept, Dashboard!Init
  PROVE  DashboardInv
<1>1. clock = 0 /\ snapshots = <<>> /\ raisedAlerts = <<>>
  BY DEF Dashboard!Init, clock, snapshots, raisedAlerts
<1>2. KeepsSnapshots
  BY <1>1, NoSnapshots
<1>3. \A e \in Elements(snapshots) : e.at \in 0..clock
  BY <1>1 DEF Elements
<1>4. raisedAlerts \in AlertLists(clock)
  BY <1>1, NoAlerts
<1> QED
  BY <1>1, <1>2, <1>3, <1>4 DEF DashboardInv

\* What a burst of requests changes.
LEMMA RecordedIs ==
  ASSUME NEW k, Dashboard!RecordSnapshot(k)
  PROVE  /\ snapshots' = Shifted(Append(snapshots, Dashboard!Snapshot(k)), 10000 \div Burst)
         /\ clock' = clock
         /\ raisedAlerts' = CreatedOf(raisedAlerts,
                                      Dashboard!Raised(k, Dashboard!InWindow(snapshots')))
BY DEF CreatedOf, Dashboard!RecordSnapshot, Dashboard!Kept, Shifted,
       snapshots, clock, raisedAlerts

\* A burst of requests raises its alerts.
LEMMA RecordStep ==
  ASSUME MonitoringIsSane, AlertsAreKept, DashboardInv, NEW k \in RequestKinds,
         Dashboard!RecordSnapshot(k)
  PROVE  DashboardInv'
<1> DEFINE e == Dashboard!Snapshot(k)
           w == Dashboard!InWindow(snapshots')
           raised == Dashboard!Raised(k, w)
<1>1. clock \in Nat /\ KeepsSnapshots /\ raisedAlerts \in AlertLists(clock)
  BY DEF DashboardInv
<1>2. /\ snapshots' = Shifted(Append(snapshots, e), 10000 \div Burst)
      /\ clock' = clock
      /\ raisedAlerts' = CreatedOf(raisedAlerts, raised)
  BY RecordedIs
<1>3. e.at = clock
  BY DEF Dashboard!Snapshot, clock
<1> HIDE DEF e, w
<1>4. KeepsSnapshots' /\ Elements(snapshots') \subseteq Elements(snapshots) \cup {e}
  BY <1>1, <1>2, OneMoreSnapshot
<1>5. \A s \in Elements(snapshots') : s.at \in 0..clock
  <2>1. clock \in 0..clock
    BY <1>1
  <2> QED
    BY <1>3, <1>4, <2>1 DEF DashboardInv
<1>6. raised \in Seq(RaisedAt(clock))
  BY <1>1, RaisedIs
<1> HIDE DEF raised
<1>7. raisedAlerts' \in AlertLists(clock)
  BY <1>1, <1>2, <1>6, CreatedAll
<1> QED
  BY <1>1, <1>2, <1>4, <1>5, <1>7 DEF DashboardInv

\* Resolving an alert.
LEMMA ResolveAlertStep ==
  ASSUME MonitoringIsSane, AlertsAreKept, DashboardInv, NEW i \in 1..AlertsKept,
         Dashboard!ResolveAlert(i)
  PROVE  DashboardInv'
<1> DEFINE as == raisedAlerts
           E == AlertsUpTo(clock)
           r == [as[i] EXCEPT !.resolved = TRUE]
           b == [as EXCEPT ![i] = r]
<1>1. clock \in Nat /\ KeepsSnapshots /\ as \in AlertLists(clock)
  BY DEF DashboardInv
<1>2. UNCHANGED <<clock, snapshots>> /\ i \in DOMAIN as
  BY DEF Dashboard!ResolveAlert, snapshots, clock, raisedAlerts
<1>3. raisedAlerts' = b
  BY DEF Dashboard!ResolveAlert, raisedAlerts
<1>4. as \in Seq(E)
  BY <1>1 DEF AlertLists
<1> HIDE DEF E, as
<1>5. as[i] \in E
  BY <1>2, <1>4, PlacesOf
<1>6. /\ r \in E /\ r.type = as[i].type /\ r.endpoint = as[i].endpoint /\ r.resolved = TRUE
  BY <1>5, AlertResolved DEF E
<1> HIDE DEF r
<1>7. b \in Seq(E)
  BY <1>2, <1>4, <1>6, ReplacedIn
<1>8. DOMAIN b = DOMAIN as /\ b[i] = r /\ \A j \in DOMAIN as : j # i => b[j] = as[j]
  BY <1>2
<1> HIDE DEF b
<1>9. Len(b) = Len(as)
  BY <1>4, <1>7, <1>8, SameLen
<1>10. \A j \in DOMAIN as : AlikeAlerts(b[j], as[j]) /\ b[j].endpoint = as[j].endpoint
                              /\ (Stands(b[j], clock) => Stands(as[j], clock))
  BY <1>6, <1>8 DEF AlikeAlerts, Stands
<1>11. b \in AlertLists(clock)
  BY <1>1, <1>7, <1>9, <1>10, AlertChanged DEF E
<1> QED
  BY <1>1, <1>2, <1>3, <1>11 DEF DashboardInv, KeepsSnapshots

\* Every step of the dashboard keeps its invariant.
LEMMA DashboardStep ==
  ASSUME MonitoringIsSane, AlertsAreKept, DashboardInv, [Dashboard!Next]_(Dashboard!dashVars)
  PROVE  DashboardInv'
<1>1. clock \in Nat /\ KeepsSnapshots /\ raisedAlerts \in AlertLists(clock)
      /\ \A e \in Elements(snapshots) : e.at \in 0..clock
  BY DEF DashboardInv
<1>2. ASSUME NEW k \in RequestKinds, Dashboard!RecordSnapshot(k) PROVE DashboardInv'
  BY <1>2, RecordStep
<1>3. ASSUME NEW i \in 1..AlertsKept, Dashboard!ResolveAlert(i) PROVE DashboardInv'
  BY <1>3, ResolveAlertStep
<1>4. ASSUME UNCHANGED <<clock, snapshots, raisedAlerts>> PROVE DashboardInv'
  BY <1>4, <1>1 DEF DashboardInv, KeepsSnapshots
<1>5. ASSUME NEW u \in LimitUpdates, Dashboard!UpdateThresholds(u) PROVE DashboardInv'
  BY <1>4, <1>5 DEF Dashboard!UpdateThresholds, clock, snapshots, raisedAlerts
<1>6. CASE Dashboard!Reset
  <2>1. clock' = clock /\ snapshots' = <<>> /\ raisedAlerts' = <<>>
    BY <1>6 DEF Dashboard!Reset, clock, snapshots, raisedAlerts
  <2>2. KeepsSnapshots'
    <3>1. <<>> \in Seq(Elements(<<>>)) /\ Len(<<>>) = 0
      OBVIOUS
    <3>2. 0 <= 10000 \div Burst
      BY DEF MonitoringIsSane
    <3> QED
      BY <2>1, <3>1, <3>2 DEF KeepsSnapshots
  <2>3. \A e \in Elements(snapshots') : e.at \in 0..clock
    BY <2>1 DEF Elements
  <2>4. <<>> \in AlertLists(clock)
    BY NoAlerts
  <2> QED
    BY <1>1, <2>1, <2>2, <2>3, <2>4 DEF DashboardInv
<1>7. CASE Dashboard!Tick
  <2>1. clock' = clock + 1 /\ snapshots' = snapshots /\ raisedAlerts' = raisedAlerts
    BY <1>7 DEF Dashboard!Tick, clock, snapshots, raisedAlerts
  <2>2. KeepsSnapshots'
    BY <1>1, <2>1 DEF KeepsSnapshots
  <2>3. \A e \in Elements(snapshots) : e.at \in 0..(clock + 1)
    BY <1>1
  <2>4. raisedAlerts \in AlertLists(clock + 1)
    BY <1>1, AlertsExpire
  <2>5. clock + 1 \in Nat
    BY <1>1
  <2> QED
    BY <2>1, <2>2, <2>3, <2>4, <2>5 DEF DashboardInv
<1>8. CASE UNCHANGED Dashboard!dashVars
  BY <1>4, <1>8 DEF Dashboard!dashVars, clock, snapshots, raisedAlerts
<1> QED
  BY <1>2, <1>3, <1>5, <1>6, <1>7, <1>8 DEF Dashboard!Next

\* The alerts that stand are of different types or endpoints.
LEMMA AlertsDiffer ==
  ASSUME DashboardInv
  PROVE  Dashboard!AlertsAreDistinct
<1>1. NoneTwice(raisedAlerts, clock)
  BY DEF DashboardInv, AlertLists
<1>2. \A a : Dashboard!Active(a) <=> Stands(a, clock)
  BY DEF Dashboard!Active, Stands, clock
<1>3. \A a, b : <<a.type, a.endpoint>> = <<b.type, b.endpoint>> => AlikeAlerts(a, b)
  BY DEF AlikeAlerts
<1> QED
  BY <1>1, <1>2, <1>3 DEF Dashboard!AlertsAreDistinct, NoneTwice, raisedAlerts

\* The dashboard's types follow from its invariant.
LEMMA DashboardTypes ==
  ASSUME DashboardInv
  PROVE  Dashboard!TypeOK
<1>1. clock \in Nat /\ KeepsSnapshots /\ raisedAlerts \in AlertLists(clock)
      /\ \A e \in Elements(snapshots) : e.at \in 0..clock
  BY DEF DashboardInv
<1>2. Len(snapshots) <= 10000 \div Burst
  BY <1>1 DEF KeepsSnapshots
<1>3. Len(raisedAlerts) <= AlertsKept /\ raisedAlerts \in Seq(AlertsUpTo(clock))
  BY <1>1 DEF AlertLists
<1>4. \A i \in DOMAIN snapshots : snapshots[i].at \in 0..clock
  BY <1>1 DEF Elements
<1>5. \A i \in DOMAIN raisedAlerts : raisedAlerts[i].at \in 0..clock
  <2>1. \A i \in DOMAIN raisedAlerts : raisedAlerts[i] \in AlertsUpTo(clock)
    BY <1>3, PlacesOf
  <2> QED
    BY <2>1 DEF AlertsUpTo
<1> QED
  BY <1>2, <1>3, <1>4, <1>5 DEF Dashboard!TypeOK, clock, snapshots, raisedAlerts

\* The two parts of the monitoring start in their invariants.
LEMMA MonitoringStarts ==
  ASSUME MonitoringIsSane, AlertsAreKept, MCInit
  PROVE  /\ part = "alerts" => DashboardInv
         /\ part = "bottlenecks" => DetectorInv
BY DashboardInit, DetectorInit DEF MCInit

\* In the composition each of the two parts takes its own steps only.
LEMMA MonitoringMoves ==
  ASSUME [MCNext]_all
  PROVE  /\ part' = part
         /\ part = "alerts" => [Dashboard!Next]_(Dashboard!dashVars)
         /\ part = "bottlenecks" =>
              [Detector!BottlenecksNext]_<<Detector!dashVars, Detector!bottleneckVars>>
<1>1. part' = part
  BY DEF MCNext, all
<1>2. part = "alerts" => [Dashboard!Next]_(Dashboard!dashVars)
  BY DEF MCNext, all, rest1, Dashboard!dashVars
<1>3. part = "bottlenecks" =>
        [Detector!BottlenecksNext]_<<Detector!dashVars, Detector!bottleneckVars>>
  BY DEF MCNext, all, rest1, Detector!dashVars, Detector!bottleneckVars
<1> QED
  BY <1>1, <1>2, <1>3

\* Alerts are deduplicated, six of the nine bottleneck patterns never fire and no action
\* runs, and what was resolved is counted once and found by no DELETE, in the composition
\* that MCBackground checks: for any requests, thresholds, limits and lengths of time.
THEOREM AlarmsAreDistinctComposed ==
  ASSUME MonitoringIsSane, AlertsAreKept
  PROVE  MCSpec => []AlarmsAreDistinct
<1> DEFINE Inv == /\ part = "alerts" => DashboardInv
                  /\ part = "bottlenecks" => DetectorInv
<1>1. MCInit => Inv
  BY MonitoringStarts
<1>2. Inv /\ [MCNext]_all => Inv'
  BY MonitoringMoves, DashboardStep, DetectorStep
<1>3. Inv => AlarmsAreDistinct
  BY AlertsDiffer, AllCountedOnce DEF AlarmsAreDistinct
<1> QED
  BY <1>1, <1>2, <1>3, PTL DEF MCSpec

-----------------------------------------------------------------------------
(* The parts together.                                                      *)

\* The invariants of the parts, together.
PartsInv ==
  /\ part \in {"heap", "scheduler", "coordinator", "alerts", "bottlenecks", "memory"}
  /\ HeapInv
  /\ part = "scheduler" => SchedulerInv /\ TimesInv
  /\ part = "coordinator" => CoordinatorInv
  /\ part = "alerts" => DashboardInv
  /\ part = "bottlenecks" => DetectorInv
  /\ part = "memory" => MemoryInv /\ UsedInv

\* The constants are what every part needs them to be.
PartsAreSane ==
  /\ NoPodIsNone
  /\ NoJobIsNone /\ SpecsInTime
  /\ NoEntryIsNone /\ MaxReads \in Nat
  /\ MonitoringIsSane /\ AlertsAreKept

\* Every part starts in its invariant.
LEMMA PartsStart ==
  ASSUME PartsAreSane, MCInit
  PROVE  PartsInv
<1>1. part \in {"heap", "scheduler", "coordinator", "alerts", "bottlenecks", "memory"} /\ HeapInv
  BY HeapInit DEF MCInit
<1>2. part = "scheduler" => Schedules!Init
  BY DEF MCInit
<1>3. part = "coordinator" => Leaders!Init
  BY DEF MCInit
<1>4. part = "memory" => Memory!Init
  BY DEF MCInit
<1> QED
  BY <1>1, <1>2, <1>3, <1>4, SchedulerStarts, TimesStart, CoordinatorStart, MemoryStarts, UsedStarts,
     MonitoringStarts DEF PartsInv, PartsAreSane

\* And every step keeps each.
LEMMA PartsStep ==
  ASSUME PartsAreSane, PartsInv, [MCNext]_all
  PROVE  PartsInv'
<1>1. part' = part /\ HeapInv'
  BY SchedulerMoves, HeapMoves, HeapStep DEF PartsInv
<1>2. CASE part = "scheduler"
  <2>1. SchedulerInv' /\ TimesInv'
    BY <1>2, SchedulerMoves, SchedulerStep, TimesStep DEF PartsInv, PartsAreSane
  <2> QED
    BY <1>1, <1>2, <2>1 DEF PartsInv
<1>3. CASE part = "coordinator"
  <2>1. CoordinatorInv'
    BY <1>3, CoordinatorMoves, CoordinatorStep DEF PartsInv, PartsAreSane
  <2> QED
    BY <1>1, <1>3, <2>1 DEF PartsInv
<1>4. CASE part = "alerts"
  <2>1. DashboardInv'
    BY <1>4, MonitoringMoves, DashboardStep DEF PartsInv, PartsAreSane
  <2> QED
    BY <1>1, <1>4, <2>1 DEF PartsInv
<1>5. CASE part = "bottlenecks"
  <2>1. DetectorInv'
    BY <1>5, MonitoringMoves, DetectorStep DEF PartsInv, PartsAreSane
  <2> QED
    BY <1>1, <1>5, <2>1 DEF PartsInv
<1>6. CASE part = "memory"
  <2>1. [Memory!Next]_(Memory!vars) /\ MemoryInv'
    BY <1>6, MemoryMoves, MemoryStep DEF PartsInv, PartsAreSane
  <2>2. UsedInv'
    BY <1>6, <2>1, UsedStep DEF PartsInv, PartsAreSane
  <2> QED
    BY <1>1, <1>6, <2>1, <2>2 DEF PartsInv
<1>7. CASE part = "heap"
  BY <1>1, <1>7 DEF PartsInv
<1> QED
  BY <1>2, <1>3, <1>4, <1>5, <1>6, <1>7 DEF PartsInv

\* The types of every part, in the composition that MCBackground checks: the heap is one
\* and its keys are its entries, no timer is set beyond the times looked at, the cache's
\* orders have the entries it holds, and the records are what the code makes them.
THEOREM TypesOKComposed ==
  ASSUME PartsAreSane
  PROVE  MCSpec => []TypesOK
<1>1. MCInit => PartsInv
  BY PartsStart
<1>2. PartsInv /\ [MCNext]_all => PartsInv'
  BY PartsStep
<1>3. ASSUME PartsInv PROVE TypesOK
  <2>1. CASE part = "heap"
    BY <1>3, <2>1, HeapInvGives DEF PartsInv, TypesOK
  <2>2. CASE part = "scheduler"
    BY <1>3, <2>2, SchedulerTypes DEF PartsInv, PartsAreSane, TypesOK
  <2>3. CASE part = "coordinator"
    BY <1>3, <2>3 DEF PartsInv, CoordinatorInv, TypesOK
  <2>4. CASE part = "alerts"
    BY <1>3, <2>4, DashboardTypes DEF PartsInv, TypesOK
  <2>5. CASE part = "bottlenecks"
    BY <1>3, <2>5, DetectorTypes DEF PartsInv, PartsAreSane, TypesOK
  <2>6. CASE part = "memory"
    BY <1>3, <2>6, MemoryTypes DEF PartsInv, PartsAreSane, TypesOK
  <2> QED
    BY <1>3, <2>1, <2>2, <2>3, <2>4, <2>5, <2>6 DEF PartsInv
<1> QED
  BY <1>1, <1>2, <1>3, PTL DEF MCSpec
=============================================================================
