----------------------------- MODULE Coordinator -----------------------------
(***************************************************************************)
(* PodCoordinator (lib/coordination/pod-coordinator.ts): pods elect a      *)
(* leader by a key in Redis with a lease, set with NX by an election and   *)
(* without it by the leader's heartbeats.  The runtime does not wire the   *)
(* coordinator in yet, and the caches of the factory lack the getClient it *)
(* asks of them; the model takes the client that its interface names.      *)
(*                                                                         *)
(* A timer that is armed may fire at any time, so a pod may stall for as   *)
(* long as its lease lasts, and a lease may lapse at any time.  A command  *)
(* reaches Redis some time after it is sent, its answer the pod later      *)
(* still, and either may be lost.  A pod that starts again takes a new     *)
(* random id: it is another pod.  Terms are left out, which nothing        *)
(* compares, and so are messages: what their handlers do is to log.        *)
(***************************************************************************)
EXTENDS Naturals, FiniteSets

CONSTANTS
  Pods,
  Calls,     \* elections one pod may have in flight
  NoPod,
  MaxTimers, \* bound: intervals and timeouts of one kind told apart in a pod
  MaxFaults  \* bound: failures, crashes and lapsed leases

VARIABLES
  key,       \* the leader key in Redis: a pod or NoPod
  status,    \* pod -> "new", "connected", "failed" or "crashed"
  isLeader,
  info,      \* pod -> leaderInfo: a pod or NoPod
  beats,     \* pod -> heartbeat intervals running
  follows,   \* pod -> followership intervals running
  expiries,  \* pod -> leadership timeouts pending
  retries,   \* pod -> elections to start after a failed heartbeat
  handle,    \* pod -> what electionTimer names: "none", "timeout" or "interval"
  election,  \* pod -> call -> [at, read]: a startLeaderElection in flight
  beat,      \* pod -> "none", "sent" or "run": a sendHeartbeat in flight
  lapsed,    \* history: a lease ran out while its owner counted on it
  faults

local == <<isLeader, info>>
timers == <<beats, follows, expiries, retries, handle>>
vars == <<key, status, local, timers, election, beat, lapsed, faults>>

Idle == [at |-> "idle", read |-> NoPod]
Sent == [at |-> "sent", read |-> NoPod]
Stages == {"idle", "sent", "won", "lost", "read"}

Init ==
  /\ key = NoPod
  /\ status = [p \in Pods |-> "new"]
  /\ isLeader = [p \in Pods |-> FALSE]
  /\ info = [p \in Pods |-> NoPod]
  /\ beats = [p \in Pods |-> 0] /\ follows = beats /\ expiries = beats /\ retries = beats
  /\ handle = [p \in Pods |-> "none"]
  /\ election = [p \in Pods |-> [c \in Calls |-> Idle]]
  /\ beat = [p \in Pods |-> "none"]
  /\ lapsed = FALSE /\ faults = 0

Up(p) == status[p] = "connected"
Fault == faults < MaxFaults /\ faults' = faults + 1

\* Timers are counted up to MaxTimers, which stands for that many or more.
More(f, p) == f' = [f EXCEPT ![p] = IF @ < MaxTimers THEN @ + 1 ELSE @]
Fewer(f, p) ==
  /\ f[p] > 0
  /\ \/ f' = [f EXCEPT ![p] = @ - 1]
     \/ f[p] = MaxTimers /\ UNCHANGED f
At(p, c, stage) == election' = [election EXCEPT ![p][c] = [at |-> stage, read |-> NoPod]]

\* startLeaderElection up to its SET ... NX EX.
Elects(p) == \E c \in Calls :
  /\ election[p][c] = Idle
  /\ election' = [election EXCEPT ![p][c] = Sent]

-----------------------------------------------------------------------------
(* The election.                                                             *)

\* initializeRedis: the two clients, the message handlers, the first election.
Connect(p) ==
  /\ status[p] = "new"
  /\ status' = [status EXCEPT ![p] = "connected"]
  /\ Elects(p)
  /\ UNCHANGED <<key, local, timers, beat, lapsed, faults>>

ConnectFails(p) ==
  /\ status[p] = "new" /\ Fault
  /\ status' = [status EXCEPT ![p] = "failed"]
  /\ UNCHANGED <<key, local, timers, election, beat, lapsed>>

\* Mutant: the election's SET has no NX.
SetRunsWithoutNX(p, c) ==
  /\ election[p][c].at = "sent"
  /\ key' = p /\ At(p, c, "won")
  /\ UNCHANGED <<status, local, timers, beat, lapsed, faults>>

\* Redis runs SET key NX EX.
SetRuns(p, c) ==
  /\ election[p][c].at = "sent"
  /\ \/ key = NoPod /\ key' = p /\ At(p, c, "won")
     \/ key # NoPod /\ UNCHANGED key /\ At(p, c, "lost")
  /\ UNCHANGED <<status, local, timers, beat, lapsed, faults>>

\* The pod learns that it won: startLeadership.
Wins(p, c) ==
  /\ Up(p) /\ election[p][c].at = "won"
  /\ election' = [election EXCEPT ![p][c] = Idle]
  /\ info' = [info EXCEPT ![p] = p]
  /\ isLeader' = [isLeader EXCEPT ![p] = TRUE]
  /\ More(beats, p) /\ More(expiries, p)
  /\ handle' = [handle EXCEPT ![p] = "timeout"]
  /\ UNCHANGED <<key, status, follows, retries, beat, lapsed, faults>>

\* Redis runs the GET of a pod that lost.
GetRuns(p, c) ==
  /\ Up(p) /\ election[p][c].at = "lost"
  /\ election' = [election EXCEPT ![p][c] = [at |-> "read", read |-> key]]
  /\ UNCHANGED <<key, status, local, timers, beat, lapsed, faults>>

\* Its answer: the pod leads again if the key is its own, else it follows.
\* Without a leader it follows nobody.
Learns(p, c) ==
  /\ Up(p) /\ election[p][c].at = "read"
  /\ LET leader == election[p][c].read IN
       /\ info' = [info EXCEPT ![p] = leader]
       /\ isLeader' = [isLeader EXCEPT ![p] = leader = p]
       /\ IF leader = p THEN UNCHANGED <<follows, handle>>
          ELSE More(follows, p) /\ handle' = [handle EXCEPT ![p] = "interval"]
  /\ election' = [election EXCEPT ![p][c] = Idle]
  /\ UNCHANGED <<key, status, beats, expiries, retries, beat, lapsed, faults>>

\* A command fails, or its answer is lost: the error is only logged.
ElectionFails(p, c) ==
  /\ Up(p) /\ election[p][c] # Idle /\ Fault
  /\ election' = [election EXCEPT ![p][c] = Idle]
  /\ UNCHANGED <<key, status, local, timers, beat, lapsed>>

\* The 30 s timeout of startLeadership.
LeadershipExpires(p) ==
  /\ Up(p) /\ Fewer(expiries, p)
  /\ isLeader' = [isLeader EXCEPT ![p] = FALSE]
  /\ Elects(p)
  /\ UNCHANGED <<key, status, info, beats, follows, retries, handle, beat, lapsed, faults>>

\* The interval of startFollowership.  Nothing refreshes leaderInfo but an
\* election, so after 30 s every leader looks dead.
FollowerSuspects(p) ==
  /\ Up(p) /\ follows[p] > 0 /\ info[p] # NoPod
  /\ Elects(p)
  /\ UNCHANGED <<key, status, local, timers, beat, lapsed, faults>>

-----------------------------------------------------------------------------
(* The heartbeat.                                                            *)

\* Mutant: whether the pod still leads is not asked.
HeartbeatSendsAlways(p) ==
  /\ Up(p) /\ beats[p] > 0 /\ info[p] # NoPod /\ beat[p] = "none"
  /\ beat' = [beat EXCEPT ![p] = "sent"]
  /\ UNCHANGED <<key, status, local, timers, election, lapsed, faults>>

HeartbeatSends(p) ==
  /\ Up(p) /\ beats[p] > 0 /\ isLeader[p] /\ info[p] # NoPod /\ beat[p] = "none"
  /\ beat' = [beat EXCEPT ![p] = "sent"]
  /\ UNCHANGED <<key, status, local, timers, election, lapsed, faults>>

\* Redis runs SET key EX: whoever owns the key loses it.
HeartbeatRuns(p) ==
  /\ beat[p] = "sent"
  /\ key' = p
  /\ beat' = [beat EXCEPT ![p] = "run"]
  /\ UNCHANGED <<status, local, timers, election, lapsed, faults>>

HeartbeatReturns(p) ==
  /\ Up(p) /\ beat[p] = "run"
  /\ info' = [info EXCEPT ![p] = p]
  /\ beat' = [beat EXCEPT ![p] = "none"]
  /\ UNCHANGED <<key, status, isLeader, timers, election, lapsed, faults>>

\* The pod resigns, and starts an election a second later.
HeartbeatFails(p) ==
  /\ Up(p) /\ beat[p] # "none" /\ Fault
  /\ beat' = [beat EXCEPT ![p] = "none"]
  /\ isLeader' = [isLeader EXCEPT ![p] = FALSE]
  /\ More(retries, p)
  /\ UNCHANGED <<key, status, info, beats, follows, expiries, handle, election, lapsed>>

RetryFires(p) ==
  /\ Up(p) /\ Fewer(retries, p)
  /\ Elects(p)
  /\ UNCHANGED <<key, status, local, beats, follows, expiries, handle, beat, lapsed, faults>>

-----------------------------------------------------------------------------
(* The lease, and the end of a pod.                                          *)

\* A pod leads, or a command of its is on the way: it counts on its lease.
CountsOnLease(p) ==
  isLeader[p] \/ beat[p] # "none" \/ \E c \in Calls : election[p][c] # Idle

LeaseExpires ==
  /\ key # NoPod /\ Fault
  /\ key' = NoPod
  /\ lapsed' = (lapsed \/ CountsOnLease(key))
  /\ UNCHANGED <<status, local, timers, election, beat>>

\* What was sent still reaches Redis.
Crash(p) ==
  /\ Up(p) /\ Fault
  /\ status' = [status EXCEPT ![p] = "crashed"]
  /\ isLeader' = [isLeader EXCEPT ![p] = FALSE]
  /\ info' = [info EXCEPT ![p] = NoPod]
  /\ beats' = [beats EXCEPT ![p] = 0] /\ follows' = [follows EXCEPT ![p] = 0]
  /\ expiries' = [expiries EXCEPT ![p] = 0] /\ retries' = [retries EXCEPT ![p] = 0]
  /\ handle' = [handle EXCEPT ![p] = "none"]
  /\ election' = [election EXCEPT ![p] =
       [c \in Calls |-> IF @[c].at = "sent" THEN Sent ELSE Idle]]
  /\ beat' = [beat EXCEPT ![p] = IF @ = "sent" THEN "sent" ELSE "none"]
  /\ UNCHANGED <<key, lapsed>>

\* shutdown(): the timers the two fields name are cleared, the others run on,
\* and a leader stays one.
Shutdown(p) ==
  /\ Up(p) /\ (beats[p] > 0 \/ handle[p] # "none")
  /\ IF beats[p] > 0 THEN Fewer(beats, p) ELSE UNCHANGED beats
  /\ IF handle[p] = "timeout" /\ expiries[p] > 0 THEN Fewer(expiries, p) ELSE UNCHANGED expiries
  /\ IF handle[p] = "interval" THEN Fewer(follows, p) ELSE UNCHANGED follows
  /\ handle' = [handle EXCEPT ![p] = "none"]
  /\ UNCHANGED <<key, status, local, retries, election, beat, lapsed, faults>>

Next ==
  \/ LeaseExpires
  \/ \E p \in Pods :
       \/ Connect(p) \/ ConnectFails(p) \/ Crash(p) \/ Shutdown(p)
       \/ LeadershipExpires(p) \/ FollowerSuspects(p)
       \/ HeartbeatSends(p) \/ HeartbeatRuns(p) \/ HeartbeatReturns(p) \/ HeartbeatFails(p)
       \/ RetryFires(p)
       \/ \E c \in Calls :
            SetRuns(p, c) \/ Wins(p, c) \/ GetRuns(p, c) \/ Learns(p, c) \/ ElectionFails(p, c)

Spec == Init /\ [][Next]_vars

-----------------------------------------------------------------------------
\* Types of the fields, the timers and the commands in flight.
TypeOK ==
  /\ key \in Pods \cup {NoPod}
  /\ status \in [Pods -> {"new", "connected", "failed", "crashed"}]
  /\ isLeader \in [Pods -> BOOLEAN]
  /\ info \in [Pods -> Pods \cup {NoPod}]
  /\ \A f \in {beats, follows, expiries, retries} : f \in [Pods -> 0 .. MaxTimers]
  /\ handle \in [Pods -> {"none", "timeout", "interval"}]
  /\ election \in [Pods -> [Calls -> [at : Stages, read : Pods \cup {NoPod}]]]
  /\ beat \in [Pods -> {"none", "sent", "run"}]
  /\ lapsed \in BOOLEAN /\ faults \in 0 .. MaxFaults

\* A pod that takes itself for the leader owns the key in Redis, so there is
\* at most one, through elections, resignations, retries, lost answers and
\* crashes, as long as no lease runs out under a pod that counts on it.  Once
\* one has, the heartbeats of the old leader take the key from the new one.
LeadersHoldTheKey == ~lapsed => \A p \in Pods : isLeader[p] => key = p
=============================================================================
