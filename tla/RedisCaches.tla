----------------------------- MODULE RedisCaches -----------------------------
(***************************************************************************)
(* RedisCache (lib/cache/redis-cache.ts) over RedisClient                  *)
(* (lib/cache/redis-client.ts): one process's cache whose entries live in  *)
(* Redis, with the connection that ioredis opens, loses and reopens.       *)
(*                                                                         *)
(* A call makes sure of the connection, sends its command, and reads the   *)
(* reply; get sends a second command when the entry it read has expired.   *)
(* ioredis queues what is sent without a connection and sends again what   *)
(* was not answered when one was lost, so a command may run twice, and a   *)
(* command fails when it waited too long.  Hit counts and response times,  *)
(* which no code acts on, are left out, and so is the interval that asks   *)
(* for the health and only logs it.                                        *)
(***************************************************************************)
EXTENDS Integers, FiniteSets

CONSTANTS
  Keys,     \* cache keys
  Calls,    \* calls that can be pending at once
  Ttls,     \* times to live, in the clock's unit
  Second,   \* units of the clock in a second, the unit of Redis's own expiry
  None,     \* a key Redis does not hold, an idle call, no reply
  MaxTime,  \* bound on the clock
  MaxFaults \* bound on lost connections, failed attempts and lost commands

VARIABLES
  time,         \* Date.now()
  store,        \* Redis: expiresAt inside the entry, dropAt the key's own expiry
  status,       \* client.status: "wait", "connecting", "ready", "closed", "end"
  isConnecting, \* RedisClient.isConnecting
  client,       \* whether this.client is set
  calls,        \* pending calls: op, keys, expiry to write, reply and next step
  faults

vars == <<time, store, status, isConnecting, client, calls, faults>>

Held == {k \in Keys : store[k] # None}

Init ==
  /\ time = 0
  /\ store = [k \in Keys |-> None]
  /\ status = "wait"
  /\ isConnecting = FALSE
  /\ client = TRUE
  /\ calls = [c \in Calls |-> None]
  /\ faults = 0

Call(op, ks, ttl) ==
  [op |-> op, keys |-> ks, ttl |-> ttl, expiresAt |-> 0, reply |-> None, step |-> "runs"]

\* The entry is built when the connection is there, just before it is sent.
Sent(call) == IF call.op = "set" THEN [call EXCEPT !.expiresAt = time + call.ttl, !.step = "runs"]
              ELSE [call EXCEPT !.step = "runs"]

\* Every operation begins with ensureConnection: with a connection, or while
\* another call opens one, the command is sent (or queued) at once.  Otherwise
\* connect opens one, and fails when there is no client any more or ioredis is
\* reconnecting by itself: that call ends with a CacheError.
Begins(c, call) ==
  /\ calls[c] = None
  /\ \/ /\ client /\ (status = "ready" \/ isConnecting)
        /\ calls' = [calls EXCEPT ![c] = Sent(call)]
        /\ UNCHANGED <<status, isConnecting>>
     \/ /\ client /\ ~isConnecting /\ status \in {"wait", "closed"}
        /\ status' = "connecting"
        /\ isConnecting' = TRUE
        /\ calls' = [calls EXCEPT ![c] = [call EXCEPT !.step = "connect"]]
  /\ UNCHANGED <<time, store, client, faults>>

Set(c, key, ttl) == Begins(c, Call("set", {key}, ttl))
SetMultiple(c, ks, ttl) == Begins(c, Call("set", ks, ttl))
Get(c, key) == Begins(c, Call("get", {key}, 0))
GetMultiple(c, ks) == Begins(c, Call("getMultiple", ks, 0))
Delete(c, key) == Begins(c, Call("delete", {key}, 0))
Clear(c) == Begins(c, Call("delete", Keys, 0))

Fail(cs) == [c \in Calls |-> IF c \in cs THEN None ELSE calls[c]]
At(step) == {c \in Calls : calls[c] # None /\ calls[c].step = step}

\* "ready": the connection stands and those who waited for it send their
\* commands.
Ready ==
  /\ status = "connecting"
  /\ status' = "ready"
  /\ isConnecting' = FALSE
  /\ calls' = [c \in Calls |-> IF c \in At("connect") THEN Sent(calls[c]) ELSE calls[c]]
  /\ UNCHANGED <<time, store, client, faults>>

\* "error" and "close" end an attempt, and a connection.
Closed == status' = "closed" /\ isConnecting' = FALSE

\* connect rejects: the calls that waited for it fail.
ConnectFails ==
  /\ status = "connecting" /\ faults < MaxFaults
  /\ Closed
  /\ calls' = Fail(At("connect"))
  /\ faults' = faults + 1
  /\ UNCHANGED <<time, store, client>>

\* A lost connection: some replies are lost, whose commands are sent again.
Lost(cs) ==
  /\ status = "ready" /\ faults < MaxFaults
  /\ Closed
  /\ calls' = [c \in Calls |-> IF c \in cs THEN [calls[c] EXCEPT !.step = "runs"] ELSE calls[c]]
  /\ faults' = faults + 1
  /\ UNCHANGED <<time, store, client>>

\* ioredis opens the connection again after a delay, without RedisClient.
Reconnects ==
  /\ client /\ status = "closed"
  /\ status' = "connecting"
  /\ UNCHANGED <<time, store, isConnecting, client, calls, faults>>

\* Math.ceil(ttlMs / 1000), as SET EX wants seconds.
\* Mutant: Math.floor.
Seconds_Floor(ttl) == ttl \div Second
Seconds(ttl) == (ttl + Second - 1) \div Second

\* The expiry inside the entry was computed before the command was sent, the
\* key's own runs from when Redis executes it.  A time to live of no seconds is
\* an error of SET.
Written(ttl, expiresAt) == [expiresAt |-> expiresAt, dropAt |-> time + Seconds(ttl) * Second]

\* Redis executes a command: SET, DEL and FLUSHDB, or GET (for several keys at
\* once in a MULTI).
Runs(c) ==
  /\ c \in At("runs") /\ status = "ready"
  /\ LET call == calls[c]
     IN  /\ store' = [k \in Keys |->
                        IF k \notin call.keys \/ call.op \in {"get", "getMultiple"} THEN store[k]
                        ELSE IF call.op = "set" THEN Written(call.ttl, call.expiresAt) ELSE None]
         /\ calls' = [calls EXCEPT ![c].step = "reply",
                                   ![c].reply = IF call.op = "get"
                                                THEN [k \in call.keys |-> store[k]] ELSE @]
  /\ UNCHANGED <<time, status, isConnecting, client, faults>>

\* The reply arrives.  get deletes a key whose entry it finds expired, by then
\* perhaps another entry; getMultiple only skips it.
Returns(c) ==
  /\ c \in At("reply")
  /\ LET call == calls[c]
         stale == IF call.op = "get"
                  THEN {k \in call.keys : call.reply[k] # None /\ time > call.reply[k].expiresAt}
                  ELSE {}
     IN  calls' = [calls EXCEPT ![c] = IF stale = {} THEN None ELSE Call("delete", stale, 0)]
  /\ UNCHANGED <<time, store, status, isConnecting, client, faults>>

\* A command that waits too long, or whose connection was given up, fails the
\* call, whether Redis executed it or not.
CommandFails(c) ==
  /\ c \in At("runs") \cup At("reply")
  /\ status = "end" \/ faults < MaxFaults
  /\ calls' = Fail({c})
  /\ faults' = IF status = "end" THEN faults ELSE faults + 1
  /\ UNCHANGED <<time, store, status, isConnecting, client>>

\* disconnect: quit, or a forced disconnect, and no client from then on.
Disconnect ==
  /\ client
  /\ client' = FALSE
  /\ status' = "end"
  /\ isConnecting' = FALSE
  /\ calls' = Fail(At("connect"))
  /\ UNCHANGED <<time, store, faults>>

\* Redis drops a key when its time has come.
Tick ==
  /\ time < MaxTime
  /\ time' = time + 1
  /\ store' = [k \in Keys |-> IF store[k] # None /\ store[k].dropAt <= time' THEN None ELSE store[k]]
  /\ UNCHANGED <<status, isConnecting, client, calls, faults>>

Next ==
  \/ \E c \in Calls :
       \/ \E k \in Keys : Get(c, k) \/ Delete(c, k)
       \/ \E k \in Keys, t \in Ttls : Set(c, k, t)
       \/ \E t \in Ttls : SetMultiple(c, Keys, t)
       \/ GetMultiple(c, Keys) \/ Clear(c)
       \/ Runs(c) \/ Returns(c) \/ CommandFails(c)
  \/ \E cs \in SUBSET At("reply") : Lost(cs)
  \/ Ready \/ ConnectFails \/ Reconnects \/ Disconnect \/ Tick

Spec == Init /\ [][Next]_vars

-----------------------------------------------------------------------------
TypeOK ==
  /\ status \in {"wait", "connecting", "ready", "closed", "end"}
  /\ isConnecting \in BOOLEAN /\ client \in BOOLEAN
  /\ \A k \in Held : store[k].expiresAt \in Nat /\ store[k].dropAt > time
  /\ \A c \in Calls : calls[c] = None \/ calls[c].step \in {"connect", "runs", "reply"}

\* connect returns at once while the flag is set, so a flag that outlived its
\* attempt would keep RedisClient from ever connecting again: whatever ends an
\* attempt clears it, and only an attempt sets it.
ConnectingMeansConnecting == isConnecting => status = "connecting"

\* An entry is readable for the time to live its caller asked for: Redis, which
\* counts whole seconds from another moment, and perhaps twice, never drops a
\* key before the expiry its entry names.
NeverDroppedEarly == \A k \in Held : store[k].dropAt >= store[k].expiresAt
=============================================================================
