------------------------- MODULE SubscriptionCache -------------------------
(***************************************************************************)
(* The cache-aside reader and writer of one user's subscription            *)
(* (branding/open-webui/turtle_chat/subscription_cache.py).  PostgreSQL    *)
(* holds the subscription; Redis holds, per role, a snapshot with a TTL    *)
(* and one lock; several processes read and change it.                     *)
(*                                                                         *)
(* A tick is longer than any Redis command.  Database work may take up to  *)
(* MaxWork ticks.                                                          *)
(***************************************************************************)
EXTENDS Integers, FiniteSets

CONSTANTS
    Callers,    \* calls of get() and of _mutate()
    Mutators,   \* those of _mutate()
    ProcessOf,  \* the process each call runs in
    Roles,      \* a snapshot is kept for each role
    RoleOf,     \* the role each call asks for
    MaxTTL,     \* the longest TTL _ttl() gives a snapshot
    LockTTL,    \* lock_ttl_ms
    LockWait,   \* lock_wait_ms
    MaxWork,    \* how long a database read or write may take
    MaxVersion, \* bound: changes of the subscription
    MaxFaults   \* bound: failed commands, cancellations, crashes

Processes == {ProcessOf[c] : c \in Callers}
Versions == 0..MaxVersion
Bound == MaxWork + MaxTTL

ASSUME CacheAssumption ==
    /\ Mutators \subseteq Callers
    /\ RoleOf \in [Callers -> Roles]
    /\ MaxTTL \in Nat \ {0} /\ LockTTL \in Nat \ {0} /\ LockWait \in Nat
    /\ MaxWork \in Nat /\ MaxVersion \in Nat /\ MaxFaults \in Nat

\* The lock is free, or held under a token nobody knows (its SET was answered
\* too late, or its holder is dead).
Free == "free"
Lost == "lost"

ASSUME TokenAssumption == {Free, Lost} \cap Callers = {}

VARIABLES
    version,  \* the committed subscription
    retired,  \* how long ago each version was replaced
    cached,   \* the version each role's snapshot shows
    ttl,      \* time each snapshot has left, 0 when there is none
    lock,     \* whose token the lock key holds
    lockTTL,  \* time the lock key has left
    pc,       \* where each call is
    online,   \* calls whose `redis` is not None
    token,    \* calls that hold a lock token
    renewing, \* calls whose lock renewer runs
    payload,  \* the version a call has read or written
    timer,    \* time a call has waited, or its database work has taken
    backoff,  \* processes that leave Redis alone for a second
    detached, \* cancelled mutations whose database thread still runs
    faults

redisVars == <<cached, ttl, lock, lockTTL>>
vars == <<version, retired, redisVars, pc, online, token, renewing, payload,
          timer, backoff, detached, faults>>

PC == {"idle", "lookup", "queue", "recheck", "locking", "filling", "relocking",
       "reading", "read", "contend", "mutating", "committed", "publish", "release"}

\* Database work; and waits for another call.
Working == {"reading", "read", "mutating"}
Waiting == {"queue", "filling", "contend"}

\* Between acquiring and releasing the asyncio lock of a cache key.
Local == {"recheck", "locking", "filling", "relocking", "reading", "read", "release"}

Init ==
    /\ version = 0
    /\ retired = [v \in Versions |-> 0]
    /\ cached = [r \in Roles |-> 0]
    /\ ttl = [r \in Roles |-> 0]
    /\ lock = Free
    /\ lockTTL = 0
    /\ pc = [c \in Callers |-> "idle"]
    /\ online = {}
    /\ token = {}
    /\ renewing = {}
    /\ payload = [c \in Callers |-> 0]
    /\ timer = [c \in Callers |-> 0]
    /\ backoff = {}
    /\ detached = {}
    /\ faults = 0

Goto(c, label) == pc' = [pc EXCEPT ![c] = label]
Begin(c, label) == Goto(c, label) /\ timer' = [timer EXCEPT ![c] = 0]
Succeeds(c) == backoff' = backoff \ {ProcessOf[c]}

\* A command raised or timed out: the process backs off.
Fails(c) ==
    /\ faults < MaxFaults
    /\ faults' = faults + 1
    /\ backoff' = backoff \cup {ProcessOf[c]}

Hit(c) == ttl[RoleOf[c]] > 0

\* `finally`: stop the renewer, then give the token back if there is one.
End(c) ==
    /\ Begin(c, IF c \in token THEN "release" ELSE "idle")
    /\ renewing' = renewing \ {c}
    /\ payload' = [payload EXCEPT ![c] = 0]

dbVars == <<version, retired>>
callVars == <<online, token, renewing, payload>>

-----------------------------------------------------------------------------
(* The lock. *)

\* Mutants: SET PX without NX, and SET NX without PX.
TakeLockAnyway(c) ==
    /\ lock' = c
    /\ lockTTL' = LockTTL
    /\ token' = token \cup {c}
    /\ renewing' = renewing \cup {c}

TakeLockForGood(c) ==
    /\ lock = Free
    /\ lock' = c
    /\ lockTTL' = 0
    /\ token' = token \cup {c}
    /\ UNCHANGED renewing

\* SET NX PX; the winner starts a renewer.
TakeLock(c) ==
    /\ lock = Free
    /\ lock' = c
    /\ lockTTL' = LockTTL
    /\ token' = token \cup {c}
    /\ renewing' = renewing \cup {c}

\* The command failed, before or after it took effect: no token, no Redis.
TakeLockFails(c) ==
    /\ Fails(c)
    /\ online' = online \ {c}
    /\ \/ lock = Free /\ lock' = Lost /\ lockTTL' = LockTTL
       \/ UNCHANGED <<lock, lockTTL>>
    /\ UNCHANGED <<token, renewing>>

\* Compare and delete.
DropLock(c) ==
    IF lock = c THEN lock' = Free /\ lockTTL' = 0 ELSE UNCHANGED <<lock, lockTTL>>

\* The caller forgets its token; the key stays until its TTL.
LoseLock(c) ==
    /\ lock' = IF lock = c THEN Lost ELSE lock
    /\ UNCHANGED lockTTL

Release(c) ==
    /\ pc[c] = "release"
    /\ Goto(c, "idle")
    /\ token' = token \ {c}
    /\ \/ DropLock(c) /\ Succeeds(c) /\ UNCHANGED faults
       \/ Fails(c) /\ (DropLock(c) \/ LoseLock(c))
    /\ UNCHANGED <<dbVars, cached, ttl, online, renewing, payload, timer, detached>>

\* One failed renewal ends the renewer.
RenewFails(c) ==
    /\ c \in renewing
    /\ renewing' = renewing \ {c}
    /\ Fails(c)
    /\ UNCHANGED <<dbVars, redisVars, pc, online, token, payload, timer, detached>>

-----------------------------------------------------------------------------
(* get() *)

Get(c) ==
    /\ c \notin Mutators /\ pc[c] = "idle"
    /\ IF ProcessOf[c] \in backoff
       THEN Goto(c, "queue") /\ online' = online \ {c}
       ELSE Goto(c, "lookup") /\ online' = online \cup {c}
    /\ UNCHANGED <<dbVars, redisVars, token, renewing, payload, timer, backoff, detached, faults>>

Lookup(c) ==
    /\ pc[c] = "lookup"
    /\ \/ /\ Succeeds(c)
          /\ Goto(c, IF Hit(c) THEN "idle" ELSE "queue")
          /\ UNCHANGED <<online, faults>>
       \/ /\ Fails(c)
          /\ Goto(c, "queue")
          /\ online' = online \ {c}
    /\ UNCHANGED <<dbVars, redisVars, token, renewing, payload, timer, detached>>

\* The asyncio lock of the process and the cache key is taken.
Busy(c) ==
    \E d \in Callers \ (Mutators \cup {c}) :
        /\ ProcessOf[d] = ProcessOf[c] /\ RoleOf[d] = RoleOf[c]
        /\ pc[d] \in Local

\* Only one call per process and role goes on; without Redis, to the database.
EnterLocal(c) ==
    /\ pc[c] = "queue" /\ ~Busy(c)
    /\ Begin(c, IF c \in online THEN "recheck" ELSE "reading")
    /\ UNCHANGED <<dbVars, redisVars, callVars, backoff, detached, faults>>

\* A failed second lookup does not keep the call from trying the lock.
Recheck(c) ==
    /\ pc[c] = "recheck"
    /\ \/ Succeeds(c) /\ Goto(c, IF Hit(c) THEN "idle" ELSE "locking") /\ UNCHANGED faults
       \/ Fails(c) /\ Goto(c, "locking")
    /\ UNCHANGED <<dbVars, redisVars, callVars, timer, detached>>

\* The second attempt goes to the database whoever holds the lock.
Lock(c) ==
    /\ \/ pc[c] \in {"locking", "relocking"} /\ Begin(c, "reading") /\ TakeLock(c)
          /\ Succeeds(c) /\ UNCHANGED <<online, faults>>
       \/ pc[c] = "locking" /\ lock # Free /\ Begin(c, "filling")
          /\ Succeeds(c) /\ UNCHANGED <<lock, lockTTL, token, renewing, online, faults>>
       \/ pc[c] = "relocking" /\ lock # Free /\ Begin(c, "reading")
          /\ Succeeds(c) /\ UNCHANGED <<lock, lockTTL, token, renewing, online, faults>>
       \/ pc[c] \in {"locking", "relocking"} /\ Begin(c, "reading") /\ TakeLockFails(c)
    /\ UNCHANGED <<dbVars, cached, ttl, payload, detached>>

\* _wait_for_fill: the lock holder is expected to fill the cache.
Fill(c) ==
    /\ pc[c] = "filling"
    /\ \/ Hit(c) /\ Goto(c, "idle") /\ Succeeds(c) /\ UNCHANGED faults
       \/ timer[c] >= LockWait /\ Goto(c, "relocking") /\ UNCHANGED <<backoff, faults>>
       \/ Fails(c) /\ UNCHANGED pc
    /\ UNCHANGED <<dbVars, redisVars, callVars, timer, detached>>

\* The database thread reads; or it fails, and the error is the answer.
Read(c) ==
    /\ pc[c] = "reading"
    /\ \/ /\ Goto(c, "read")
          /\ payload' = [payload EXCEPT ![c] = version]
          /\ UNCHANGED <<renewing, timer, faults>>
       \/ /\ faults < MaxFaults /\ faults' = faults + 1
          /\ End(c)
    /\ UNCHANGED <<dbVars, redisVars, online, token, backoff, detached>>

\* Mutant: the subscription's next boundary replaces the longest TTL.
SetCachedToBoundary(c) ==
    /\ cached' = [cached EXCEPT ![RoleOf[c]] = payload[c]]
    /\ \E left \in 1..MaxTTL + 1 : ttl' = [ttl EXCEPT ![RoleOf[c]] = left]

\* SET with the TTL of _ttl(): status, the next boundary and jitter shorten it.
SetCached(c) ==
    /\ cached' = [cached EXCEPT ![RoleOf[c]] = payload[c]]
    /\ \E left \in 1..MaxTTL : ttl' = [ttl EXCEPT ![RoleOf[c]] = left]

\* Both kinds of call end by writing what they have seen.
Store(c) ==
    /\ pc[c] \in {"read", "publish"}
    /\ End(c)
    /\ \/ c \in online /\ SetCached(c) /\ Succeeds(c) /\ UNCHANGED faults
       \/ c \in online /\ Fails(c) /\ (SetCached(c) \/ UNCHANGED <<cached, ttl>>)
       \/ c \notin online /\ UNCHANGED <<cached, ttl, backoff, faults>>
    /\ UNCHANGED <<dbVars, lock, lockTTL, online, token, detached>>

-----------------------------------------------------------------------------
(* _mutate() *)

\* Changes that may still be committed.
Pending == detached \cup {c \in Callers : pc[c] \in {"contend", "mutating"}}

Mutate(c) ==
    /\ c \in Mutators /\ pc[c] = "idle" /\ c \notin detached
    /\ version + Cardinality(Pending) < MaxVersion
    /\ IF ProcessOf[c] \in backoff
       THEN Begin(c, "mutating") /\ online' = online \ {c}
       ELSE Begin(c, "contend") /\ online' = online \cup {c}
    /\ UNCHANGED <<dbVars, redisVars, token, renewing, payload, backoff, detached, faults>>

\* The change is refused if the lock stays taken, and made without a lock if
\* Redis fails.
Contend(c) ==
    /\ pc[c] = "contend"
    /\ \/ TakeLock(c) /\ Begin(c, "mutating") /\ Succeeds(c) /\ UNCHANGED <<online, faults>>
       \/ TakeLockFails(c) /\ Begin(c, "mutating")
       \/ /\ timer[c] >= LockTTL + LockWait
          /\ Goto(c, "idle")
          /\ UNCHANGED <<lock, lockTTL, online, token, renewing, timer, backoff, faults>>
    /\ UNCHANGED <<dbVars, cached, ttl, payload, detached>>

NewVersion ==
    /\ version < MaxVersion
    /\ version' = version + 1

Commit(c) ==
    /\ pc[c] = "mutating"
    /\ \/ /\ NewVersion
          /\ payload' = [payload EXCEPT ![c] = version']
          /\ Goto(c, "committed")
          /\ UNCHANGED <<renewing, timer, faults>>
       \/ /\ faults < MaxFaults /\ faults' = faults + 1
          /\ End(c)
          /\ UNCHANGED version
    /\ UNCHANGED <<retired, redisVars, online, token, backoff, detached>>

\* Mutant: nothing is deleted.
KeepAll == UNCHANGED <<cached, ttl>>

\* DEL of the snapshots of every role.
Forget ==
    /\ ttl' = [r \in Roles |-> 0]
    /\ cached' = [r \in Roles |-> 0]

\* invalidate() asks for Redis again and gives up after three attempts.
Invalidate(c) ==
    /\ pc[c] = "committed"
    /\ Goto(c, "publish")
    /\ \/ ProcessOf[c] \in backoff /\ UNCHANGED <<cached, ttl, backoff, faults>>
       \/ ProcessOf[c] \notin backoff /\ Forget /\ Succeeds(c) /\ UNCHANGED faults
       \/ ProcessOf[c] \notin backoff /\ Fails(c) /\ (Forget \/ UNCHANGED <<cached, ttl>>)
    /\ UNCHANGED <<dbVars, lock, lockTTL, callVars, timer, detached>>

\* The thread of a cancelled mutation commits all the same.
LateCommit(c) ==
    /\ c \in detached
    /\ NewVersion
    /\ detached' = detached \ {c}
    /\ UNCHANGED <<retired, redisVars, pc, callVars, timer, backoff, faults>>

-----------------------------------------------------------------------------
(* Cancellation, crashes, time. *)

\* The call is cancelled.  A SET NX may have been carried out, a write may
\* not have been, and a release that is cut off leaves the key behind.
Cancel(c) ==
    /\ faults < MaxFaults /\ faults' = faults + 1
    /\ \/ /\ pc[c] \notin {"idle", "release"}
          /\ End(c)
          /\ \/ /\ pc[c] \in {"locking", "relocking", "contend"} /\ lock = Free
                /\ lock' = Lost /\ lockTTL' = LockTTL
             \/ UNCHANGED <<lock, lockTTL>>
          /\ UNCHANGED token
       \/ /\ pc[c] = "release"
          /\ Goto(c, "idle")
          /\ LoseLock(c)
          /\ token' = token \ {c}
          /\ UNCHANGED <<renewing, payload, timer>>
    /\ detached' = IF pc[c] = "mutating" THEN detached \cup {c} ELSE detached
    /\ UNCHANGED <<dbVars, cached, ttl, online, backoff>>

Crash(p) ==
    /\ faults < MaxFaults /\ faults' = faults + 1
    /\ LET gone == {c \in Callers : ProcessOf[c] = p} IN
       /\ pc' = [c \in Callers |-> IF c \in gone THEN "idle" ELSE pc[c]]
       /\ token' = token \ gone
       /\ renewing' = renewing \ gone
       /\ detached' = detached \ gone
       /\ lock' = IF lock \in gone THEN Lost ELSE lock
       /\ payload' = [c \in Callers |-> IF c \in gone THEN 0 ELSE payload[c]]
       /\ timer' = [c \in Callers |-> IF c \in gone THEN 0 ELSE timer[c]]
    /\ backoff' = backoff \ {p}
    /\ UNCHANGED <<dbVars, cached, ttl, lockTTL, online>>

Quiet ==
    \A c \in Callers :
        /\ pc[c] \in Working \cup Waiting \cup {"idle"}
        /\ pc[c] \in Working => timer[c] < MaxWork
        /\ pc[c] = "queue" => Busy(c)
        /\ pc[c] = "filling" => timer[c] < LockWait /\ ~Hit(c)
        /\ pc[c] = "contend" => timer[c] < LockTTL + LockWait /\ lock # Free

Less(n) == IF n > 0 THEN n - 1 ELSE 0

Tick ==
    /\ Quiet
    /\ retired' = [v \in Versions |-> IF v < version /\ retired[v] <= Bound
                                      THEN retired[v] + 1 ELSE retired[v]]
    /\ ttl' = [r \in Roles |-> Less(ttl[r])]
    /\ cached' = [r \in Roles |-> IF ttl[r] <= 1 THEN 0 ELSE cached[r]]
    /\ IF lock \in renewing
       THEN lockTTL' = LockTTL /\ UNCHANGED lock
       ELSE lockTTL' = Less(lockTTL) /\ lock' = IF lockTTL = 1 THEN Free ELSE lock
    /\ timer' = [c \in Callers |-> IF pc[c] \in Working \cup {"filling", "contend"}
                                   THEN timer[c] + 1 ELSE timer[c]]
    /\ backoff' = {}
    /\ UNCHANGED <<version, pc, online, token, renewing, payload, detached, faults>>

Step(c) ==
    \/ Lookup(c) \/ EnterLocal(c) \/ Recheck(c) \/ Lock(c) \/ Fill(c) \/ Read(c)
    \/ Store(c) \/ Release(c) \/ Contend(c) \/ Commit(c) \/ Invalidate(c)
    \/ LateCommit(c)

Next ==
    \/ \E c \in Callers :
          Get(c) \/ Mutate(c) \/ Step(c) \/ RenewFails(c) \/ Cancel(c)
    \/ \E p \in Processes : Crash(p)
    \/ Tick

Spec == Init /\ [][Next]_vars

\* Calls that have begun go on.  The clock is not a process that calls could
\* starve: no behaviour fits endlessly many calls between two ticks.
FairSpec == Spec /\ []<><<Tick>>_vars /\ \A c \in Callers : WF_vars(Step(c))

-----------------------------------------------------------------------------
(* What the cache promises. *)

TypeOK ==
    /\ version \in Versions
    /\ retired \in [Versions -> Nat]
    /\ cached \in [Roles -> Versions]
    /\ ttl \in [Roles -> Nat]
    /\ lock \in Callers \cup {Free, Lost}
    /\ lockTTL \in Nat
    /\ pc \in [Callers -> PC]
    /\ online \in SUBSET Callers
    /\ token \in SUBSET Callers
    /\ renewing \in SUBSET Callers
    /\ payload \in [Callers -> Versions]
    /\ timer \in [Callers -> Nat]
    /\ backoff \in SUBSET Processes
    /\ detached \in SUBSET Callers
    /\ faults \in Nat

\* Whatever fails, is cancelled or dies: no reader is shown a version that was
\* replaced longer ago than one database read and one snapshot can last.
StaleIsBounded ==
    \A r \in Roles :
        ttl[r] > 0 /\ cached[r] < version => retired[cached[r]] < Bound

\* With healthy Redis and patient readers a change shows at once: a snapshot of
\* an older version exists only between a commit and its invalidation.
Coherent ==
    \A r \in Roles :
        ttl[r] > 0 /\ cached[r] # version =>
            \E c \in Callers : lock = c /\ pc[c] = "committed"

\* With healthy Redis and patient readers the database does one piece of work
\* at a time for a user, over all processes.
SingleFlight == \A c, d \in Callers : pc[c] \in Working /\ pc[d] \in Working => c = d

\* The lock comes free again and again, whoever held it and however it ended.
LockGivenBack == lock # Free ~> lock = Free
=============================================================================
