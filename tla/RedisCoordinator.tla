-------------------------- MODULE RedisCoordinator --------------------------
(***************************************************************************)
(* The Redis backend of ChatConcurrencyCoordinator                         *)
(* (branding/open-webui/turtle_chat/concurrency.py): the four Lua scripts, *)
(* which Redis runs atomically, and the coroutines that call them, which   *)
(* can be cancelled, fail or die between any two of their awaits.          *)
(*                                                                         *)
(* Time is counted in ticks.  Every TTL, score and deadline is kept as the *)
(* time it has left.  A tick is long next to one Redis round trip, so time *)
(* passes only when every coroutine is parked (waiting for capacity, or    *)
(* running its request) and no heartbeat is due.                           *)
(***************************************************************************)
EXTENDS Integers, FiniteSets

CONSTANTS
    Callers,      \* acquire() calls, each one coroutine
    Ids,          \* request identifiers
    IdsOf,        \* the identifiers each call may come with; a repeated send reuses one
    Keys,         \* the scopes: global, users, groups, providers, account pools
    FifoKeys,     \* user, group and account-pool scopes (KEYS[3], [4] and [6])
    KeysOf,       \* the five scopes of each identifier
    Limit,        \* the highest limit of each scope
    Offers,       \* the limits one admission attempt may be given
    Lease,        \* lease_seconds
    StatusTTL,    \* status_ttl_seconds
    QueueTimeout, \* queue_timeout_seconds
    Beat,         \* the heartbeat interval
    MaxRun,       \* how long a request may run
    MaxFaults     \* bound: Redis errors, lost replies, failed lookups, crashes

\* The heartbeat interval is min(60, lease_seconds // 3) but never below 5, so
\* Beat < Lease is what a deployment must give it to keep a lease alive.
ASSUME CoordinatorAssumption ==
    /\ IdsOf \in [Callers -> SUBSET Ids]
    /\ FifoKeys \subseteq Keys
    /\ KeysOf \in [Ids -> SUBSET Keys]
    /\ Limit \in [Keys -> Nat]
    /\ Offers \subseteq [Keys -> Nat]
    /\ \A o \in Offers, k \in Keys : o[k] <= Limit[k]
    /\ Lease \in Nat /\ StatusTTL \in Nat \ {0} /\ QueueTimeout \in Nat
    /\ Beat \in Nat \ {0} /\ Beat < Lease
    /\ MaxRun \in Nat /\ MaxFaults \in Nat
    /\ IsFiniteSet(Ids) /\ IsFiniteSet(Callers)

VARIABLES
    \* Redis
    state,     \* meta hash: "none" when the key does not exist
    metaTTL,   \* time the meta hash has left
    sequence,  \* the INCR counter
    ticket,    \* score of an identifier in the wait sets
    wait,      \* wait:<scope> sorted sets
    member,    \* active:<scope> sorted sets
    lease,     \* score of an identifier in the active sets, as time left
    keyTTL,    \* time an active:<scope> key has left, 0 when it has no TTL
    \* the web processes
    pc,        \* where each call is
    deadline,  \* time left until the queue deadline
    beat,      \* time left until the next heartbeat, Off when none runs
    runtime,   \* time the request has left to run
    woken,     \* calls whose wake-up event or retry timer is about to fire
    deferred,  \* calls whose release waits in the deferred batch
    late,      \* enqueue commands on their way though their call gave up
    idOf,      \* the identifier of each call: the client's, or a fresh one
    faults,    \* faults so far
    \* history, for the properties only
    lapsed,    \* identifiers whose slot in a scope fell with the scope's key
    crossed    \* calls another call of the same identifier took something from

redisVars  == <<state, metaTTL, sequence, ticket, wait, member, lease, keyTTL, lapsed>>
callerVars == <<pc, deadline, beat, runtime, woken, deferred, late, idOf, crossed>>
vars == <<redisVars, callerVars, faults>>

Off == -1
ActiveTTL == Lease + StatusTTL

\* Mutant: the record of a queued request is given no time to wait.
MetaTTLWithoutQueue == StatusTTL

MetaTTL == QueueTimeout + Lease + StatusTTL

PC == {"idle", "enqueue", "enqueued", "rejected", "resolve", "granted",
       "refused", "wait", "cleanup", "running", "closing", "done", "dead"}

\* Awaits that end by themselves within one Redis round trip.
Transient == {"enqueue", "enqueued", "rejected", "resolve", "granted",
              "refused", "cleanup", "closing"}

\* The awaits of _acquire_redis at which a cancellation or an error can land.
Interruptible == {"enqueue", "enqueued", "rejected", "resolve", "granted", "refused"}

\* Members with an expired score are invisible: every count follows a
\* ZREMRANGEBYSCORE of the same key.
Counted(k) == {r \in member[k] : lease[r] > 0}

Init ==
    /\ state = [r \in Ids |-> "none"]
    /\ metaTTL = [r \in Ids |-> 0]
    /\ sequence = 0
    /\ ticket = [r \in Ids |-> 0]
    /\ wait = [k \in Keys |-> {}]
    /\ member = [k \in Keys |-> {}]
    /\ lease = [r \in Ids |-> 0]
    /\ keyTTL = [k \in Keys |-> 0]
    /\ pc = [c \in Callers |-> "idle"]
    /\ deadline = [c \in Callers |-> 0]
    /\ beat = [c \in Callers |-> Off]
    /\ runtime = [c \in Callers |-> 0]
    /\ woken = {}
    /\ deferred = {}
    /\ late = {}
    /\ idOf \in {f \in [Callers -> Ids] : \A c \in Callers : f[c] \in IdsOf[c]}
    /\ faults = 0
    /\ lapsed = [k \in Keys |-> {}]
    /\ crossed = {}

Goto(c, label) == pc' = [pc EXCEPT ![c] = label]

\* PUBLISH capacity wakes calls that poll for admission: those whose listener
\* hears it and that are among the first of their account pool.  A call clears
\* its event before an attempt, so an event set during the attempt is kept.
Polling == {"resolve", "refused", "wait"}

Publish(c) ==
    \E heard \in SUBSET {d \in Callers \ {c} : pc[d] \in Polling} :
        woken' = woken \cup heard

-----------------------------------------------------------------------------
(* The Lua scripts. *)

\* _ENQUEUE_SCRIPT: an identifier with a meta hash is refused (-2).
EnqueueScript(r) ==
    /\ state[r] = "none"
    /\ sequence' = sequence + 1
    /\ state' = [state EXCEPT ![r] = "queued"]
    /\ metaTTL' = [metaTTL EXCEPT ![r] = MetaTTL]
    /\ ticket' = [ticket EXCEPT ![r] = sequence + 1]
    /\ wait' = [k \in Keys |-> IF k \in KeysOf[r] THEN wait[k] \cup {r} ELSE wait[k]]
    /\ UNCHANGED <<member, lease, keyTTL, lapsed>>

\* clean_wait: drop the members at the head whose meta is not queued any more.
CleanWait(k) == {r \in wait[k] : \E q \in wait[k] : ticket[q] <= ticket[r] /\ state[q] = "queued"}

\* Mutant: the script asks for a rank, but not for the first one.
IsRanked(r, queue) == r \in queue

\* ZRANK = 0
IsHead(r, queue) == r \in queue /\ \A q \in queue : ticket[r] <= ticket[q]

\* ZREMRANGEBYSCORE on the caller's five active sets, always the first step.
Pruned(r) == [k \in Keys |-> IF k \in KeysOf[r] THEN Counted(k) ELSE member[k]]

\* Redis drops a sorted set, and its TTL with it, once it is empty.
TTLOf(sets) == [k \in Keys |-> IF sets[k] = {} THEN 0 ELSE keyTTL[k]]

\* Mutant: the counts are compared with > instead of >=.
AdmissibleOneMore(r, offer) ==
    /\ state[r] = "queued"
    /\ \A k \in KeysOf[r] \cap FifoKeys : IsHead(r, CleanWait(k))
    /\ \A k \in KeysOf[r] : Cardinality(Counted(k)) <= offer[k]

\* Next in line at the three first-come scopes, and room at all five.
Admissible(r, offer) ==
    /\ state[r] = "queued"
    /\ \A k \in KeysOf[r] \cap FifoKeys : IsHead(r, CleanWait(k))
    /\ \A k \in KeysOf[r] : Cardinality(Counted(k)) < offer[k]

TryAdmitGrant(r, offer) ==
    /\ Admissible(r, offer)
    /\ wait' = [k \in Keys |-> IF k \in KeysOf[r] THEN CleanWait(k) \ {r} ELSE wait[k]]
    /\ member' = [k \in Keys |-> IF k \in KeysOf[r] THEN Counted(k) \cup {r} ELSE member[k]]
    /\ lease' = [lease EXCEPT ![r] = Lease]
    /\ keyTTL' = [k \in Keys |-> IF k \in KeysOf[r] THEN ActiveTTL ELSE keyTTL[k]]
    /\ state' = [state EXCEPT ![r] = "admitted"]
    /\ metaTTL' = [metaTTL EXCEPT ![r] = ActiveTTL]
    /\ lapsed' = [k \in Keys |-> lapsed[k] \ {r}]
    /\ UNCHANGED <<sequence, ticket>>

\* The script answers 1 to a caller whose request is admitted already, and
\* refuses one that is neither admitted nor next in line.
TryAdmitAgain(r) ==
    /\ state[r] = "admitted"
    /\ member' = Pruned(r)
    /\ keyTTL' = TTLOf(Pruned(r))
    /\ UNCHANGED <<state, metaTTL, sequence, ticket, wait, lease, lapsed>>

TryAdmitRefuse(r, offer) ==
    /\ state[r] # "admitted" /\ ~Admissible(r, offer)
    /\ member' = Pruned(r)
    /\ keyTTL' = TTLOf(Pruned(r))
    /\ wait' = [k \in Keys |-> IF state[r] = "queued" /\ k \in KeysOf[r]
                                  THEN CleanWait(k) ELSE wait[k]]
    /\ UNCHANGED <<state, metaTTL, sequence, ticket, lease, lapsed>>

\* Mutant: the loop over the keys stops after the wait sets.
ReleaseWaitOnly(r) ==
    /\ wait' = [k \in Keys |-> IF k \in KeysOf[r] THEN wait[k] \ {r} ELSE wait[k]]
    /\ state' = [state EXCEPT ![r] = IF @ = "none" THEN @ ELSE "ended"]
    /\ metaTTL' = [metaTTL EXCEPT ![r] = IF state[r] = "none" THEN 0 ELSE StatusTTL]
    /\ UNCHANGED <<sequence, ticket, member, lease, keyTTL, lapsed>>

\* _RELEASE_SCRIPT: leaves every set, whoever put it there; the meta hash is
\* given a terminal state only if it still exists.
ReleaseScript(r) ==
    /\ wait' = [k \in Keys |-> IF k \in KeysOf[r] THEN wait[k] \ {r} ELSE wait[k]]
    /\ member' = [k \in Keys |-> IF k \in KeysOf[r] THEN member[k] \ {r} ELSE member[k]]
    /\ keyTTL' = TTLOf(member')
    /\ lease' = [lease EXCEPT ![r] = 0]
    /\ state' = [state EXCEPT ![r] = IF @ = "none" THEN @ ELSE "ended"]
    /\ metaTTL' = [metaTTL EXCEPT ![r] = IF state[r] = "none" THEN 0 ELSE StatusTTL]
    /\ lapsed' = [k \in Keys |-> lapsed[k] \ {r}]
    /\ UNCHANGED <<sequence, ticket>>

\* Mutant: a heartbeat that renews only the record.
HeartbeatRecordOnly(r) ==
    /\ state[r] = "admitted"
    /\ metaTTL' = [metaTTL EXCEPT ![r] = ActiveTTL]
    /\ UNCHANGED <<state, sequence, ticket, wait, member, lease, keyTTL, lapsed>>

\* _HEARTBEAT_SCRIPT: renews score and meta, and leaves the TTL of the active
\* keys as it is.
HeartbeatScript(r) ==
    /\ state[r] = "admitted"
    /\ member' = [k \in Keys |-> IF k \in KeysOf[r] THEN member[k] \cup {r} ELSE member[k]]
    /\ lease' = [lease EXCEPT ![r] = Lease]
    /\ metaTTL' = [metaTTL EXCEPT ![r] = ActiveTTL]
    /\ UNCHANGED <<state, sequence, ticket, wait, keyTTL, lapsed>>

-----------------------------------------------------------------------------
(* One acquire() call, from its first await to the release of its lease. *)

\* The other calls that came with the identifier of c.
Namesakes(c) == {d \in Callers \ {c} : idOf[d] = idOf[c]}

\* Whose place or slot it is, the scripts cannot tell: a release takes it from
\* every call of the identifier, and an earlier call that lost its place polls
\* on and may be admitted on the place of a later one.
Queueing(c) == pc[c] \in Polling \cup {"enqueued"}

TakesFromNamesakes(c) ==
    crossed' = crossed \cup {d \in Namesakes(c) : Queueing(d) \/ pc[d] \in {"granted", "running"}}

SharesItsPlace(c) ==
    crossed' = IF \E d \in Namesakes(c) : Queueing(d) THEN crossed \cup {c} ELSE crossed

\* The call registers its wake-up event and sends the enqueue script.
Start(c) ==
    /\ pc[c] = "idle"
    /\ Goto(c, "enqueue")
    /\ UNCHANGED <<redisVars, deadline, beat, runtime, woken, deferred, late, idOf, crossed, faults>>

Enqueue(c) ==
    /\ pc[c] = "enqueue"
    /\ \/ EnqueueScript(idOf[c]) /\ Goto(c, "enqueued") /\ SharesItsPlace(c)
       \/ /\ state[idOf[c]] # "none"
          /\ Goto(c, "rejected")
          /\ UNCHANGED <<redisVars, crossed>>
    /\ UNCHANGED <<deadline, beat, runtime, woken, deferred, late, faults>>

\* A used identifier raises ChatConcurrencyError and leaves no trace.
EnqueueReply(c) ==
    /\ \/ /\ pc[c] = "enqueued"
          /\ Goto(c, "resolve")
          /\ deadline' = [deadline EXCEPT ![c] = QueueTimeout]
       \/ pc[c] = "rejected" /\ Goto(c, "done") /\ UNCHANGED deadline
    /\ UNCHANGED <<redisVars, beat, runtime, woken, deferred, late, crossed, faults>>

\* _refresh_dynamic_limits returned limits, and the admission script ran on
\* them.
TryAdmit(c, offer) ==
    /\ pc[c] = "resolve"
    /\ \/ TryAdmitGrant(idOf[c], offer) /\ Goto(c, "granted") /\ Publish(c)
       \/ TryAdmitAgain(idOf[c]) /\ Goto(c, "granted") /\ UNCHANGED woken
       \/ TryAdmitRefuse(idOf[c], offer) /\ Goto(c, "refused") /\ UNCHANGED woken
    /\ UNCHANGED <<deadline, beat, runtime, deferred, late, crossed, faults>>

\* The resolver raises ChatCoordinatorUnavailable (the capacity endpoint did
\* not answer): acquire() re-raises it and releases nothing.
ResolverFails(c) ==
    /\ faults < MaxFaults
    /\ pc[c] = "resolve"
    /\ Goto(c, "done")
    /\ woken' = woken \ {c}
    /\ faults' = faults + 1
    /\ UNCHANGED <<redisVars, deadline, beat, runtime, deferred, late, crossed>>

\* The lease is handed to the caller and its heartbeat starts.
Granted(c) ==
    /\ pc[c] = "granted"
    /\ Goto(c, "running")
    /\ beat' = [beat EXCEPT ![c] = Beat]
    /\ runtime' = [runtime EXCEPT ![c] = MaxRun]
    /\ woken' = woken \ {c}
    /\ UNCHANGED <<redisVars, deadline, deferred, late, crossed, faults>>

\* Every way out of the queue but admission: the event is unregistered and a
\* release goes into the deferred batch.
GiveUp(c) ==
    /\ Goto(c, "cleanup")
    /\ woken' = woken \ {c}
    /\ deferred' = deferred \cup {c}
    /\ UNCHANGED <<redisVars, deadline, beat, runtime, crossed>>

\* Mutants: a timeout that releases nothing, and a loop without a deadline.
RefusedSilently(c) ==
    /\ pc[c] = "refused"
    /\ Goto(c, IF deadline[c] > 0 THEN "wait" ELSE "done")
    /\ UNCHANGED <<redisVars, deadline, beat, runtime, woken, deferred, late, crossed, faults>>

RefusedForever(c) ==
    /\ pc[c] = "refused"
    /\ Goto(c, "wait")
    /\ UNCHANGED <<redisVars, deadline, beat, runtime, woken, deferred, late, crossed, faults>>

\* Refused: wait for an event or the retry timer, or time out.
Refused(c) ==
    /\ pc[c] = "refused"
    /\ \/ /\ deadline[c] > 0
          /\ Goto(c, "wait")
          /\ UNCHANGED <<redisVars, deadline, beat, runtime, woken, deferred, crossed>>
       \/ deadline[c] = 0 /\ GiveUp(c)
    /\ UNCHANGED <<late, faults>>

\* A capacity event, or min(5 s, time left) without one; the event is cleared.
Retry(c) ==
    /\ pc[c] = "wait"
    /\ c \in woken
    /\ Goto(c, "resolve")
    /\ woken' = woken \ {c}
    /\ UNCHANGED <<redisVars, deadline, beat, runtime, deferred, late, crossed, faults>>

\* asyncio.CancelledError at any await.
Cancel(c) ==
    /\ pc[c] \in Interruptible \cup {"wait"}
    /\ GiveUp(c)
    /\ UNCHANGED <<late, faults>>

\* Any other exception of a Redis command, whether or not the script ran.
CommandFails(c) ==
    /\ faults < MaxFaults
    /\ pc[c] \in Interruptible
    /\ GiveUp(c)
    /\ faults' = faults + 1
    /\ UNCHANGED late

\* The call gives up (cancelled, or its 5 s socket timeout) while its enqueue
\* command is still on its way to Redis, on another connection than the batch.
Overtaken(c) ==
    /\ faults < MaxFaults
    /\ pc[c] = "enqueue"
    /\ GiveUp(c)
    /\ late' = late \cup {c}
    /\ faults' = faults + 1

LateEnqueue(c) ==
    /\ c \in late
    /\ late' = late \ {c}
    /\ \/ EnqueueScript(idOf[c])
       \/ state[idOf[c]] # "none" /\ UNCHANGED redisVars
    /\ UNCHANGED <<pc, deadline, beat, runtime, woken, deferred, crossed, faults>>

\* A cancellation while the call awaits its release: the batch keeps it.
CancelAgain(c) ==
    /\ pc[c] = "cleanup"
    /\ Goto(c, "done")
    /\ UNCHANGED <<redisVars, deadline, beat, runtime, woken, deferred, late, crossed, faults>>

\* _flush_redis_releases: the batch releases the identifier, or the pipeline
\* fails and the release is dropped.  Either way the caller's await ends.
EndCleanup(c) ==
    /\ c \in deferred
    /\ deferred' = deferred \ {c}
    /\ Goto(c, IF pc[c] = "cleanup" THEN "done" ELSE pc[c])
    /\ UNCHANGED <<deadline, beat, runtime, late>>

Flush(c) ==
    /\ EndCleanup(c)
    /\ ReleaseScript(idOf[c]) /\ TakesFromNamesakes(c)
    /\ Publish(c)
    /\ UNCHANGED faults

FlushFails(c) ==
    /\ faults < MaxFaults
    /\ EndCleanup(c)
    /\ faults' = faults + 1
    /\ UNCHANGED <<redisVars, woken, crossed>>

\* ConcurrencyLease.release: marked released, heartbeat cancelled, and only
\* then the script is sent.
Finish(c) ==
    /\ pc[c] = "running"
    /\ Goto(c, "closing")
    /\ beat' = [beat EXCEPT ![c] = Off]
    /\ runtime' = [runtime EXCEPT ![c] = 0]
    /\ UNCHANGED <<redisVars, deadline, woken, deferred, late, crossed, faults>>

Release(c) ==
    /\ pc[c] = "closing"
    /\ ReleaseScript(idOf[c]) /\ TakesFromNamesakes(c)
    /\ Publish(c)
    /\ Goto(c, "done")
    /\ UNCHANGED <<deadline, beat, runtime, deferred, late, faults>>

\* The release raised or was cancelled; the lease is marked released and is
\* never tried again.
ReleaseFails(c) ==
    /\ faults < MaxFaults
    /\ pc[c] = "closing"
    /\ Goto(c, "done")
    /\ faults' = faults + 1
    /\ UNCHANGED <<redisVars, deadline, beat, runtime, woken, deferred, late, crossed>>

\* One turn of _heartbeat_loop.  It ends for good when the lease is not
\* admitted any more, and at the first exception.
Heartbeat(c) ==
    /\ beat[c] = 0
    /\ \/ HeartbeatScript(idOf[c]) /\ beat' = [beat EXCEPT ![c] = Beat]
       \/ /\ state[idOf[c]] # "admitted"
          /\ beat' = [beat EXCEPT ![c] = Off]
          /\ UNCHANGED redisVars
    /\ UNCHANGED <<pc, deadline, runtime, woken, deferred, late, crossed, faults>>

HeartbeatFails(c) ==
    /\ faults < MaxFaults
    /\ beat[c] = 0
    /\ beat' = [beat EXCEPT ![c] = Off]
    /\ faults' = faults + 1
    /\ UNCHANGED <<redisVars, pc, deadline, runtime, woken, deferred, late, crossed>>

\* The web process dies with the call, its heartbeat and its queued release.
Crash(c) ==
    /\ faults < MaxFaults
    /\ pc[c] \notin {"idle", "dead"}
    /\ pc[c] = "done" => c \in deferred
    /\ Goto(c, "dead")
    /\ beat' = [beat EXCEPT ![c] = Off]
    /\ runtime' = [runtime EXCEPT ![c] = 0]
    /\ woken' = woken \ {c}
    /\ deferred' = deferred \ {c}
    /\ faults' = faults + 1
    /\ UNCHANGED <<redisVars, deadline, late, crossed>>

-----------------------------------------------------------------------------
(* Time. *)

Less(n) == IF n > 0 THEN n - 1 ELSE n

\* Mutant: only the record of an ended request is ever given a TTL.
ForgottenIfEnded(r) == metaTTL[r] <= 1 /\ state[r] = "ended"

\* Redis drops the meta hash.
Forgotten(r) == metaTTL[r] <= 1

\* Nobody has anything to do before time passes.
Quiet ==
    /\ deferred = {} /\ late = {}
    /\ \A c \in Callers :
          /\ pc[c] \notin Transient
          /\ pc[c] = "wait" => c \notin woken
          /\ pc[c] = "running" => runtime[c] > 0
          /\ beat[c] # 0

\* Redis expires meta hashes and active keys on its own; a tick is longer than
\* the retry timer of a waiting call.
Tick ==
    /\ Quiet
    /\ metaTTL' = [r \in Ids |-> Less(metaTTL[r])]
    /\ state' = [r \in Ids |-> IF Forgotten(r) THEN "none" ELSE state[r]]
    /\ lease' = [r \in Ids |-> Less(lease[r])]
    /\ keyTTL' = [k \in Keys |-> Less(keyTTL[k])]
    /\ member' = [k \in Keys |-> IF keyTTL[k] = 1 THEN {} ELSE member[k]]
    /\ lapsed' = [k \in Keys |-> IF keyTTL[k] = 1 THEN lapsed[k] \cup member[k] ELSE lapsed[k]]
    /\ deadline' = [c \in Callers |-> Less(deadline[c])]
    /\ beat' = [c \in Callers |-> Less(beat[c])]
    /\ runtime' = [c \in Callers |-> Less(runtime[c])]
    /\ woken' = {c \in Callers : pc[c] = "wait"}
    /\ UNCHANGED <<sequence, ticket, wait, pc, deferred, late, idOf, crossed, faults>>

\* What a live coroutine does by itself, as opposed to what befalls it.
Proceed(c) ==
    /\ \/ Enqueue(c) \/ EnqueueReply(c)
       \/ \E offer \in Offers : TryAdmit(c, offer)
       \/ Granted(c) \/ Refused(c) \/ Retry(c) \/ LateEnqueue(c)
       \/ Flush(c) \/ Finish(c) \/ Release(c) \/ Heartbeat(c)
    /\ UNCHANGED idOf

Disturb(c) ==
    /\ \/ ResolverFails(c) \/ Cancel(c) \/ CancelAgain(c)
       \/ CommandFails(c) \/ Overtaken(c) \/ FlushFails(c)
       \/ ReleaseFails(c) \/ HeartbeatFails(c) \/ Crash(c)
    /\ UNCHANGED idOf

Next == (\E c \in Callers : Start(c) \/ Proceed(c) \/ Disturb(c)) \/ Tick

Spec == Init /\ [][Next]_vars

\* Time passes, and a live coroutine gets its turn.  Nobody has to start a
\* request, to cancel one, or to fail.
FairSpec ==
    /\ Spec
    /\ WF_vars(Tick)
    /\ \A c \in Callers : WF_vars(Proceed(c))

-----------------------------------------------------------------------------
(* What the coordinator promises. *)

TypeOK ==
    /\ state \in [Ids -> {"none", "queued", "admitted", "ended"}]
    /\ metaTTL \in [Ids -> Nat]
    /\ sequence \in Nat
    /\ ticket \in [Ids -> Nat]
    /\ wait \in [Keys -> SUBSET Ids]
    /\ member \in [Keys -> SUBSET Ids]
    /\ lease \in [Ids -> Nat]
    /\ keyTTL \in [Keys -> Nat]
    /\ pc \in [Callers -> PC]
    /\ deadline \in [Callers -> Nat]
    /\ beat \in [Callers -> Nat \cup {Off}]
    /\ runtime \in [Callers -> Nat]
    /\ woken \in SUBSET Callers
    /\ deferred \in SUBSET Callers
    /\ late \in SUBSET Callers
    /\ idOf \in [Callers -> Ids]
    /\ faults \in Nat
    /\ lapsed \in [Keys -> SUBSET Ids]
    /\ crossed \in SUBSET Callers

\* A request that runs and whose heartbeat works holds its slot in each of its
\* scopes for as long as the TTL its admission gave the scope's key, however
\* many scripts prune, empty and re-time that key for others.  A heartbeat
\* renews the score and not that TTL: with no later admission in the scope the
\* slot falls with the key, and the next heartbeat brings it back.  A call is
\* left out once another call of its identifier has given its slot back.
Holding(c) == pc[c] = "running" /\ beat[c] # Off

OutlivedItsKey(c, k) ==
    idOf[c] \in lapsed[k] /\ runtime[c] + ActiveTTL <= MaxRun /\ beat[c] < Beat

HoldersCounted ==
    \A c \in Callers \ crossed : Holding(c) =>
        \A k \in KeysOf[idOf[c]] : idOf[c] \in Counted(k) \/ OutlivedItsKey(c, k)

\* No scope runs more live requests than its limit, whatever was cancelled,
\* timed out, lost or left behind by a dead process, except by requests whose
\* slot has once fallen with the scope's key.
Holders(k) == {c \in Callers \ crossed :
                  Holding(c) /\ k \in KeysOf[idOf[c]] /\ idOf[c] \notin lapsed[k]}

HoldersWithinLimit == \A k \in Keys : Cardinality(Holders(k)) <= Limit[k]

\* A call that polls for admission keeps its place: its meta hash outlives its
\* deadline, and no script takes it out of a wait set but the release another
\* call of the same identifier has asked for.
WaitersKeepPlace ==
    \A c \in Callers \ crossed : pc[c] \in Polling =>
        /\ state[idOf[c]] = "queued"
        /\ \A k \in KeysOf[idOf[c]] : idOf[c] \in wait[k]

\* Every slot that counts can be found and given back: its request is still on
\* record as admitted, and the record outlives the slot by the status TTL.
CountedOnRecord ==
    \A k \in Keys : \A r \in Counted(k) :
        state[r] = "admitted" /\ metaTTL[r] >= lease[r] + StatusTTL

\* Cancellations and timeouts leak no place and no slot while no command and
\* no capacity lookup fails and nothing crashes: an identifier that is queued or counted belongs to a
\* call that is still under way.
UnderWay(r) ==
    \E c \in Callers : idOf[c] = r /\ (pc[c] \notin {"idle", "done", "dead"} \/ c \in deferred)

NothingLeaked ==
    faults = 0 => \A r \in Ids : state[r] \in {"queued", "admitted"} => UnderWay(r)

\* Requests, places and slots as the abstract specification sees them.
Admission == INSTANCE ChatAdmission WITH
                 phase <- state,
                 counted <- [k \in Keys |-> Counted(k)]

\* The scripts and coroutines implement first-come admission within limits.
Implements == Admission!Spec

\* Every acquire() ends: admitted, refused or given up, never parked for good.
Parked(c) == pc[c] \notin {"idle", "running", "done", "dead"}

AcquireEnds == \A c \in Callers : Parked(c) ~> ~Parked(c)

\* What a dead process, a lost release or an overtaken command leaves behind
\* is given back in the end: the slot, and the place at the head of a queue.
OrphansReclaimed ==
    \A r \in Ids :
        /\ ~UnderWay(r) /\ state[r] = "queued"
               ~> state[r] # "queued" \/ UnderWay(r)
        /\ ~UnderWay(r) /\ (\E k \in Keys : r \in Counted(k))
               ~> (\A k \in Keys : r \notin Counted(k)) \/ UnderWay(r)
=============================================================================
