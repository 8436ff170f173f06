---------------------- MODULE RedisCoordinatorProofs ----------------------
(***************************************************************************)
(* Proofs about RedisCoordinator for any number of calls, identifiers and  *)
(* scopes, any limits and any length of the leases and timeouts.           *)
(***************************************************************************)
EXTENDS RedisCoordinator, FiniteSetTheorems, TLAPS

USE DEF PC, Off, MetaTTL, ActiveTTL, Forgotten

RedisType ==
    /\ state \in [Ids -> {"none", "queued", "admitted", "ended"}]
    /\ metaTTL \in [Ids -> Nat]
    /\ sequence \in Nat
    /\ ticket \in [Ids -> Nat]
    /\ wait \in [Keys -> SUBSET Ids]
    /\ member \in [Keys -> SUBSET Ids]
    /\ lease \in [Ids -> Nat]
    /\ keyTTL \in [Keys -> Nat]
    /\ lapsed \in [Keys -> SUBSET Ids]

\* The scripts one call can run: those of its way through the queue, and the
\* heartbeat.
QueueScripts(r) ==
    \/ EnqueueScript(r)
    \/ \E offer \in Offers : TryAdmitGrant(r, offer) \/ TryAdmitRefuse(r, offer)
    \/ TryAdmitAgain(r) \/ ReleaseScript(r)

Scripts(r) == QueueScripts(r) \/ HeartbeatScript(r)

\* Every script leaves Redis well typed.
LEMMA ScriptTypes ==
    ASSUME CoordinatorAssumption, RedisType, NEW r \in Ids, Scripts(r)
    PROVE  RedisType'
<1> USE DEF RedisType, CoordinatorAssumption
<1>1. CASE EnqueueScript(r)
  BY <1>1 DEF EnqueueScript
<1>2. ASSUME NEW offer \in Offers, TryAdmitGrant(r, offer) PROVE RedisType'
  BY <1>2 DEF TryAdmitGrant, CleanWait, Counted
<1>3. CASE TryAdmitAgain(r)
  BY <1>3 DEF TryAdmitAgain, Pruned, TTLOf, Counted
<1>4. ASSUME NEW offer \in Offers, TryAdmitRefuse(r, offer) PROVE RedisType'
  BY <1>4 DEF TryAdmitRefuse, Pruned, TTLOf, Counted, CleanWait
<1>5. CASE ReleaseScript(r)
  BY <1>5 DEF ReleaseScript, TTLOf
<1>6. CASE HeartbeatScript(r)
  BY <1>6 DEF HeartbeatScript
<1> QED
  BY <1>1, <1>2, <1>3, <1>4, <1>5, <1>6 DEF Scripts, QueueScripts

CallerType ==
    /\ pc \in [Callers -> PC]
    /\ deadline \in [Callers -> Nat]
    /\ beat \in [Callers -> Nat \cup {Off}]
    /\ runtime \in [Callers -> Nat]
    /\ woken \in SUBSET Callers
    /\ deferred \in SUBSET Callers
    /\ late \in SUBSET Callers
    /\ idOf \in [Callers -> Ids]
    /\ faults \in Nat
    /\ crossed \in SUBSET Callers

LEMMA TypeParts == TypeOK <=> RedisType /\ CallerType
BY DEF TypeOK, RedisType, CallerType

\* What a step of one call does to Redis is one script or nothing, and it is
\* clear where the call is that runs it.
LEMMA OneScript ==
    ASSUME NEW c \in Callers, Start(c) \/ Proceed(c) \/ Disturb(c)
    PROVE  \/ UNCHANGED redisVars
           \/ EnqueueScript(idOf[c])
           \/ pc[c] = "resolve" /\ QueueScripts(idOf[c])
           \/ ReleaseScript(idOf[c]) /\ TakesFromNamesakes(c)
           \/ Heartbeat(c) /\ HeartbeatScript(idOf[c])
<1>2. CASE Proceed(c)
  BY <1>2 DEF Proceed, Enqueue, EnqueueReply, TryAdmit, Granted, Refused,
     GiveUp, Retry, LateEnqueue, Flush, Finish, Release, Heartbeat, QueueScripts
<1>3. CASE Disturb(c)
  BY <1>3 DEF Disturb, ResolverFails, GiveUp, Cancel, CancelAgain, CommandFails,
     Overtaken, FlushFails, ReleaseFails, HeartbeatFails, Crash
<1>4. CASE Start(c)
  BY <1>4 DEF Start
<1> QED
  BY <1>2, <1>3, <1>4

LEMMA RedisStep ==
    ASSUME NEW c \in Callers, Start(c) \/ Proceed(c) \/ Disturb(c)
    PROVE  UNCHANGED redisVars \/ Scripts(idOf[c])
BY OneScript DEF Scripts, QueueScripts

LEMMA CallerTypes ==
    ASSUME CoordinatorAssumption, CallerType, NEW c \in Callers,
           Start(c) \/ Proceed(c) \/ Disturb(c)
    PROVE  CallerType'
<1>0. UNCHANGED idOf
  BY DEF Start, Proceed, Disturb
<1> USE <1>0 DEF CallerType, CoordinatorAssumption, Goto
<1>1. CASE Start(c)
  BY <1>1 DEF Start
<1>2. CASE Enqueue(c)
  BY <1>2 DEF Enqueue, SharesItsPlace
<1>3. CASE EnqueueReply(c)
  BY <1>3 DEF EnqueueReply
<1>4. ASSUME NEW offer \in Offers, TryAdmit(c, offer) PROVE CallerType'
  BY <1>4 DEF TryAdmit, Publish
<1>5. CASE Granted(c)
  BY <1>5 DEF Granted
<1>6. CASE Refused(c)
  BY <1>6 DEF Refused, GiveUp
<1>7. CASE Retry(c)
  BY <1>7 DEF Retry
<1>8. CASE LateEnqueue(c)
  BY <1>8 DEF LateEnqueue
<1>9. CASE Flush(c)
  BY <1>9 DEF Flush, EndCleanup, Publish, TakesFromNamesakes, Namesakes
<1>10. CASE Finish(c)
  BY <1>10 DEF Finish
<1>11. CASE Release(c)
  BY <1>11 DEF Release, Publish, TakesFromNamesakes, Namesakes
<1>12. CASE Heartbeat(c)
  BY <1>12 DEF Heartbeat
<1>13. CASE ResolverFails(c)
  BY <1>13 DEF ResolverFails
<1>14. CASE Cancel(c) \/ CommandFails(c) \/ Overtaken(c)
  BY <1>14 DEF Cancel, CommandFails, Overtaken, GiveUp
<1>15. CASE CancelAgain(c)
  BY <1>15 DEF CancelAgain
<1>16. CASE FlushFails(c)
  BY <1>16 DEF FlushFails, EndCleanup
<1>17. CASE ReleaseFails(c) \/ HeartbeatFails(c)
  BY <1>17 DEF ReleaseFails, HeartbeatFails
<1>18. CASE Crash(c)
  BY <1>18 DEF Crash
<1> QED
  BY <1>1, <1>2, <1>3, <1>4, <1>5, <1>6, <1>7, <1>8, <1>9, <1>10, <1>11, <1>12,
     <1>13, <1>14, <1>15, <1>16, <1>17, <1>18 DEF Proceed, Disturb

LEMMA LessNat == \A n \in Nat : Less(n) \in Nat
BY DEF Less

-----------------------------------------------------------------------------
(* Slots and places, for any use of identifiers. *)

\* A score that still counts belongs to an admitted request whose record
\* outlives it.
OnRecord ==
    \A r \in Ids : lease[r] > 0 =>
        state[r] = "admitted" /\ metaTTL[r] >= lease[r] + StatusTTL

\* A queued identifier stands in the line of each of its scopes, with a ticket
\* of its own; nobody is counted in a foreign scope.
InLine ==
    /\ \A q \in Ids : ticket[q] <= sequence
    /\ \A q, r \in Ids : ticket[q] = ticket[r] /\ ticket[q] > 0 => q = r
    /\ \A q \in Ids : state[q] = "queued" =>
          ticket[q] > 0 /\ \A k \in KeysOf[q] : q \in wait[k]
    /\ \A k \in Keys : \A r \in member[k] : k \in KeysOf[r]

\* A release waits only for a call that gave up, a late command belongs to
\* one, and only a running request has a heartbeat.
Roles ==
    /\ \A c \in deferred : pc[c] \in {"cleanup", "done"}
    /\ \A c \in late : pc[c] \in {"cleanup", "done", "dead"}
    /\ \A c \in Callers : beat[c] # Off => pc[c] = "running"

\* What keeps a waiting call: its record lasts beyond its deadline.
WaiterSafe(c) ==
    /\ pc[c] = "enqueued" =>
          state[idOf[c]] = "queued" /\ metaTTL[idOf[c]] = MetaTTL
    /\ pc[c] \in Polling =>
          state[idOf[c]] = "queued" /\ metaTTL[idOf[c]] >= deadline[c] + ActiveTTL
    /\ pc[c] = "wait" /\ c \notin woken => deadline[c] > 0

\* A slot has not fallen with its key, which lasts for ActiveTTL since the
\* admission, or it has, and is back or comes back with the next heartbeat.
KeyKept(r, k, left, run) ==
    IF r \in lapsed[k]
    THEN run + ActiveTTL <= MaxRun /\ (r \in member[k] \/ left < Beat)
    ELSE r \in member[k] /\ keyTTL[k] > 0 /\ keyTTL[k] + MaxRun >= ActiveTTL + run

\* What keeps a running one: its score lasts beyond the next heartbeat.
Slot(c, left, run) ==
    /\ run <= MaxRun /\ left <= Beat
    /\ state[idOf[c]] = "admitted"
    /\ lease[idOf[c]] >= left + (Lease - Beat)
    /\ \A k \in KeysOf[idOf[c]] : KeyKept(idOf[c], k, left, run)

HolderSafe(c) ==
    /\ pc[c] = "granted" => Slot(c, Beat, MaxRun)
    /\ Holding(c) => Slot(c, beat[c], runtime[c])

CallsSafe == \A c \in Callers \ crossed : WaiterSafe(c) /\ HolderSafe(c)

\* A place or a slot is one call's: while it has either, no other call of its
\* identifier stands in line, and none has a slot that nobody took from it.
Mine(c) == Queueing(c) \/ pc[c] = "granted" \/ Holding(c)

Alone ==
    \A c \in Callers \ crossed : \A d \in Namesakes(c) :
        Mine(c) => ~Queueing(d) /\ (Mine(d) => d \in crossed)

CallInv == TypeOK /\ OnRecord /\ InLine /\ Roles /\ CallsSafe /\ Alone

LEMMA ScriptsOnRecord ==
    ASSUME CoordinatorAssumption, RedisType, OnRecord, NEW r \in Ids, Scripts(r)
    PROVE  OnRecord'
<1> USE DEF RedisType, OnRecord, CoordinatorAssumption
<1>1. CASE EnqueueScript(r)
  BY <1>1 DEF EnqueueScript
<1>2. ASSUME NEW offer \in Offers, TryAdmitGrant(r, offer) PROVE OnRecord'
  BY <1>2 DEF TryAdmitGrant
<1>3. CASE TryAdmitAgain(r)
  BY <1>3 DEF TryAdmitAgain
<1>4. ASSUME NEW offer \in Offers, TryAdmitRefuse(r, offer) PROVE OnRecord'
  BY <1>4 DEF TryAdmitRefuse
<1>5. CASE ReleaseScript(r)
  BY <1>5 DEF ReleaseScript
<1>6. CASE HeartbeatScript(r)
  BY <1>6 DEF HeartbeatScript
<1> QED
  BY <1>1, <1>2, <1>3, <1>4, <1>5, <1>6 DEF Scripts, QueueScripts

LEMMA ScriptsInLine ==
    ASSUME CoordinatorAssumption, RedisType, InLine, NEW r \in Ids, Scripts(r)
    PROVE  InLine'
<1> USE DEF RedisType, InLine, CoordinatorAssumption
<1>0. \A k \in Keys : \A q \in wait[k] : state[q] = "queued" => q \in CleanWait(k)
  BY DEF CleanWait
<1>1. CASE EnqueueScript(r)
  BY <1>1 DEF EnqueueScript
<1>2. ASSUME NEW offer \in Offers, TryAdmitGrant(r, offer) PROVE InLine'
  BY <1>0, <1>2 DEF TryAdmitGrant, Counted
<1>3. CASE TryAdmitAgain(r)
  BY <1>3 DEF TryAdmitAgain, Pruned, Counted
<1>4. ASSUME NEW offer \in Offers, TryAdmitRefuse(r, offer) PROVE InLine'
  BY <1>0, <1>4 DEF TryAdmitRefuse, Pruned, Counted
<1>5. CASE ReleaseScript(r)
  BY <1>5 DEF ReleaseScript
<1>6. CASE HeartbeatScript(r)
  BY <1>6 DEF HeartbeatScript
<1> QED
  BY <1>1, <1>2, <1>3, <1>4, <1>5, <1>6 DEF Scripts, QueueScripts

\* Time shortens score and record alike and touches no place in a line.
LEMMA TickKeeps ==
    ASSUME CoordinatorAssumption, RedisType, Tick
    PROVE  (OnRecord => OnRecord') /\ (InLine => InLine')
<1> USE DEF RedisType, CoordinatorAssumption, Tick
<1>1. OnRecord => OnRecord'
  BY DEF OnRecord, Less
<1>2. InLine => InLine'
  BY DEF InLine
<1> QED
  BY <1>1, <1>2

LEMMA StepType ==
    ASSUME CoordinatorAssumption, TypeOK, [Next]_vars
    PROVE  TypeOK'
<1> SUFFICES RedisType' /\ CallerType'
  BY TypeParts DEF TypeOK, RedisType, CallerType
<1> USE CoordinatorAssumption, TypeParts
<1>1. ASSUME NEW c \in Callers, Start(c) \/ Proceed(c) \/ Disturb(c)
      PROVE  RedisType' /\ CallerType'
  <2>1. idOf[c] \in Ids
    BY DEF CallerType
  <2>2. CASE UNCHANGED redisVars
    BY <1>1, <2>2, CallerTypes DEF redisVars, RedisType
  <2>3. CASE Scripts(idOf[c])
    BY <1>1, <2>1, <2>3, ScriptTypes, CallerTypes
  <2> QED
    BY <1>1, <2>2, <2>3, RedisStep
<1>2. CASE Tick
  BY <1>2, LessNat DEF Tick, Less, RedisType, CallerType
<1>3. CASE UNCHANGED vars
  BY <1>3 DEF vars, redisVars, callerVars, RedisType, CallerType
<1> QED
  BY <1>1, <1>2, <1>3 DEF Next

\* Type correctness.
THEOREM TypeCorrect == Spec => []TypeOK
<1>1. Init => TypeOK
  BY CoordinatorAssumption DEF Init, TypeOK, CoordinatorAssumption
<1>2. TypeOK /\ [Next]_vars => TypeOK'
  BY CoordinatorAssumption, StepType
<1> QED
  BY <1>1, <1>2, PTL DEF Spec

LEMMA StepRecordAndLine ==
    ASSUME CoordinatorAssumption, TypeOK, OnRecord, InLine, [Next]_vars
    PROVE  OnRecord' /\ InLine'
<1>0. RedisType /\ CallerType
  BY TypeParts
<1>1. ASSUME NEW c \in Callers, Start(c) \/ Proceed(c) \/ Disturb(c)
      PROVE  OnRecord' /\ InLine'
  <2>1. idOf[c] \in Ids
    BY <1>0 DEF CallerType
  <2>2. CASE UNCHANGED redisVars
    BY <2>2 DEF redisVars, OnRecord, InLine
  <2>3. CASE Scripts(idOf[c])
    BY <1>0, <2>1, <2>3, ScriptsOnRecord, ScriptsInLine
  <2> QED
    BY <1>1, <2>2, <2>3, RedisStep
<1>2. CASE Tick
  BY <1>0, <1>2, TickKeeps
<1>3. CASE UNCHANGED vars
  BY <1>3 DEF vars, redisVars, OnRecord, InLine
<1> QED
  BY <1>1, <1>2, <1>3 DEF Next

\* Every slot that counts is on record as admitted, however identifiers are
\* reused and whatever fails: status() and a release can always find it.
THEOREM SlotsOnRecord == Spec => []CountedOnRecord
<1> DEFINE Inv == TypeOK /\ OnRecord /\ InLine
<1>1. Init => Inv
  BY CoordinatorAssumption DEF Init, TypeOK, OnRecord, InLine, CoordinatorAssumption
<1>2. Inv /\ [Next]_vars => Inv'
  BY CoordinatorAssumption, StepType, StepRecordAndLine
<1>3. Inv => CountedOnRecord
  BY DEF TypeOK, OnRecord, CountedOnRecord, Counted
<1> QED
  BY <1>1, <1>2, <1>3, PTL DEF Spec

-----------------------------------------------------------------------------
(* Places and slots of live calls. *)

LEMMA StepRoles ==
    ASSUME CoordinatorAssumption, TypeOK, Roles, [Next]_vars
    PROVE  Roles'
<1> USE DEF Roles, CallerType, Goto
<1>0. CallerType
  BY TypeParts
<1>1. ASSUME NEW c \in Callers, Start(c) \/ Proceed(c) PROVE Roles'
  <2>1. CASE Start(c) \/ Enqueue(c) \/ EnqueueReply(c) \/ Granted(c) \/ Retry(c)
    BY <1>0, <2>1 DEF Start, Enqueue, EnqueueReply, Granted, Retry
  <2>2. ASSUME NEW offer \in Offers, TryAdmit(c, offer) PROVE Roles'
    BY <1>0, <2>2 DEF TryAdmit
  <2>3. CASE Refused(c)
    BY <1>0, <2>3 DEF Refused, GiveUp
  <2>4. CASE LateEnqueue(c) \/ Flush(c)
    BY <1>0, <2>4 DEF LateEnqueue, Flush, EndCleanup
  <2>5. CASE Finish(c) \/ Release(c) \/ Heartbeat(c)
    BY <1>0, <2>5 DEF Finish, Release, Heartbeat
  <2> QED
    BY <1>1, <2>1, <2>2, <2>3, <2>4, <2>5 DEF Proceed
<1>2. ASSUME NEW c \in Callers, Disturb(c) PROVE Roles'
  <2>1. CASE ResolverFails(c) \/ CancelAgain(c)
    BY <1>0, <2>1 DEF ResolverFails, CancelAgain
  <2>2. CASE Cancel(c) \/ CommandFails(c) \/ Overtaken(c)
    BY <1>0, <2>2 DEF Cancel, CommandFails, Overtaken, GiveUp, Interruptible
  <2>3. CASE FlushFails(c) \/ ReleaseFails(c) \/ HeartbeatFails(c) \/ Crash(c)
    BY <1>0, <2>3 DEF FlushFails, EndCleanup, ReleaseFails, HeartbeatFails, Crash
  <2> QED
    BY <1>2, <2>1, <2>2, <2>3 DEF Disturb
<1>3. CASE Tick
  BY <1>0, <1>3 DEF Tick, Less
<1>4. CASE UNCHANGED vars
  BY <1>4 DEF vars, callerVars
<1> QED
  BY <1>1, <1>2, <1>3, <1>4 DEF Next

\* What a script leaves to an identifier that has a place or a slot.
Spares(q) ==
    /\ state'[q] = state[q] /\ lease'[q] \in {lease[q], Lease}
    /\ state[q] = "queued" => metaTTL'[q] = metaTTL[q]
    /\ \A k \in Keys :
          /\ q \in lapsed'[k] <=> q \in lapsed[k]
          /\ q \in member[k] /\ lease[q] > 0 =>
                q \in member'[k] /\ keyTTL'[k] \in {keyTTL[k], ActiveTTL}

LEMMA ScriptSpares ==
    ASSUME CoordinatorAssumption, RedisType, NEW r \in Ids, Scripts(r),
           NEW q \in Ids, q # r
    PROVE  Spares(q)
<1> USE DEF RedisType, Spares, CoordinatorAssumption
<1>1. CASE EnqueueScript(r)
  BY <1>1 DEF EnqueueScript
<1>2. ASSUME NEW offer \in Offers, TryAdmitGrant(r, offer) PROVE Spares(q)
  BY <1>2 DEF TryAdmitGrant, Counted
<1>3. CASE TryAdmitAgain(r)
  BY <1>3 DEF TryAdmitAgain, Pruned, TTLOf, Counted
<1>4. ASSUME NEW offer \in Offers, TryAdmitRefuse(r, offer) PROVE Spares(q)
  BY <1>4 DEF TryAdmitRefuse, Pruned, TTLOf, Counted
<1>5. CASE ReleaseScript(r)
  BY <1>5 DEF ReleaseScript, TTLOf
<1>6. CASE HeartbeatScript(r)
  BY <1>6 DEF HeartbeatScript
<1> QED
  BY <1>1, <1>2, <1>3, <1>4, <1>5, <1>6 DEF Scripts, QueueScripts

\* A step of one call changes no local state of another but its wake-up.
Undisturbed(d) ==
    /\ pc'[d] = pc[d] /\ deadline'[d] = deadline[d]
    /\ beat'[d] = beat[d] /\ runtime'[d] = runtime[d]
    /\ d \in woken => d \in woken'

LEMMA OthersUndisturbed ==
    ASSUME CallerType, NEW c \in Callers, Start(c) \/ Proceed(c) \/ Disturb(c),
           NEW d \in Callers, d # c
    PROVE  Undisturbed(d)
<1> USE DEF CallerType, Undisturbed, Goto
<1>1. CASE Start(c) \/ Enqueue(c) \/ EnqueueReply(c) \/ Granted(c) \/ Retry(c)
  BY <1>1 DEF Start, Enqueue, EnqueueReply, Granted, Retry
<1>2. ASSUME NEW offer \in Offers, TryAdmit(c, offer) PROVE Undisturbed(d)
  BY <1>2 DEF TryAdmit, Publish
<1>3. CASE Refused(c)
  BY <1>3 DEF Refused, GiveUp
<1>4. CASE LateEnqueue(c) \/ Flush(c)
  BY <1>4 DEF LateEnqueue, Flush, EndCleanup, Publish
<1>5. CASE Finish(c) \/ Release(c) \/ Heartbeat(c)
  BY <1>5 DEF Finish, Release, Heartbeat, Publish
<1>6. CASE ResolverFails(c) \/ CancelAgain(c)
  BY <1>6 DEF ResolverFails, CancelAgain
<1>7. CASE Cancel(c) \/ CommandFails(c) \/ Overtaken(c)
  BY <1>7 DEF Cancel, CommandFails, Overtaken, GiveUp
<1>8. CASE FlushFails(c) \/ ReleaseFails(c) \/ HeartbeatFails(c) \/ Crash(c)
  BY <1>8 DEF FlushFails, EndCleanup, ReleaseFails, HeartbeatFails, Crash
<1> QED
  BY <1>1, <1>2, <1>3, <1>4, <1>5, <1>6, <1>7, <1>8 DEF Proceed, Disturb

\* Nobody who was crossed is forgiven, and no call changes its identifier.
LEMMA Marked ==
    ASSUME NEW c \in Callers, Start(c) \/ Proceed(c) \/ Disturb(c)
    PROVE  crossed \subseteq crossed' /\ idOf' = idOf
<1>1. idOf' = idOf
  BY DEF Start, Proceed, Disturb
<1>2. CASE Start(c)
  BY <1>1, <1>2 DEF Start
<1>3. CASE Proceed(c)
  BY <1>1, <1>3 DEF Proceed, Enqueue, EnqueueReply, TryAdmit, Granted, Refused, GiveUp,
     Retry, LateEnqueue, Flush, Finish, Release, Heartbeat, TakesFromNamesakes, SharesItsPlace
<1>4. CASE Disturb(c)
  BY <1>1, <1>4 DEF Disturb, ResolverFails, Cancel, CancelAgain, CommandFails, Overtaken,
     FlushFails, ReleaseFails, HeartbeatFails, Crash, GiveUp
<1> QED
  BY <1>2, <1>3, <1>4

\* A call whose place or slot nobody has taken stands behind a record.
LEMMA MineOnRecord ==
    ASSUME CallsSafe, NEW d \in Callers \ crossed, Mine(d)
    PROVE  /\ state[idOf[d]] \in {"queued", "admitted"}
           /\ Queueing(d) => state[idOf[d]] = "queued"
BY DEF CallsSafe, WaiterSafe, HolderSafe, Slot, Mine, Queueing

\* The step of another call leaves it place and slot, or takes something from
\* it for everybody to see.
LEMMA StepSpares ==
    ASSUME CoordinatorAssumption, TypeOK, CallsSafe, Alone,
           NEW c \in Callers, Start(c) \/ Proceed(c) \/ Disturb(c),
           NEW d \in Callers, d # c, d \notin crossed', Mine(d)
    PROVE  Spares(idOf[d])
<1>1. RedisType /\ idOf[c] \in Ids /\ idOf[d] \in Ids
  BY TypeParts DEF CallerType
<1>2. d \notin crossed
  BY Marked
<1>3. CASE UNCHANGED redisVars
  BY <1>1, <1>3 DEF redisVars, Spares, RedisType
<1>4. CASE idOf[c] # idOf[d] /\ Scripts(idOf[c])
  BY <1>1, <1>4, ScriptSpares
<1>5. CASE idOf[c] = idOf[d] /\ HeartbeatScript(idOf[c])
  BY <1>1, <1>5 DEF HeartbeatScript, Spares, RedisType
<1>6. ASSUME idOf[c] = idOf[d] PROVE ~EnqueueScript(idOf[c])
  BY <1>2, <1>6, MineOnRecord DEF EnqueueScript
<1>7. ASSUME idOf[c] = idOf[d] PROVE pc[c] # "resolve"
  BY <1>2, <1>7 DEF Alone, Namesakes, Queueing, Polling
<1>8. ASSUME idOf[c] = idOf[d] PROVE ~TakesFromNamesakes(c)
  BY <1>8 DEF TakesFromNamesakes, Namesakes, Mine, Holding
<1> QED
  BY <1>3, <1>4, <1>5, <1>6, <1>7, <1>8, OneScript, RedisStep

\* Nothing but the enqueue script gives a call a place.
LEMMA NobodyNew ==
    ASSUME TypeOK, NEW c \in Callers, Start(c) \/ Proceed(c) \/ Disturb(c),
           ~(Enqueue(c) /\ EnqueueScript(idOf[c])), NEW d \in Callers
    PROVE  (Queueing(d)' => Queueing(d)) /\ (Mine(d)' => Mine(d))
<1> USE DEF Queueing, Mine, Holding, Polling
<1>0. CallerType
  BY TypeParts
<1>1. CASE d # c
  BY <1>0, <1>1, OthersUndisturbed DEF Undisturbed
<1>2. CASE d = c
  <2> USE DEF CallerType, Goto
  <2>1. CASE Start(c) \/ Enqueue(c) \/ EnqueueReply(c) \/ Granted(c) \/ Retry(c)
    BY <1>0, <1>2, <2>1 DEF Start, Enqueue, EnqueueReply, Granted, Retry
  <2>2. ASSUME NEW offer \in Offers, TryAdmit(c, offer)
        PROVE  (Queueing(c)' => Queueing(c)) /\ (Mine(c)' => Mine(c))
    BY <1>0, <2>2 DEF TryAdmit
  <2>3. CASE Refused(c)
    BY <1>0, <1>2, <2>3 DEF Refused, GiveUp
  <2>4. CASE LateEnqueue(c) \/ Flush(c)
    BY <1>0, <1>2, <2>4 DEF LateEnqueue, Flush, EndCleanup
  <2>5. CASE Finish(c) \/ Release(c) \/ Heartbeat(c)
    BY <1>0, <1>2, <2>5 DEF Finish, Release, Heartbeat
  <2>6. CASE ResolverFails(c) \/ CancelAgain(c)
    BY <1>0, <1>2, <2>6 DEF ResolverFails, CancelAgain
  <2>7. CASE Cancel(c) \/ CommandFails(c) \/ Overtaken(c)
    BY <1>0, <1>2, <2>7 DEF Cancel, CommandFails, Overtaken, GiveUp
  <2>8. CASE FlushFails(c) \/ ReleaseFails(c) \/ HeartbeatFails(c) \/ Crash(c)
    BY <1>0, <1>2, <2>8 DEF FlushFails, EndCleanup, ReleaseFails, HeartbeatFails, Crash
  <2> QED
    BY <1>2, <2>1, <2>2, <2>3, <2>4, <2>5, <2>6, <2>7, <2>8 DEF Proceed, Disturb
<1> QED
  BY <1>1, <1>2

LEMMA StepAlone ==
    ASSUME CoordinatorAssumption, TypeOK, CallsSafe, Alone, [Next]_vars
    PROVE  Alone'
<1>0. CallerType
  BY TypeParts
<1>1. ASSUME NEW e \in Callers, Start(e) \/ Proceed(e) \/ Disturb(e)
      PROVE  Alone'
  <2> SUFFICES ASSUME NEW c \in Callers, c \notin crossed', NEW d \in Namesakes(c)', Mine(c)'
               PROVE  ~Queueing(d)' /\ (Mine(d)' => d \in crossed')
    BY DEF Alone
  <2>1. c \notin crossed /\ d \in Namesakes(c) /\ c \in Namesakes(d) /\ idOf[d] = idOf[c]
        /\ d \in Callers /\ c # d /\ (d \in crossed => d \in crossed')
    BY <1>1, Marked DEF Namesakes
  <2>2. CASE ~(Enqueue(e) /\ EnqueueScript(idOf[e]))
    <3>1. (Queueing(d)' => Queueing(d)) /\ (Mine(d)' => Mine(d)) /\ Mine(c)
      BY <1>1, <2>1, <2>2, NobodyNew
    <3> QED
      BY <2>1, <3>1 DEF Alone
  <2>3. CASE Enqueue(e) /\ EnqueueScript(idOf[e])
    <3>1. state[idOf[e]] = "none" /\ SharesItsPlace(e)
      BY <2>3 DEF EnqueueScript, Enqueue
    <3>2. \A x \in Callers \ {e} : (Mine(x)' <=> Mine(x)) /\ (Queueing(x)' <=> Queueing(x))
      BY <1>0, <1>1, OthersUndisturbed DEF Undisturbed, Mine, Queueing, Holding
    <3>3. CASE c = e
      <4>1. ~Queueing(d)
        BY <2>1, <3>1, <3>3 DEF SharesItsPlace
      <4>2. Mine(d) => d \in crossed
        BY <2>1, <3>1, <3>3, MineOnRecord
      <4> QED
        BY <2>1, <3>2, <3>3, <4>1, <4>2
    <3>4. CASE c # e
      <4>1. Mine(c) /\ state[idOf[c]] # "none"
        BY <2>1, <3>2, <3>4, MineOnRecord
      <4>2. d # e
        BY <2>1, <3>1, <4>1
      <4> QED
        BY <2>1, <3>2, <4>1, <4>2 DEF Alone
    <3> QED
      BY <3>3, <3>4
  <2> QED
    BY <2>2, <2>3
<1>2. CASE Tick
  <2>1. \A x \in Callers : (Mine(x)' <=> Mine(x)) /\ (Queueing(x)' <=> Queueing(x))
    BY <1>0, <1>2 DEF Tick, Less, Mine, Queueing, Holding, CallerType
  <2> QED
    BY <1>2, <2>1 DEF Tick, Alone, Namesakes
<1>3. CASE UNCHANGED vars
  BY <1>3 DEF vars, callerVars, Alone, Namesakes, Mine, Queueing, Holding
<1> QED
  BY <1>1, <1>2, <1>3 DEF Next

LEMMA SlotKept ==
    ASSUME CoordinatorAssumption, TypeOK, NEW d \in Callers, idOf' = idOf, Spares(idOf[d]),
           NEW run \in Nat, NEW left \in Nat, Slot(d, left, run)
    PROVE  Slot(d, left, run)'
<1>1. RedisType /\ idOf[d] \in Ids
  BY TypeParts DEF CallerType
<1>2. lease[idOf[d]] > 0
  BY <1>1 DEF Slot, RedisType, CoordinatorAssumption
<1>3. lease'[idOf[d]] >= left + (Lease - Beat)
  BY <1>1 DEF Slot, Spares, CoordinatorAssumption, RedisType
<1>4. ASSUME NEW k \in KeysOf[idOf[d]] PROVE KeyKept(idOf[d], k, left, run)'
  <2>1. k \in Keys /\ KeyKept(idOf[d], k, left, run)
    BY <1>1 DEF Slot, CoordinatorAssumption
  <2>2. CASE idOf[d] \in lapsed[k]
    BY <1>2, <2>1, <2>2 DEF KeyKept, Spares
  <2>3. CASE idOf[d] \notin lapsed[k]
    <3>1. keyTTL'[k] \in {keyTTL[k], ActiveTTL} /\ idOf[d] \in member'[k]
          /\ idOf[d] \notin lapsed'[k] /\ keyTTL[k] > 0 /\ keyTTL[k] + MaxRun >= ActiveTTL + run
      BY <1>2, <2>1, <2>3 DEF KeyKept, Spares
    <3>2. ActiveTTL > 0 /\ ActiveTTL + MaxRun >= ActiveTTL + run
      BY DEF Slot, CoordinatorAssumption
    <3> QED
      BY <3>1, <3>2 DEF KeyKept
  <2> QED
    BY <2>2, <2>3
<1> QED
  BY <1>3, <1>4 DEF Slot, Spares

LEMMA OthersSafe ==
    ASSUME CoordinatorAssumption, TypeOK, CallsSafe, Alone,
           NEW c \in Callers, Start(c) \/ Proceed(c) \/ Disturb(c),
           NEW d \in Callers, d # c, d \notin crossed'
    PROVE  WaiterSafe(d)' /\ HolderSafe(d)'
<1>1. CallerType /\ Undisturbed(d) /\ idOf' = idOf /\ d \notin crossed
  BY TypeParts, OthersUndisturbed, Marked
<1>2. CASE ~Mine(d)
  BY <1>1, <1>2 DEF Mine, Queueing, Undisturbed, WaiterSafe, HolderSafe, Holding, Polling
<1>3. CASE Mine(d)
  <2>1. Spares(idOf[d]) /\ WaiterSafe(d) /\ HolderSafe(d)
    BY <1>1, <1>3, StepSpares DEF CallsSafe
  <2>2. WaiterSafe(d)'
    BY <1>1, <2>1 DEF WaiterSafe, Spares, Undisturbed
  <2>3. CASE pc[d] = "granted"
    <3>1. Slot(d, Beat, MaxRun)'
      BY <1>1, <2>1, <2>3, SlotKept DEF HolderSafe, CoordinatorAssumption
    <3> QED
      BY <1>1, <2>2, <2>3, <3>1 DEF HolderSafe, Holding, Undisturbed
  <2>4. CASE Holding(d)
    <3>1. beat[d] \in Nat /\ runtime[d] \in Nat
      BY <1>1, <2>4 DEF Holding, CallerType
    <3>2. Slot(d, beat[d], runtime[d])
      BY <2>1, <2>4 DEF HolderSafe
    <3> DEFINE left == beat[d]  run == runtime[d]
    <3>3. ASSUME NEW l \in Nat, NEW n \in Nat, Slot(d, l, n), l = beat'[d], n = runtime'[d]
          PROVE  Slot(d, beat[d], runtime[d])'
      <4>1. Slot(d, l, n)'
        BY <1>1, <2>1, <3>3, SlotKept
      <4> QED
        BY <3>3, <4>1 DEF Slot, KeyKept
    <3>4. Slot(d, beat[d], runtime[d])'
      BY <1>1, <3>1, <3>2, <3>3 DEF Undisturbed
    <3> QED
      BY <1>1, <2>2, <2>4, <3>4 DEF HolderSafe, Holding, Undisturbed
  <2>5. CASE pc[d] # "granted" /\ ~Holding(d)
    BY <1>1, <2>2, <2>5 DEF HolderSafe, Holding, Undisturbed
  <2> QED
    BY <2>3, <2>4, <2>5
<1> QED
  BY <1>2, <1>3

\* A call at any other place is safe whatever Redis holds.
LEMMA ElsewhereSafe ==
    ASSUME NEW c \in Callers,
           pc'[c] \notin Polling \cup {"enqueued", "granted", "running"}
    PROVE  WaiterSafe(c)' /\ HolderSafe(c)'
BY DEF WaiterSafe, HolderSafe, Holding, Polling

LEMMA OwnSafe ==
    ASSUME CoordinatorAssumption, TypeOK, InLine, Roles, CallsSafe,
           NEW c \in Callers \ crossed, Start(c) \/ Proceed(c) \/ Disturb(c)
    PROVE  WaiterSafe(c)' /\ HolderSafe(c)'
<1>0. RedisType /\ CallerType /\ idOf[c] \in Ids /\ idOf' = idOf
  BY TypeParts, Marked DEF CallerType
<1>1. WaiterSafe(c) /\ HolderSafe(c)
  BY DEF CallsSafe
<1> DEFINE Safe == WaiterSafe(c)' /\ HolderSafe(c)'
           Gone == pc'[c] \notin Polling \cup {"enqueued", "granted", "running"}
<1> HIDE DEF Safe, Gone
<1>2. Gone => Safe
  BY ElsewhereSafe DEF Safe, Gone
<1>3. CASE Start(c)
  <2>1. Gone
    BY <1>0, <1>3 DEF Start, Goto, CallerType, Gone, Polling
  <2> QED
    BY <1>2, <2>1 DEF Safe
<1>4. CASE Enqueue(c)
  <2>1. CASE EnqueueScript(idOf[c]) /\ pc' = [pc EXCEPT ![c] = "enqueued"]
    BY <1>0, <2>1 DEF EnqueueScript, RedisType, CallerType, WaiterSafe,
       HolderSafe, Holding, Polling
  <2>2. CASE pc' = [pc EXCEPT ![c] = "rejected"]
    BY <1>0, <1>2, <2>2 DEF CallerType, Gone, Safe, Polling
  <2> QED
    BY <1>4, <2>1, <2>2 DEF Enqueue, Goto
<1>5. CASE EnqueueReply(c)
  BY <1>0, <1>1, <1>5, CoordinatorAssumption DEF EnqueueReply, Goto, CallerType, redisVars,
     RedisType, WaiterSafe, HolderSafe, Holding, Polling, CoordinatorAssumption
<1>6. ASSUME NEW offer \in Offers, TryAdmit(c, offer) PROVE Safe
  <2>0. state[idOf[c]] = "queued"
    BY <1>1, <1>6 DEF TryAdmit, WaiterSafe, Polling
  <2>1. CASE TryAdmitGrant(idOf[c], offer) /\ pc' = [pc EXCEPT ![c] = "granted"]
    <3>1. Slot(c, Beat, MaxRun)'
      BY <1>0, <2>1, CoordinatorAssumption DEF TryAdmitGrant, RedisType, Slot,
         KeyKept, CoordinatorAssumption
    <3> QED
      BY <1>0, <2>1, <3>1 DEF Safe, CallerType, WaiterSafe, HolderSafe, Holding, Polling
  <2>2. CASE TryAdmitAgain(idOf[c])
    BY <2>0, <2>2 DEF TryAdmitAgain
  <2>3. CASE TryAdmitRefuse(idOf[c], offer) /\ pc' = [pc EXCEPT ![c] = "refused"]
    BY <1>0, <1>1, <1>6, <2>3 DEF TryAdmit, TryAdmitRefuse, RedisType, CallerType,
       Safe, WaiterSafe, HolderSafe, Holding, Polling
  <2> QED
    BY <1>6, <2>1, <2>2, <2>3 DEF TryAdmit, Goto
<1>7. CASE Granted(c)
  <2>1. Slot(c, Beat, MaxRun)
    BY <1>1, <1>7 DEF Granted, HolderSafe
  <2>2. pc'[c] = "running" /\ beat'[c] = Beat /\ runtime'[c] = MaxRun
    BY <1>0, <1>7 DEF Granted, Goto, CallerType
  <2>3. Slot(c, beat[c], runtime[c])'
    BY <1>0, <1>7, <2>1, <2>2 DEF Granted, redisVars, Slot, KeyKept
  <2> QED
    BY <2>2, <2>3 DEF WaiterSafe, HolderSafe, Polling
<1>8. CASE Refused(c)
  BY <1>0, <1>1, <1>8 DEF Refused, GiveUp, Goto, CallerType, redisVars,
     WaiterSafe, HolderSafe, Holding, Polling
<1>9. CASE Retry(c)
  BY <1>0, <1>1, <1>9 DEF Retry, Goto, CallerType, redisVars,
     WaiterSafe, HolderSafe, Holding, Polling
<1>10. CASE LateEnqueue(c) \/ Flush(c) \/ FlushFails(c) \/ CancelAgain(c)
  <2>1. Gone
    BY <1>0, <1>10 DEF LateEnqueue, Flush, FlushFails, CancelAgain, EndCleanup, Goto,
       CallerType, Roles, Gone, Polling
  <2> QED
    BY <1>2, <2>1 DEF Safe
<1>11. CASE Finish(c) \/ Release(c) \/ ReleaseFails(c) \/ Crash(c)
  <2>1. Gone
    BY <1>0, <1>11 DEF Finish, Release, ReleaseFails, Crash, Goto, CallerType, Gone, Polling
  <2> QED
    BY <1>2, <2>1 DEF Safe
<1>12. CASE ResolverFails(c) \/ Cancel(c) \/ CommandFails(c) \/ Overtaken(c)
  <2>1. Gone
    BY <1>0, <1>12 DEF ResolverFails, Cancel, CommandFails, Overtaken, GiveUp, Goto,
       CallerType, Gone, Polling
  <2> QED
    BY <1>2, <2>1 DEF Safe
<1>13. CASE Heartbeat(c)
  <2>1. pc[c] = "running" /\ beat[c] = 0 /\ Slot(c, 0, runtime[c])
    BY <1>0, <1>1, <1>13 DEF Heartbeat, Roles, HolderSafe, Holding
  <2>2. HeartbeatScript(idOf[c]) /\ beat' = [beat EXCEPT ![c] = Beat]
    BY <1>13, <2>1 DEF Heartbeat, Slot
  <2>3. Slot(c, Beat, runtime[c])'
    BY <1>0, <1>13, <2>1, <2>2, CoordinatorAssumption DEF HeartbeatScript, Heartbeat,
       RedisType, Slot, KeyKept, CoordinatorAssumption
  <2> QED
    BY <1>0, <1>13, <2>1, <2>2, <2>3 DEF Heartbeat, CallerType, WaiterSafe, HolderSafe, Polling
<1>14. CASE HeartbeatFails(c)
  BY <1>0, <1>1, <1>14 DEF HeartbeatFails, CallerType, Roles, WaiterSafe, HolderSafe,
     Holding, Polling
<1> QED
  BY <1>3, <1>4, <1>5, <1>6, <1>7, <1>8, <1>9, <1>10, <1>11, <1>12, <1>13, <1>14
     DEF Proceed, Disturb, Safe

LEMMA TickSafe ==
    ASSUME CoordinatorAssumption, TypeOK, OnRecord, CallsSafe, Tick, NEW c \in Callers \ crossed
    PROVE  WaiterSafe(c)' /\ HolderSafe(c)'
<1>0. RedisType /\ CallerType /\ idOf[c] \in Ids /\ idOf' = idOf
  BY TypeParts DEF CallerType, Tick
<1>1. WaiterSafe(c) /\ HolderSafe(c)
  BY DEF CallsSafe
<1>2. pc' = pc /\ pc[c] \notin Transient /\ (pc[c] = "wait" => c \notin woken)
  BY DEF Tick, Quiet
<1>3. WaiterSafe(c)'
  BY <1>0, <1>1, <1>2, CoordinatorAssumption DEF Tick, Less, Transient, WaiterSafe,
     Polling, RedisType, CallerType, CoordinatorAssumption
<1>4. HolderSafe(c)'
  <2>1. CASE Holding(c)
    <3>1. Slot(c, beat[c], runtime[c])
      BY <1>1, <2>1 DEF HolderSafe
    <3>2. beat[c] > 0 /\ runtime[c] > 0
      BY <1>0, <2>1 DEF Tick, Quiet, Holding, CallerType
    <3>3. beat'[c] = beat[c] - 1 /\ runtime'[c] = runtime[c] - 1
      BY <1>0, <3>2 DEF Tick, Less, CallerType
    <3>4. lease[idOf[c]] > 1 /\ metaTTL[idOf[c]] > 1
      BY <1>0, <3>1, <3>2, CoordinatorAssumption
         DEF Slot, OnRecord, RedisType, CallerType, CoordinatorAssumption
    <3>5. state'[idOf[c]] = "admitted" /\ lease'[idOf[c]] = lease[idOf[c]] - 1
      BY <1>0, <3>1, <3>4 DEF Tick, Less, Slot, RedisType
    <3>6. ASSUME NEW k \in KeysOf[idOf[c]]
          PROVE  KeyKept(idOf[c], k, beat[c], runtime[c])'
      <4>1. k \in Keys /\ KeyKept(idOf[c], k, beat[c], runtime[c]) /\ beat[c] <= Beat
        BY <1>0, <3>1, CoordinatorAssumption DEF Slot, CoordinatorAssumption
      <4>2. keyTTL[k] \in Nat /\ runtime[c] \in Nat /\ beat[c] \in Nat
        BY <1>0, <3>2, <4>1 DEF RedisType, CallerType
      <4>3. /\ keyTTL'[k] = Less(keyTTL[k])
            /\ member'[k] = IF keyTTL[k] = 1 THEN {} ELSE member[k]
            /\ lapsed'[k] = IF keyTTL[k] = 1 THEN lapsed[k] \cup member[k] ELSE lapsed[k]
        BY <4>1 DEF Tick
      <4>4. CASE idOf[c] \in lapsed[k]
        BY <1>0, <3>2, <3>3, <4>1, <4>2, <4>3, <4>4, CoordinatorAssumption
           DEF KeyKept, CoordinatorAssumption
      <4>5. CASE idOf[c] \notin lapsed[k] /\ keyTTL[k] = 1
        BY <1>0, <3>2, <3>3, <4>1, <4>2, <4>3, <4>5, CoordinatorAssumption
           DEF KeyKept, CoordinatorAssumption
      <4>6. CASE idOf[c] \notin lapsed[k] /\ keyTTL[k] # 1
        BY <1>0, <3>2, <3>3, <4>1, <4>2, <4>3, <4>6, CoordinatorAssumption
           DEF KeyKept, Less, CoordinatorAssumption
      <4> QED
        BY <4>4, <4>5, <4>6
    <3>7. Slot(c, beat[c], runtime[c])'
      BY <1>0, <3>1, <3>2, <3>3, <3>5, <3>6, CoordinatorAssumption
         DEF Slot, CallerType, RedisType, CoordinatorAssumption
    <3> QED
      BY <1>2, <2>1, <3>7 DEF HolderSafe, Holding
  <2>2. CASE ~Holding(c)
    BY <1>0, <1>2, <2>2 DEF Tick, Less, HolderSafe, Holding, Transient, CallerType
  <2> QED
    BY <2>1, <2>2
<1> QED
  BY <1>3, <1>4

LEMMA StepCallsSafe ==
    ASSUME CoordinatorAssumption, CallInv, [Next]_vars
    PROVE  CallsSafe'
<1> USE DEF CallInv
<1>1. ASSUME NEW c \in Callers, Start(c) \/ Proceed(c) \/ Disturb(c)
      PROVE  CallsSafe'
  <2> SUFFICES ASSUME NEW d \in Callers, d \notin crossed'
               PROVE  WaiterSafe(d)' /\ HolderSafe(d)'
    BY DEF CallsSafe
  <2>1. d \notin crossed
    BY <1>1, Marked
  <2> QED
    BY <1>1, <2>1, OwnSafe, OthersSafe
<1>2. CASE Tick
  BY <1>2, TickSafe DEF CallsSafe, Tick
<1>3. CASE UNCHANGED vars
  BY <1>3 DEF vars, redisVars, callerVars, CallsSafe, WaiterSafe, HolderSafe, Slot, KeyKept,
     Holding
<1> QED
  BY <1>1, <1>2, <1>3 DEF Next

LEMMA CallInvInductive ==
    ASSUME CoordinatorAssumption
    PROVE  (Init => CallInv) /\ (CallInv /\ [Next]_vars => CallInv')
<1>1. Init => TypeOK /\ OnRecord /\ InLine /\ Roles
  BY CoordinatorAssumption DEF Init, TypeOK, OnRecord, InLine, Roles, CoordinatorAssumption
<1>2. Init => CallsSafe /\ Alone
  BY DEF Init, CallsSafe, WaiterSafe, HolderSafe, Holding, Polling, Alone, Mine, Queueing
<1>3. CallInv /\ [Next]_vars => CallInv'
  BY CoordinatorAssumption, StepType, StepRecordAndLine, StepRoles, StepCallsSafe, StepAlone
     DEF CallInv
<1> QED
  BY <1>1, <1>2, <1>3 DEF CallInv

LEMMA HoldersAreCounted ==
    ASSUME CoordinatorAssumption, CallInv
    PROVE  HoldersCounted
<1> SUFFICES ASSUME NEW c \in Callers \ crossed, Holding(c), NEW k \in KeysOf[idOf[c]]
             PROVE  idOf[c] \in Counted(k) \/ OutlivedItsKey(c, k)
  BY DEF HoldersCounted
<1>1. RedisType /\ CallerType /\ idOf[c] \in Ids
  BY TypeParts DEF CallInv, CallerType
<1>2. Slot(c, beat[c], runtime[c]) /\ beat[c] \in Nat
  BY <1>1 DEF CallInv, CallsSafe, HolderSafe, Holding, CallerType
<1>3. lease[idOf[c]] > 0
  BY <1>1, <1>2 DEF Slot, RedisType, CoordinatorAssumption
<1> QED
  BY <1>1, <1>2, <1>3 DEF Slot, KeyKept, Counted, OutlivedItsKey

\* A request that runs with a working heartbeat is counted in all its scopes,
\* whatever scripts run for others, for the TTL its admission gave their keys;
\* a slot that falls with a key after that is back with the next heartbeat.
\* Identifiers may be shared: a call is left out once a namesake has given its
\* slot back.
THEOREM RunningIsCounted == Spec => []HoldersCounted
<1>1. (Init => CallInv) /\ (CallInv /\ [Next]_vars => CallInv')
  BY CoordinatorAssumption, CallInvInductive
<1>2. CallInv => HoldersCounted
  BY CoordinatorAssumption, HoldersAreCounted
<1> QED
  BY <1>1, <1>2, PTL DEF Spec

\* A call that polls for admission keeps its place in every line until a
\* namesake gives it back.
THEOREM PlacesKept == Spec => []WaitersKeepPlace
<1>1. (Init => CallInv) /\ (CallInv /\ [Next]_vars => CallInv')
  BY CoordinatorAssumption, CallInvInductive
<1>2. CallInv => WaitersKeepPlace
  BY DEF CallInv, TypeOK, CallsSafe, WaiterSafe, WaitersKeepPlace, InLine
<1> QED
  BY <1>1, <1>2, PTL DEF Spec

-----------------------------------------------------------------------------
(* Limits. *)

LEMMA CountedFinite ==
    ASSUME CoordinatorAssumption, RedisType, NEW k \in Keys
    PROVE  /\ Counted(k) \in SUBSET Ids /\ IsFiniteSet(Counted(k))
           /\ Cardinality(Counted(k)) \in Nat
<1>1. Counted(k) \in SUBSET Ids
  BY DEF Counted, RedisType
<1> QED
  BY <1>1, FS_Subset, FS_CardinalityType DEF CoordinatorAssumption

\* The slots that live calls hold in a scope and that never fell with its key.
OnSlot(c) == pc[c] = "granted" \/ Holding(c)

Slots(k) == {r \in Ids : /\ k \in KeysOf[r] /\ r \notin lapsed[k]
                         /\ \E c \in Callers \ crossed : idOf[c] = r /\ OnSlot(c)}

SlotsWithinLimit == \A k \in Keys : Cardinality(Slots(k)) <= Limit[k]

LEMMA SlotsFinite ==
    ASSUME CoordinatorAssumption, NEW k
    PROVE  IsFiniteSet(Slots(k)) /\ Cardinality(Slots(k)) \in Nat
<1>1. Slots(k) \in SUBSET Ids
  BY DEF Slots
<1> QED
  BY <1>1, FS_Subset, FS_CardinalityType DEF CoordinatorAssumption

LEMMA SlotsAreCounted ==
    ASSUME CoordinatorAssumption, CallInv, NEW k \in Keys
    PROVE  Slots(k) \subseteq Counted(k)
<1> SUFFICES ASSUME NEW c \in Callers \ crossed, OnSlot(c), k \in KeysOf[idOf[c]],
                    idOf[c] \notin lapsed[k]
             PROVE  idOf[c] \in Counted(k)
  BY DEF Slots
<1>1. RedisType /\ CallerType /\ idOf[c] \in Ids
  BY TypeParts DEF CallInv, CallerType
<1>2. PICK left \in Nat, run \in Nat : Slot(c, left, run)
  BY <1>1 DEF CallInv, CallsSafe, HolderSafe, OnSlot, Holding, CallerType, CoordinatorAssumption
<1> QED
  BY <1>1, <1>2 DEF Slot, KeyKept, Counted, RedisType, CoordinatorAssumption

\* A call comes to a slot by the admission script, and keeps what it has.
LEMMA OwnSlot ==
    ASSUME CoordinatorAssumption, CallInv, NEW c \in Callers \ crossed,
           Start(c) \/ Proceed(c) \/ Disturb(c), OnSlot(c)'
    PROVE  \/ OnSlot(c) /\ lapsed' = lapsed
           \/ \E offer \in Offers : TryAdmitGrant(idOf[c], offer)
<1>0. CallerType /\ Roles /\ WaiterSafe(c)
  BY TypeParts DEF CallInv, CallsSafe
<1> USE DEF OnSlot, Holding, CallerType, Goto
<1>1. CASE Start(c) \/ Enqueue(c) \/ EnqueueReply(c) \/ Retry(c) \/ Refused(c)
  BY <1>0, <1>1 DEF Start, Enqueue, EnqueueReply, Retry, Refused, GiveUp
<1>2. CASE Granted(c) \/ Heartbeat(c) \/ HeartbeatFails(c)
  BY <1>0, <1>2 DEF Granted, Heartbeat, HeartbeatFails, HeartbeatScript, redisVars
<1>3. ASSUME NEW offer \in Offers, TryAdmit(c, offer)
      PROVE  TryAdmitGrant(idOf[c], offer)
  BY <1>0, <1>3 DEF TryAdmit, TryAdmitAgain, WaiterSafe, Polling
<1>4. CASE LateEnqueue(c) \/ Flush(c) \/ FlushFails(c) \/ CancelAgain(c)
  BY <1>0, <1>4 DEF LateEnqueue, Flush, FlushFails, EndCleanup, CancelAgain, Roles
<1>5. CASE Finish(c) \/ Release(c) \/ ReleaseFails(c) \/ Crash(c)
  BY <1>0, <1>5 DEF Finish, Release, ReleaseFails, Crash
<1>6. CASE ResolverFails(c) \/ Cancel(c) \/ CommandFails(c) \/ Overtaken(c)
  BY <1>0, <1>6 DEF ResolverFails, Cancel, CommandFails, Overtaken, GiveUp
<1> QED
  BY <1>1, <1>2, <1>3, <1>4, <1>5, <1>6 DEF Proceed, Disturb

\* Another's step gives no call a slot and forgets no fallen one.
LEMMA OthersSlots ==
    ASSUME CoordinatorAssumption, CallInv,
           NEW c \in Callers, Start(c) \/ Proceed(c) \/ Disturb(c),
           NEW d \in Callers, d # c, d \notin crossed', OnSlot(d)', NEW k \in Keys
    PROVE  OnSlot(d) /\ d \notin crossed /\ (idOf[d] \in lapsed'[k] <=> idOf[d] \in lapsed[k])
<1>1. OnSlot(d) /\ d \notin crossed
  BY OthersUndisturbed, Marked, TypeParts DEF CallInv, Undisturbed, OnSlot, Holding
<1>2. Spares(idOf[d])
  BY <1>1, StepSpares DEF CallInv, Mine, OnSlot
<1> QED
  BY <1>1, <1>2 DEF Spares

LEMMA StepWithinLimit ==
    ASSUME CoordinatorAssumption, CallInv, SlotsWithinLimit, [Next]_vars
    PROVE  SlotsWithinLimit'
<1> SUFFICES ASSUME NEW k \in Keys PROVE Cardinality(Slots(k)') <= Limit[k]
  BY DEF SlotsWithinLimit
<1>0. RedisType /\ CallerType
  BY TypeParts DEF CallInv
<1>1. IsFiniteSet(Slots(k)) /\ Cardinality(Slots(k)) \in Nat /\ Limit[k] \in Nat
      /\ Cardinality(Slots(k)) <= Limit[k]
  BY SlotsFinite DEF SlotsWithinLimit, CoordinatorAssumption
<1>2. ASSUME Slots(k)' \subseteq Slots(k) PROVE Cardinality(Slots(k)') <= Limit[k]
  <2>1. IsFiniteSet(Slots(k)') /\ Cardinality(Slots(k)') <= Cardinality(Slots(k))
    BY <1>1, <1>2, FS_Subset
  <2> QED
    BY <1>1, <2>1, FS_CardinalityType
<1>3. ASSUME NEW c \in Callers, Start(c) \/ Proceed(c) \/ Disturb(c)
      PROVE  Cardinality(Slots(k)') <= Limit[k]
  <2>0. idOf[c] \in Ids /\ idOf' = idOf /\ crossed \subseteq crossed'
    BY <1>0, <1>3, Marked DEF CallerType
  <2>1. CASE /\ k \in KeysOf[idOf[c]]
             /\ \E offer \in Offers : TryAdmitGrant(idOf[c], offer)
    <3>1. Slots(k)' \subseteq Slots(k) \cup {idOf[c]}
      BY <1>3, <2>0, OthersSlots DEF Slots
    <3>2. Cardinality(Counted(k)) < Limit[k]
      <4>1. PICK offer \in Offers : TryAdmitGrant(idOf[c], offer)
        BY <2>1
      <4>2. Cardinality(Counted(k)) < offer[k] /\ offer[k] <= Limit[k] /\ offer[k] \in Nat
        BY <2>1, <4>1 DEF TryAdmitGrant, Admissible, CoordinatorAssumption
      <4> QED
        BY <1>0, <1>1, <4>2, CountedFinite
    <3>3. Cardinality(Slots(k)) <= Cardinality(Counted(k))
      BY <1>0, CountedFinite, SlotsAreCounted, FS_Subset
    <3>4. Cardinality(Slots(k) \cup {idOf[c]}) <= Cardinality(Slots(k)) + 1
          /\ IsFiniteSet(Slots(k) \cup {idOf[c]})
          /\ Cardinality(Slots(k) \cup {idOf[c]}) \in Nat
      <4>1. IsFiniteSet(Slots(k) \cup {idOf[c]})
        BY <1>1, FS_AddElement
      <4>2. Cardinality(Slots(k) \cup {idOf[c]}) =
              IF idOf[c] \in Slots(k) THEN Cardinality(Slots(k)) ELSE Cardinality(Slots(k)) + 1
        BY <1>1, FS_AddElement, Zenon
      <4> QED
        BY <1>1, <4>1, <4>2, FS_CardinalityType
    <3>5. Cardinality(Slots(k)') <= Cardinality(Slots(k) \cup {idOf[c]})
          /\ Cardinality(Slots(k)') \in Nat
      BY <3>1, <3>4, FS_Subset, FS_CardinalityType
    <3> QED
      BY <1>0, <1>1, <3>2, <3>3, <3>4, <3>5, CountedFinite
  <2>2. CASE ~(/\ k \in KeysOf[idOf[c]]
               /\ \E offer \in Offers : TryAdmitGrant(idOf[c], offer))
    <3>1. ASSUME NEW d \in Callers, d \notin crossed', OnSlot(d)', k \in KeysOf[idOf[d]],
                 idOf[d] \notin lapsed'[k]
          PROVE  OnSlot(d) /\ d \notin crossed /\ idOf[d] \notin lapsed[k]
      BY <1>3, <2>0, <2>2, <3>1, OthersSlots, OwnSlot
    <3>2. Slots(k)' \subseteq Slots(k)
      BY <2>0, <3>1 DEF Slots
    <3> QED
      BY <1>2, <3>2
  <2> QED
    BY <2>1, <2>2
<1>4. CASE Tick
  <2>1. \A c \in Callers : OnSlot(c)' => OnSlot(c)
    BY <1>0, <1>4 DEF Tick, Less, OnSlot, Holding, CallerType
  <2>2. lapsed[k] \subseteq lapsed'[k] /\ idOf' = idOf /\ crossed' = crossed
    BY <1>0, <1>4 DEF Tick, RedisType
  <2>3. Slots(k)' \subseteq Slots(k)
    BY <2>1, <2>2 DEF Slots
  <2> QED
    BY <1>2, <2>3
<1>5. CASE UNCHANGED vars
  BY <1>1, <1>5 DEF vars, redisVars, callerVars, Slots, OnSlot, Holding
<1> QED
  BY <1>3, <1>4, <1>5 DEF Next

\* The calls that hold a slot in k stand behind identifiers of their own.
LEMMA HoldersFit ==
    ASSUME CoordinatorAssumption, CallInv, SlotsWithinLimit
    PROVE  HoldersWithinLimit
<1> SUFFICES ASSUME NEW k \in Keys PROVE Cardinality(Holders(k)) <= Limit[k]
  BY DEF HoldersWithinLimit
<1> DEFINE f == [c \in Holders(k) |-> idOf[c]]
<1>1. \A c, d \in Holders(k) : idOf[c] = idOf[d] => c = d
  BY DEF Holders, CallInv, Alone, Namesakes, Mine
<1>2. \A c \in Holders(k) : idOf[c] \in Slots(k)
  BY TypeParts DEF Holders, Slots, OnSlot, CallInv, CallerType
<1>3. f \in Injection(Holders(k), Slots(k))
  BY <1>1, <1>2 DEF Injection, IsInjective
<1>4. IsFiniteSet(Slots(k)) /\ Cardinality(Slots(k)) \in Nat
  BY SlotsFinite
<1>5. IsFiniteSet(Holders(k)) /\ Cardinality(Holders(k)) <= Cardinality(Slots(k))
  <2> HIDE DEF f
  <2> QED
    BY <1>3, <1>4, FS_Injection
<1>6. Cardinality(Holders(k)) \in Nat
  BY <1>5, FS_CardinalityType
<1>7. Cardinality(Slots(k)) <= Limit[k] /\ Limit[k] \in Nat
  BY DEF SlotsWithinLimit, CoordinatorAssumption
<1> QED
  BY <1>4, <1>5, <1>6, <1>7

\* No scope runs more live requests than its limit, for any number of calls
\* and any use of identifiers, but for those whose slot fell with its key.
THEOREM LimitsKept == Spec => []HoldersWithinLimit
<1> DEFINE Inv == CallInv /\ SlotsWithinLimit
<1>1. Init => Inv
  <2>1. Init => SlotsWithinLimit
    <3> SUFFICES ASSUME Init, NEW k \in Keys PROVE Cardinality(Slots(k)) <= Limit[k]
      BY DEF SlotsWithinLimit
    <3>1. Slots(k) = {}
      BY DEF Init, Slots, OnSlot, Holding
    <3> QED
      BY <3>1, FS_EmptySet, CoordinatorAssumption DEF CoordinatorAssumption
  <2> QED
    BY <2>1, CoordinatorAssumption, CallInvInductive
<1>2. Inv /\ [Next]_vars => Inv'
  BY CoordinatorAssumption, CallInvInductive, StepWithinLimit
<1>3. Inv => HoldersWithinLimit
  BY CoordinatorAssumption, HoldersFit
<1> QED
  BY <1>1, <1>2, <1>3, PTL DEF Spec

-----------------------------------------------------------------------------
(* RedisCoordinator implements ChatAdmission. *)

AbstractStep == Admission!Next \/ UNCHANGED Admission!vars

SameCounts == \A k \in Keys : Counted(k)' = Counted(k)

\* The instance brings its own name for the size of a set.
LEMMA SameCardinality == \A S : Admission!Cardinality(S) = Cardinality(S)
BY DEF Admission!Cardinality, Cardinality

LEMMA Stutters ==
    ASSUME SameCounts, state' = state, ticket' = ticket
    PROVE  AbstractStep
BY DEF SameCounts, AbstractStep, Admission!vars

\* A place behind everybody.
LEMMA EnqueueJoins ==
    ASSUME CoordinatorAssumption, RedisType, InLine, NEW r \in Ids, EnqueueScript(r)
    PROVE  Admission!Join(r)
<1>1. SameCounts
  BY DEF EnqueueScript, SameCounts, Counted
<1>2. \A q \in Ids : ticket'[r] > ticket[q]
  BY DEF EnqueueScript, InLine, RedisType
<1> QED
  BY <1>1, <1>2 DEF EnqueueScript, SameCounts, RedisType, Admission!Join

\* Every queued rival stands in a common first-come line, behind its head.
LEMMA GrantAdmits ==
    ASSUME CoordinatorAssumption, RedisType, InLine,
           NEW r \in Ids, NEW offer \in Offers, TryAdmitGrant(r, offer)
    PROVE  Admission!Admit(r)
<1> USE DEF RedisType, CoordinatorAssumption, TryAdmitGrant
<1>1. ASSUME NEW q \in Ids \ {r}, state[q] = "queued", Admission!Rivals(r, q)
      PROVE  ticket[r] < ticket[q]
  <2>1. PICK k \in KeysOf[r] \cap KeysOf[q] \cap FifoKeys : TRUE
    BY <1>1 DEF Admission!Rivals
  <2>2. q \in wait[k] /\ state[q] = "queued"
    BY <1>1, <2>1 DEF InLine
  <2>3. q \in CleanWait(k)
    BY <1>1, <2>2 DEF CleanWait
  <2>4. ticket[r] <= ticket[q]
    BY <2>1, <2>3 DEF Admissible, IsHead
  <2>5. ticket[r] # ticket[q]
    BY <1>1 DEF InLine, Admissible
  <2>6. ticket[r] \in Nat /\ ticket[q] \in Nat
    OBVIOUS
  <2> HIDE DEF RedisType, CoordinatorAssumption, TryAdmitGrant
  <2> QED
    BY <2>4, <2>5, <2>6
<1>2. ASSUME NEW k \in KeysOf[r] PROVE Cardinality(Counted(k)) < Limit[k]
  <2>1. Cardinality(Counted(k)) < offer[k] /\ offer[k] <= Limit[k]
        /\ offer[k] \in Nat /\ Limit[k] \in Nat
    BY DEF Admissible
  <2> QED
    BY <2>1, CountedFinite
<1>3. ASSUME NEW k \in Keys
      PROVE  Counted(k)' = IF k \in KeysOf[r] THEN Counted(k) \cup {r} ELSE Counted(k)
  BY DEF Counted, InLine
<1>4. state[r] = "queued" /\ state' = [state EXCEPT ![r] = "admitted"] /\ ticket' = ticket
  BY DEF Admissible
<1> QED
  BY <1>1, <1>2, <1>3, <1>4, SameCardinality DEF Admission!Admit

LEMMA ReleaseLeaves ==
    ASSUME CoordinatorAssumption, RedisType, OnRecord, NEW r \in Ids, ReleaseScript(r)
    PROVE  AbstractStep
<1>1. CASE state[r] \in {"queued", "admitted"}
  <2>1. ASSUME NEW k \in Keys PROVE Counted(k)' = Counted(k) \ {r}
    BY DEF ReleaseScript, Counted, RedisType
  <2>2. state' = [state EXCEPT ![r] = "ended"] /\ ticket' = ticket
    BY <1>1 DEF ReleaseScript, RedisType
  <2>3. Admission!Leave(r)
    BY <1>1, <2>1, <2>2 DEF Admission!Leave
  <2> QED
    BY <2>3 DEF AbstractStep, Admission!Next
<1>2. CASE state[r] \in {"none", "ended"}
  <2>1. lease[r] = 0
    BY <1>2 DEF OnRecord, RedisType
  <2>2. SameCounts
    BY <2>1 DEF ReleaseScript, SameCounts, Counted, RedisType
  <2>3. state' = state /\ ticket' = ticket
    BY <1>2 DEF ReleaseScript, RedisType
  <2> QED
    BY <2>2, <2>3, Stutters
<1> QED
  BY <1>1, <1>2 DEF RedisType

LEMMA QueueStepMaps ==
    ASSUME CoordinatorAssumption, RedisType, InLine, OnRecord, NEW r \in Ids,
           QueueScripts(r)
    PROVE  AbstractStep
<1>1. CASE EnqueueScript(r)
  BY <1>1, EnqueueJoins DEF AbstractStep, Admission!Next
<1>2. ASSUME NEW offer \in Offers, TryAdmitGrant(r, offer) PROVE AbstractStep
  BY <1>2, GrantAdmits DEF AbstractStep, Admission!Next
<1>3. ASSUME NEW offer \in Offers, TryAdmitRefuse(r, offer) PROVE AbstractStep
  <2>1. SameCounts /\ state' = state /\ ticket' = ticket
    BY <1>3 DEF TryAdmitRefuse, Pruned, SameCounts, Counted
  <2> QED
    BY <2>1, Stutters
<1>4. CASE TryAdmitAgain(r)
  <2>1. SameCounts /\ state' = state /\ ticket' = ticket
    BY <1>4 DEF TryAdmitAgain, Pruned, SameCounts, Counted
  <2> QED
    BY <2>1, Stutters
<1>5. CASE ReleaseScript(r)
  BY <1>5, ReleaseLeaves
<1> QED
  BY <1>1, <1>2, <1>3, <1>4, <1>5 DEF QueueScripts

\* A heartbeat counts its request again where it is not counted any more.
LEMMA HeartbeatRecounts ==
    ASSUME CoordinatorAssumption, RedisType, InLine, NEW r \in Ids, HeartbeatScript(r)
    PROVE  AbstractStep
<1>1. ASSUME NEW k \in Keys
      PROVE  Counted(k)' = IF k \in KeysOf[r] THEN Counted(k) \cup {r} ELSE Counted(k)
  BY DEF HeartbeatScript, Counted, RedisType, CoordinatorAssumption, InLine
<1>2. state[r] = "admitted" /\ state' = state /\ ticket' = ticket
  BY DEF HeartbeatScript
<1>3. Admission!Recount(r)
  BY <1>1, <1>2 DEF Admission!Recount
<1> QED
  BY <1>3 DEF AbstractStep, Admission!Next

LEMMA StepMaps ==
    ASSUME CoordinatorAssumption, TypeOK, OnRecord, InLine, [Next]_vars
    PROVE  AbstractStep
<1>0. RedisType /\ CallerType
  BY TypeParts
<1>1. ASSUME NEW c \in Callers, Start(c) \/ Proceed(c) \/ Disturb(c)
      PROVE  AbstractStep
  <2>0. idOf[c] \in Ids
    BY <1>0 DEF CallerType
  <2>1. CASE UNCHANGED redisVars
    <3>1. SameCounts /\ state' = state /\ ticket' = ticket
      BY <2>1 DEF redisVars, SameCounts, Counted
    <3> QED
      BY <3>1, Stutters
  <2>2. CASE QueueScripts(idOf[c])
    BY <1>0, <2>0, <2>2, QueueStepMaps
  <2>3. CASE HeartbeatScript(idOf[c])
    BY <1>0, <2>0, <2>3, HeartbeatRecounts
  <2> QED
    BY <1>1, <2>1, <2>2, <2>3, RedisStep DEF Scripts
<1>2. CASE Tick
  <2>1. ASSUME NEW k \in Keys, NEW r \in Counted(k)'
        PROVE  r \in Counted(k) /\ state'[r] = state[r]
    BY <1>0, <1>2 DEF Tick, Less, Counted, RedisType, OnRecord, CoordinatorAssumption
  <2>2. Admission!Expire
    BY <1>0, <1>2, <2>1 DEF Tick, RedisType, Admission!Expire
  <2> QED
    BY <2>2 DEF AbstractStep, Admission!Next
<1>3. CASE UNCHANGED vars
  <2>1. SameCounts /\ state' = state /\ ticket' = ticket
    BY <1>3 DEF vars, redisVars, SameCounts, Counted
  <2> QED
    BY <2>1, Stutters
<1> QED
  BY <1>1, <1>2, <1>3 DEF Next

\* The scripts, heartbeats, TTLs and coroutines give first-come admission
\* within the limits: every step is a step of ChatAdmission or changes nothing
\* that it sees.
THEOREM CoordinatorImplements == Spec => Implements
<1> DEFINE Inv == TypeOK /\ OnRecord /\ InLine
<1>1. Init => Admission!Init /\ Inv
  BY CoordinatorAssumption DEF Init, Counted, Admission!Init, TypeOK, OnRecord, InLine,
     CoordinatorAssumption
<1>2. Inv /\ [Next]_vars => [Admission!Next]_(Admission!vars)
  BY CoordinatorAssumption, StepMaps DEF AbstractStep
<1>3. Inv /\ [Next]_vars => Inv'
  BY CoordinatorAssumption, StepType, StepRecordAndLine
<1> QED
  BY <1>1, <1>2, <1>3, PTL DEF Spec, Implements, Admission!Spec

-----------------------------------------------------------------------------
(* Nothing is left behind. *)

\* A call that will give back what its identifier holds in Redis, or has put a
\* release of it into the deferred batch.
Answers(c) ==
    \/ pc[c] \in {"enqueued", "resolve", "granted", "refused", "wait", "running", "closing"}
    \/ c \in deferred

\* While nothing has failed no command overtakes its call, and somebody answers
\* for every identifier on record as queued or admitted.
Answered ==
    faults = 0 =>
        /\ late = {}
        /\ \A r \in Ids :
              state[r] \in {"queued", "admitted"} => \E c \in Callers : idOf[c] = r /\ Answers(c)

\* A step after which a call still answers, if it did before or has queued its
\* identifier, and that queues no other identifier.
LEMMA StillAnswered ==
    ASSUME CoordinatorAssumption, TypeOK, Answered, NEW c \in Callers,
           idOf' = idOf, faults' = 0 => faults = 0,
           late' \subseteq late,
           \A d \in Callers \ {c} : pc'[d] = pc[d] /\ (d \in deferred => d \in deferred'),
           \A r \in Ids : state'[r] \in {"queued", "admitted"} =>
               \/ r = idOf[c] /\ Answers(c)'
               \/ /\ state[r] \in {"queued", "admitted"}
                  /\ r = idOf[c] /\ Answers(c) => Answers(c)'
    PROVE  Answered'
BY DEF Answered, Answers

LEMMA StepAnswered ==
    ASSUME CoordinatorAssumption, TypeOK, Answered, [Next]_vars
    PROVE  Answered'
<1>0. RedisType /\ CallerType
  BY TypeParts
<1>1. ASSUME NEW c \in Callers, Start(c) \/ Proceed(c) PROVE Answered'
  <2>0. idOf[c] \in Ids /\ idOf' = idOf
    BY <1>0, <1>1, Marked DEF CallerType
  <2>1. CASE Start(c) \/ EnqueueReply(c) \/ Granted(c) \/ Retry(c) \/ Finish(c)
    <3>1. /\ Answers(c) => Answers(c)'
          /\ UNCHANGED <<state, late, faults, deferred>>
          /\ \A d \in Callers \ {c} : pc'[d] = pc[d]
      BY <1>0, <2>0, <2>1
         DEF Start, EnqueueReply, Granted, Retry, Finish, Goto, redisVars, CallerType, Answers
    <3> QED
      BY <2>0, <3>1, StillAnswered
  <2>2. CASE Enqueue(c)
    <3>1. /\ Answers(c) => Answers(c)'
          /\ UNCHANGED <<late, faults, deferred>>
          /\ \A d \in Callers \ {c} : pc'[d] = pc[d]
      BY <1>0, <2>2 DEF Enqueue, Goto, CallerType, Answers
    <3>2. \/ state' = state
          \/ state' = [state EXCEPT ![idOf[c]] = "queued"] /\ Answers(c)'
      BY <1>0, <2>2 DEF Enqueue, EnqueueScript, Goto, redisVars, CallerType, Answers
    <3> QED
      BY <1>0, <2>0, <3>1, <3>2, StillAnswered DEF RedisType
  <2>3. ASSUME NEW offer \in Offers, TryAdmit(c, offer) PROVE Answered'
    BY <1>0, <2>0, <2>3, StillAnswered
       DEF TryAdmit, TryAdmitGrant, TryAdmitAgain, TryAdmitRefuse, Goto, CallerType,
           RedisType, Answers
  <2>4. CASE Refused(c)
    <3>1. /\ Answers(c)'
          /\ UNCHANGED <<state, late, faults>>
          /\ \A d \in Callers \ {c} : pc'[d] = pc[d] /\ (d \in deferred => d \in deferred')
      BY <1>0, <2>4 DEF Refused, GiveUp, Goto, redisVars, CallerType, Answers
    <3> QED
      BY <2>0, <3>1, StillAnswered
  <2>5. CASE Flush(c) \/ Release(c)
    <3>1. /\ state'[idOf[c]] \in {"none", "ended"}
          /\ \A r \in Ids \ {idOf[c]} : state'[r] = state[r]
          /\ UNCHANGED <<late, faults>>
      BY <1>0, <2>0, <2>5 DEF Flush, Release, EndCleanup, ReleaseScript, RedisType
    <3>2. \A d \in Callers \ {c} : pc'[d] = pc[d] /\ (d \in deferred => d \in deferred')
      BY <1>0, <2>5 DEF Flush, Release, EndCleanup, Goto, CallerType
    <3> QED
      BY <2>0, <3>1, <3>2, StillAnswered
  <2>6. CASE Heartbeat(c)
    BY <1>0, <2>0, <2>6, StillAnswered DEF Heartbeat, HeartbeatScript, redisVars, Answers
  <2>7. CASE LateEnqueue(c)
    BY <2>7 DEF LateEnqueue, Answered
  <2> QED
    BY <1>1, <2>1, <2>2, <2>3, <2>4, <2>5, <2>6, <2>7 DEF Proceed
<1>2. ASSUME NEW c \in Callers, Disturb(c) PROVE Answered'
  <2>0. idOf' = idOf
    BY <1>2, Marked
  <2>1. CASE Cancel(c) \/ CancelAgain(c)
    BY <1>0, <2>0, <2>1, StillAnswered
       DEF Cancel, GiveUp, CancelAgain, Interruptible, Goto, redisVars, CallerType, Answers
  <2>2. CASE faults' = faults + 1
    BY <1>0, <2>2 DEF Answered, CallerType
  <2> QED
    BY <1>2, <2>1, <2>2 DEF Disturb, ResolverFails, CommandFails, Overtaken, FlushFails,
       ReleaseFails, HeartbeatFails, Crash
<1>3. CASE Tick
  BY <1>0, <1>3 DEF Tick, Answered, Answers, RedisType
<1>4. CASE UNCHANGED vars
  BY <1>4 DEF vars, redisVars, callerVars, Answered, Answers
<1> QED
  BY <1>1, <1>2, <1>3, <1>4 DEF Next

\* Cancellations and timeouts leak no place and no slot while no command and
\* no capacity lookup fails (acquire() passes that error on without a release)
\* and nothing crashes, also when a repeated send uses an identifier again.
THEOREM NothingIsLeaked == Spec => []NothingLeaked
<1>1. Init => TypeOK /\ Answered
  BY CoordinatorAssumption DEF Init, TypeOK, Answered, CoordinatorAssumption
<1>2. TypeOK /\ Answered /\ [Next]_vars => (TypeOK /\ Answered)'
  BY CoordinatorAssumption, StepType, StepAnswered
<1>3. TypeOK /\ Answered => NothingLeaked
  BY DEF Answered, Answers, NothingLeaked, UnderWay
<1> QED
  BY <1>1, <1>2, <1>3, PTL DEF Spec
=============================================================================
