---------------------- MODULE SubscriptionCacheProofs ----------------------
(***************************************************************************)
(* Proofs about SubscriptionCache: however many calls, processes and roles *)
(* there are and whatever fails, a replaced subscription is shown for a    *)
(* bounded time only.                                                      *)
(***************************************************************************)
EXTENDS SubscriptionCache, TLAPS

\* Steps of one call.
Act(c) == Get(c) \/ Mutate(c) \/ Step(c) \/ RenewFails(c) \/ Cancel(c)

USE DEF PC

\* The versions 0..MaxVersion, for steps that need no arithmetic on them.
LEMMA VersionFacts ==
    ASSUME CacheAssumption
    PROVE  /\ Versions \subseteq Nat /\ 0 \in Versions
           /\ \A v \in Versions : v < MaxVersion => v + 1 \in Versions
BY DEF CacheAssumption, Versions

LEMMA InitType == CacheAssumption /\ Init => TypeOK
BY VersionFacts DEF Init, TypeOK

\* A step of one call keeps every variable in its type.
LEMMA ActType ==
    ASSUME CacheAssumption, TypeOK, NEW c \in Callers, Act(c)
    PROVE  TypeOK'
<1> USE DEF CacheAssumption, TypeOK, Goto, Begin, End, Succeeds, Fails,
            redisVars, dbVars, callVars
<1> ProcessOf[c] \in Processes
  BY DEF Processes
<1> USE VersionFacts
<1>1. CASE Get(c)
  BY <1>1 DEF Get
<1>2. CASE Mutate(c)
  BY <1>2 DEF Mutate
<1>3. CASE RenewFails(c)
  BY <1>3 DEF RenewFails
<1>4. CASE Cancel(c)
  BY <1>4 DEF Cancel, LoseLock
<1>5. CASE Lookup(c)
  BY <1>5 DEF Lookup
<1>6. CASE EnterLocal(c)
  BY <1>6 DEF EnterLocal
<1>7. CASE Recheck(c)
  BY <1>7 DEF Recheck
<1>8. CASE Lock(c)
  BY <1>8 DEF Lock, TakeLock, TakeLockFails
<1>9. CASE Fill(c)
  BY <1>9 DEF Fill
<1>10. CASE Read(c)
  BY <1>10 DEF Read
<1>11. CASE Store(c)
  BY <1>11 DEF Store, SetCached
<1>12. CASE Release(c)
  BY <1>12 DEF Release, DropLock, LoseLock
<1>13. CASE Contend(c)
  BY <1>13 DEF Contend, TakeLock, TakeLockFails
<1>14. CASE Commit(c)
  BY <1>14 DEF Commit, NewVersion
<1>15. CASE Invalidate(c)
  BY <1>15 DEF Invalidate, Forget
<1>16. CASE LateCommit(c)
  BY <1>16 DEF LateCommit, NewVersion
<1> QED
  BY <1>1, <1>2, <1>3, <1>4, <1>5, <1>6, <1>7, <1>8, <1>9, <1>10, <1>11, <1>12,
     <1>13, <1>14, <1>15, <1>16 DEF Act, Step

LEMMA CrashType ==
    ASSUME CacheAssumption, TypeOK, NEW p \in Processes, Crash(p)
    PROVE  TypeOK'
BY VersionFacts DEF TypeOK, Crash, dbVars

LEMMA TickType ==
    ASSUME CacheAssumption, TypeOK, Tick
    PROVE  TypeOK'
<1> USE DEF TypeOK
<1>1. ttl' \in [Roles -> Nat] /\ cached' \in [Roles -> Versions]
  BY VersionFacts DEF Tick, Less
<1>2. retired' \in [Versions -> Nat] /\ timer' \in [Callers -> Nat]
  BY VersionFacts DEF Tick
<1>3. lock' \in Callers \cup {Free, Lost} /\ lockTTL' \in Nat
  <2>1. CASE lock \in renewing
    BY <2>1 DEF Tick, CacheAssumption
  <2>2. CASE lock \notin renewing
    BY <2>2 DEF Tick, Less
  <2> QED
    BY <2>1, <2>2
<1> QED
  BY <1>1, <1>2, <1>3 DEF Tick

\* Type correctness.
THEOREM CacheTypeCorrect == ASSUME CacheAssumption PROVE Spec => []TypeOK
<1>1. Init => TypeOK
  BY InitType
<1>2. TypeOK /\ [Next]_vars => TypeOK'
  <2> SUFFICES ASSUME TypeOK, [Next]_vars PROVE TypeOK'
    OBVIOUS
  <2>1. CASE UNCHANGED vars
    BY <2>1 DEF TypeOK, vars, redisVars
  <2> QED
    BY <2>1, ActType, CrashType, TickType DEF Next, Act
<1> QED
  BY <1>1, <1>2, PTL DEF Spec

-----------------------------------------------------------------------------
(* How old a snapshot can be. *)

\* Database work and what follows it at once has taken no longer than allowed.
Timely ==
    \A c \in Callers :
        pc[c] \in {"reading", "read", "mutating", "committed", "publish"} =>
            timer[c] <= MaxWork

\* The current version, and those to come, have not been replaced yet.
Unretired == \A v \in Versions : v >= version => retired[v] = 0

\* What a call is about to store was replaced, if at all, while it worked.
HeldFresh ==
    \A c \in Callers :
        pc[c] \in {"read", "committed", "publish"} /\ payload[c] < version =>
            retired[payload[c]] <= timer[c]

\* The older a replaced snapshot, the less time it has left.
SnapshotFresh ==
    \A r \in Roles :
        /\ ttl[r] <= MaxTTL
        /\ ttl[r] > 0 /\ cached[r] < version => retired[cached[r]] + ttl[r] <= Bound

Fresh == Timely /\ Unretired /\ HeldFresh /\ SnapshotFresh

\* Steps that leave the snapshots and the database alone, and put no version
\* into a call's hands.
LEMMA OtherStep ==
    ASSUME CacheAssumption, TypeOK, Fresh, NEW c \in Callers,
           UNCHANGED <<version, retired, cached, ttl>>,
           pc' = [pc EXCEPT ![c] = pc'[c]],
           timer' = [timer EXCEPT ![c] = timer'[c]],
           payload' = [payload EXCEPT ![c] = payload'[c]],
           pc'[c] \in {"reading", "read", "mutating", "committed", "publish"} =>
               timer'[c] <= MaxWork,
           pc'[c] \in {"read", "committed", "publish"} /\ payload'[c] < version =>
               retired[payload'[c]] <= timer'[c]
    PROVE  Fresh'
<1>1. Timely'
  BY DEF Fresh, Timely, TypeOK
<1>2. HeldFresh'
  BY DEF Fresh, HeldFresh, TypeOK
<1>3. Unretired' /\ SnapshotFresh'
  BY DEF Fresh, Unretired, SnapshotFresh, Versions, Bound
<1> QED
  BY <1>1, <1>2, <1>3 DEF Fresh

\* A new version replaces the current one, whose age starts at zero.
LEMMA NewVersionStep ==
    ASSUME CacheAssumption, TypeOK, Fresh, NEW c \in Callers, NewVersion,
           UNCHANGED <<retired, cached, ttl, timer>>,
           pc' = [pc EXCEPT ![c] = pc'[c]],
           payload' = [payload EXCEPT ![c] = payload'[c]],
           \/ pc[c] = "mutating" /\ pc'[c] = "committed" /\ payload'[c] = version'
           \/ UNCHANGED <<pc, payload>>
    PROVE  Fresh'
<1> USE VersionFacts DEF TypeOK
<1>1. version' = version + 1 /\ version \in Nat /\ version \in Versions
  BY DEF NewVersion
<1>2. retired[version] = 0
  BY <1>1 DEF Fresh, Unretired
<1>3. Timely'
  BY DEF Fresh, Timely
<1>4. Unretired'
  BY <1>1 DEF Fresh, Unretired
<1>5. HeldFresh'
  <2> SUFFICES ASSUME NEW d \in Callers, payload'[d] < version',
                      pc'[d] \in {"read", "committed", "publish"}
               PROVE  retired[payload'[d]] <= timer[d]
    BY DEF HeldFresh
  <2>1. payload'[d] = payload[d] /\ pc'[d] = pc[d]
    BY <1>1
  <2>2. payload[d] \in Nat /\ timer[d] \in Nat
    OBVIOUS
  <2>3. CASE payload[d] = version
    BY <1>2, <2>1, <2>2, <2>3
  <2>4. CASE payload[d] < version
    BY <2>1, <2>4 DEF Fresh, HeldFresh
  <2> QED
    BY <1>1, <2>1, <2>2, <2>3, <2>4
<1>6. SnapshotFresh'
  <2> SUFFICES ASSUME NEW r \in Roles
               PROVE  /\ ttl[r] <= MaxTTL
                      /\ ttl[r] > 0 /\ cached[r] < version'
                            => retired[cached[r]] + ttl[r] <= Bound
    BY DEF SnapshotFresh
  <2>1. cached[r] \in Nat /\ ttl[r] \in Nat
    OBVIOUS
  <2> QED
    BY <1>1, <1>2, <2>1 DEF Fresh, SnapshotFresh, Bound, CacheAssumption
<1> QED
  BY <1>3, <1>4, <1>5, <1>6 DEF Fresh

LEMMA InitFresh == CacheAssumption /\ Init => Fresh
BY VersionFacts DEF CacheAssumption, Init, Fresh, Timely, Unretired, HeldFresh,
   SnapshotFresh, Versions

\* Storing: the version was replaced no longer ago than the work took.
LEMMA StoreFresh ==
    ASSUME CacheAssumption, TypeOK, Fresh, NEW c \in Callers, Store(c)
    PROVE  Fresh'
<1> USE DEF Store, End, Begin, Goto, dbVars
<1>1. Timely' /\ HeldFresh'
  BY DEF TypeOK, Fresh, Timely, HeldFresh
<1>2. Unretired'
  BY DEF Fresh, Unretired
<1>3. SnapshotFresh'
  <2>1. CASE UNCHANGED <<cached, ttl>>
    BY <2>1 DEF Fresh, SnapshotFresh
  <2>2. CASE SetCached(c)
    <3>1. PICK left \in 1..MaxTTL : ttl' = [ttl EXCEPT ![RoleOf[c]] = left]
      BY <2>2 DEF SetCached
    <3>2. payload[c] < version => retired[payload[c]] <= MaxWork
      BY VersionFacts DEF Fresh, Timely, HeldFresh, TypeOK, CacheAssumption
    <3>3. left <= MaxTTL /\ (payload[c] < version => retired[payload[c]] + left <= Bound)
      BY <3>1, <3>2, VersionFacts DEF Bound, TypeOK, CacheAssumption
    <3> QED
      BY <2>2, <3>1, <3>3, VersionFacts
         DEF SetCached, Fresh, SnapshotFresh, TypeOK, CacheAssumption
  <2> QED
    BY <2>1, <2>2
<1> QED
  BY <1>1, <1>2, <1>3 DEF Fresh

LEMMA ForgetFresh ==
    ASSUME CacheAssumption, TypeOK, Fresh, NEW c \in Callers, Invalidate(c)
    PROVE  Fresh'
<1> USE DEF Invalidate, Goto, dbVars, callVars
<1>1. Timely' /\ HeldFresh'
  BY DEF TypeOK, Fresh, Timely, HeldFresh
<1>2. Unretired'
  BY DEF Fresh, Unretired
<1>3. SnapshotFresh'
  BY DEF Forget, Fresh, SnapshotFresh, CacheAssumption
<1> QED
  BY <1>1, <1>2, <1>3 DEF Fresh

LEMMA ActFresh ==
    ASSUME CacheAssumption, TypeOK, Fresh, NEW c \in Callers, Act(c)
    PROVE  Fresh'
<1> USE DEF Goto, Begin, End, Succeeds, Fails, redisVars, dbVars, callVars
<1>0. timer[c] \in Nat /\ pc[c] \in PC /\ MaxWork \in Nat
      /\ pc \in [Callers -> PC] /\ timer \in [Callers -> Nat]
      /\ payload \in [Callers -> Versions]
  BY DEF TypeOK, CacheAssumption
<1>1. CASE Get(c)
  BY <1>0, <1>1, OtherStep DEF Get
<1>2. CASE Mutate(c)
  BY <1>0, <1>2, OtherStep DEF Mutate
<1>3. CASE RenewFails(c)
  BY <1>0, <1>3, OtherStep DEF RenewFails, Fresh, Timely, HeldFresh
<1>4. CASE Cancel(c)
  BY <1>0, <1>4, OtherStep DEF Cancel, LoseLock
<1>5. CASE Lookup(c)
  BY <1>0, <1>5, OtherStep DEF Lookup
<1>6. CASE EnterLocal(c)
  <2>1. CASE c \in online
    BY <1>0, <1>6, <2>1, OtherStep DEF EnterLocal
  <2>2. CASE c \notin online
    <3>1. pc' = [pc EXCEPT ![c] = "reading"] /\ timer' = [timer EXCEPT ![c] = 0]
          /\ UNCHANGED <<version, retired, cached, ttl, payload>>
      BY <1>6, <2>2 DEF EnterLocal
    <3>2. pc'[c] = "reading" /\ timer'[c] = 0
      BY <1>0, <3>1
    <3>3. /\ payload' = [payload EXCEPT ![c] = payload'[c]]
          /\ pc' = [pc EXCEPT ![c] = pc'[c]] /\ timer' = [timer EXCEPT ![c] = timer'[c]]
      BY <1>0, <3>1, <3>2
    <3>4. timer'[c] <= MaxWork
      BY <1>0, <3>2
    <3> QED
      BY <3>1, <3>2, <3>3, <3>4, OtherStep
  <2> QED
    BY <2>1, <2>2
<1>7. CASE Recheck(c)
  BY <1>0, <1>7, OtherStep DEF Recheck
<1>8. CASE Lock(c)
  BY <1>0, <1>8, OtherStep DEF Lock, TakeLock, TakeLockFails
<1>9. CASE Fill(c)
  BY <1>0, <1>9, OtherStep DEF Fill
<1>10. CASE Read(c)
  <2>1. timer[c] <= MaxWork /\ version \in Nat
    BY <1>10, VersionFacts DEF Read, Fresh, Timely, TypeOK
  <2>2. CASE payload' = [payload EXCEPT ![c] = version] /\ UNCHANGED timer
             /\ pc' = [pc EXCEPT ![c] = "read"]
    <3>1. ~(payload'[c] < version)
      BY <1>0, <2>1, <2>2
    <3>2. timer'[c] <= MaxWork
      BY <2>1, <2>2
    <3> QED
      BY <1>0, <1>10, <2>2, <3>1, <3>2, OtherStep DEF Read
  <2>3. CASE End(c)
    BY <1>0, <1>10, <2>3, OtherStep DEF Read
  <2> QED
    BY <1>10, <2>2, <2>3 DEF Read
<1>11. CASE Store(c)
  BY <1>11, StoreFresh
<1>12. CASE Release(c)
  BY <1>0, <1>12, OtherStep DEF Release, DropLock, LoseLock
<1>13. CASE Contend(c)
  BY <1>0, <1>13, OtherStep DEF Contend, TakeLock, TakeLockFails
<1>14. CASE Commit(c)
  <2>1. CASE NewVersion /\ pc' = [pc EXCEPT ![c] = "committed"] /\ UNCHANGED timer
             /\ payload' = [payload EXCEPT ![c] = version']
    BY <1>0, <1>14, <2>1, NewVersionStep DEF Commit
  <2>2. CASE End(c) /\ UNCHANGED version
    BY <1>0, <1>14, <2>2, OtherStep DEF Commit
  <2> QED
    BY <1>14, <2>1, <2>2 DEF Commit
<1>15. CASE Invalidate(c)
  BY <1>15, ForgetFresh
<1>16. CASE LateCommit(c)
  BY <1>0, <1>16, NewVersionStep DEF LateCommit
<1> QED
  BY <1>1, <1>2, <1>3, <1>4, <1>5, <1>6, <1>7, <1>8, <1>9, <1>10, <1>11, <1>12,
     <1>13, <1>14, <1>15, <1>16 DEF Act, Step

LEMMA CrashFresh ==
    ASSUME CacheAssumption, TypeOK, Fresh, NEW p \in Processes, Crash(p)
    PROVE  Fresh'
<1> USE DEF Crash, dbVars, TypeOK
<1>1. Timely' /\ HeldFresh'
  BY DEF Fresh, Timely, HeldFresh
<1>2. Unretired' /\ SnapshotFresh'
  BY DEF Fresh, Unretired, SnapshotFresh
<1> QED
  BY <1>1, <1>2 DEF Fresh

\* A tick ages replaced versions, work and snapshots alike.
LEMMA TickFresh ==
    ASSUME CacheAssumption, TypeOK, Fresh, Tick
    PROVE  Fresh'
<1> USE VersionFacts DEF TypeOK
<1>1. Timely'
  BY DEF Fresh, Timely, Tick, Quiet, Working, Waiting, CacheAssumption
<1>2. Unretired'
  BY DEF Fresh, Unretired, Tick
<1>3. HeldFresh'
  <2> SUFFICES ASSUME NEW c \in Callers, payload[c] < version,
                      pc[c] \in {"read", "committed", "publish"}
               PROVE  retired'[payload[c]] <= timer'[c]
    BY DEF HeldFresh, Tick
  <2>1. pc[c] = "read"
    BY DEF Tick, Quiet, Working, Waiting
  <2>2. timer'[c] = timer[c] + 1 /\ retired[payload[c]] <= timer[c]
    BY <2>1 DEF Tick, Working, Fresh, HeldFresh
  <2>3. retired'[payload[c]] <= retired[payload[c]] + 1
    BY DEF Tick
  <2> QED
    BY <2>2, <2>3 DEF Tick
<1>4. SnapshotFresh'
  <2> SUFFICES ASSUME NEW r \in Roles
               PROVE  /\ ttl'[r] <= MaxTTL
                      /\ ttl'[r] > 0 /\ cached'[r] < version
                            => retired'[cached'[r]] + ttl'[r] <= Bound
    BY DEF SnapshotFresh, Tick
  <2>1. CASE ttl[r] <= 1
    BY <2>1 DEF Tick, Less, CacheAssumption
  <2>2. CASE ttl[r] > 1
    <3>1. ttl'[r] = ttl[r] - 1 /\ cached'[r] = cached[r]
      BY <2>2 DEF Tick, Less
    <3>2. retired'[cached[r]] <= retired[cached[r]] + 1
      BY DEF Tick
    <3>3. cached[r] < version => retired[cached[r]] + ttl[r] <= Bound
      BY <2>2 DEF Fresh, SnapshotFresh
    <3>4. ttl[r] <= MaxTTL
      BY DEF Fresh, SnapshotFresh
    <3>5. retired'[cached[r]] \in Nat /\ retired[cached[r]] \in Nat /\ ttl[r] \in Nat
          /\ MaxTTL \in Nat /\ Bound \in Nat
      BY DEF Tick, Bound, CacheAssumption
    <3> QED
      BY <3>1, <3>2, <3>3, <3>4, <3>5
  <2> QED
    BY <2>1, <2>2
<1> QED
  BY <1>1, <1>2, <1>3, <1>4 DEF Fresh

\* Whatever fails, is cancelled or dies, a replaced subscription is shown for
\* less than one database read and one snapshot can last.
THEOREM StalenessBounded == ASSUME CacheAssumption PROVE Spec => []StaleIsBounded
<1> DEFINE IInv == TypeOK /\ Fresh
<1>1. Init => IInv
  BY InitType, InitFresh
<1>2. IInv /\ [Next]_vars => IInv'
  <2> SUFFICES ASSUME IInv, [Next]_vars PROVE IInv'
    OBVIOUS
  <2>1. CASE UNCHANGED vars
    BY <2>1 DEF TypeOK, Fresh, Timely, Unretired, HeldFresh, SnapshotFresh,
       vars, redisVars
  <2>2. ASSUME NEW c \in Callers, Act(c) PROVE IInv'
    BY <2>2, ActType, ActFresh
  <2>3. ASSUME NEW p \in Processes, Crash(p) PROVE IInv'
    BY <2>3, CrashType, CrashFresh
  <2>4. CASE Tick
    BY <2>4, TickType, TickFresh
  <2> QED
    BY <2>1, <2>2, <2>3, <2>4 DEF Next, Act
<1>3. IInv => StaleIsBounded
  <2> SUFFICES ASSUME IInv, NEW r \in Roles, ttl[r] > 0, cached[r] < version
               PROVE  retired[cached[r]] < Bound
    BY DEF StaleIsBounded
  <2>1. retired[cached[r]] + ttl[r] <= Bound
    BY DEF Fresh, SnapshotFresh
  <2>2. ttl[r] \in Nat /\ retired[cached[r]] \in Nat /\ Bound \in Nat
    BY DEF TypeOK, Bound, CacheAssumption
  <2> QED
    BY <2>1, <2>2
<1> QED
  BY <1>1, <1>2, <1>3, PTL DEF Spec

-----------------------------------------------------------------------------
(* Coherence while Redis is healthy. *)

\* Redis answers, one database call takes less than a reader's patience, and
\* all calls ask for one role: a reader of another role would wait for a fill
\* that never comes, and go to the database beside the lock's holder.
Patient ==
    /\ MaxFaults = 0
    /\ MaxWork < LockWait
    /\ \A c, d \in Callers : RoleOf[c] = RoleOf[d]

\* From taking the lock to giving it back.
Holding == {"reading", "read", "mutating", "committed", "publish", "release"}

\* Nobody has lost Redis, and nobody outlives its call.
Healthy ==
    /\ backoff = {}
    /\ detached = {}
    /\ \A c \in Callers : pc[c] # "idle" => c \in online

\* The lock is held exactly by the call that is between taking it and giving
\* it back, and renewed until that call ends.
LockIsHeld ==
    /\ lock # Lost
    /\ \A c \in Callers :
        /\ pc[c] # "relocking"
        /\ lock = c <=> pc[c] \in Holding
        /\ c \in token <=> pc[c] \in Holding
        /\ c \in renewing <=> pc[c] \in Holding \ {"release"}

\* What a call has read or written is the committed version, and there is a
\* snapshot of it when the lock is given back.
HolderIsCurrent ==
    \A c \in Callers :
        /\ pc[c] \in {"read", "committed", "publish"} => payload[c] = version
        /\ pc[c] = "release" => Hit(c)

\* A reader that waits for a fill began to wait after the holder began to work.
FillIsComing ==
    \A c \in Callers :
        pc[c] = "filling" =>
            /\ timer[c] <= MaxWork
            /\ \/ Hit(c)
               \/ \E d \in Callers :
                    /\ lock = d
                    /\ \/ pc[d] = "publish"
                       \/ /\ pc[d] \in {"reading", "read", "mutating", "committed"}
                          /\ timer[c] <= timer[d]

Steady == Healthy /\ LockIsHeld /\ HolderIsCurrent /\ FillIsComing /\ Coherent

\* Without faults a command of Redis takes effect and is answered.
LEMMA NoFaults ==
    ASSUME Patient, TypeOK
    PROVE  ~(faults < MaxFaults)
BY DEF Patient, TypeOK

LEMMA InitSteady == ASSUME CacheAssumption, Patient, TokenAssumption, Init PROVE Steady
BY DEF Init, Steady, Healthy, LockIsHeld, HolderIsCurrent, FillIsComing, Coherent,
   Holding, Hit, Free, Lost, TokenAssumption

\* A step between two labels outside of the lock, or inside of it, that changes
\* neither the subscription nor a snapshot.
LEMMA QuietStep ==
    ASSUME CacheAssumption, Patient, TypeOK, Steady, NEW c \in Callers,
           UNCHANGED <<version, cached, ttl, lock, token, renewing, backoff, detached>>,
           pc' = [pc EXCEPT ![c] = pc'[c]],
           timer' = [timer EXCEPT ![c] = timer'[c]],
           payload' = [payload EXCEPT ![c] = payload'[c]],
           \/ pc[c] \notin Holding /\ pc'[c] \notin Holding
           \/ pc[c] = "reading" /\ pc'[c] = "read" /\ payload'[c] = version
              /\ UNCHANGED timer,
           pc'[c] # "relocking",
           pc'[c] # "idle" => c \in online',
           online \ {c} \subseteq online',
           pc'[c] = "filling" =>
               \/ pc[c] = "filling" /\ UNCHANGED timer
               \/ timer'[c] = 0 /\ lock # Free
    PROVE  Steady'
<1> USE DEF TypeOK
<1>1. Healthy'
  BY DEF Steady, Healthy
<1>2. LockIsHeld'
  BY DEF Steady, LockIsHeld, Holding
<1>3. HolderIsCurrent'
  BY DEF Steady, HolderIsCurrent, Holding, Hit
<1>4. FillIsComing'
  <2> SUFFICES ASSUME NEW e \in Callers, pc'[e] = "filling"
               PROVE  /\ timer'[e] <= MaxWork
                      /\ \/ Hit(e)
                         \/ \E d \in Callers :
                              /\ lock = d
                              /\ \/ pc'[d] = "publish"
                                 \/ /\ pc'[d] \in {"reading", "read", "mutating", "committed"}
                                    /\ timer'[e] <= timer'[d]
    BY DEF FillIsComing, Hit
  <2>1. CASE pc[e] = "filling" /\ timer'[e] = timer[e]
    BY <2>1 DEF Steady, FillIsComing, LockIsHeld, Holding
  <2>2. CASE e = c /\ timer'[c] = 0 /\ lock # Free
    <3>1. PICK d \in Callers : lock = d
      BY <2>2 DEF Steady, LockIsHeld
    <3>2. pc[d] \in Holding /\ pc'[d] \in Holding /\ d # c
      BY <3>1, <2>2 DEF Steady, LockIsHeld, Holding
    <3>3. pc[d] = "release" => Hit(e)
      BY <2>2 DEF Steady, HolderIsCurrent, Hit, Patient, CacheAssumption
    <3> QED
      BY <2>2, <3>1, <3>2, <3>3 DEF Holding, CacheAssumption
  <2> QED
    BY <2>1, <2>2
<1>5. Coherent'
  BY DEF Steady, Coherent, Holding
<1> QED
  BY <1>1, <1>2, <1>3, <1>4, <1>5 DEF Steady

\* Taking the free lock: a reader that waits for a fill has found it free, so
\* the last holder has left a snapshot.
LEMMA TakeLockSteady ==
    ASSUME CacheAssumption, TokenAssumption, Patient, TypeOK, Steady, NEW c \in Callers,
           UNCHANGED <<version, cached, ttl, payload, backoff, detached, online>>,
           TakeLock(c),
           pc[c] \in {"locking", "contend"}, c \in online,
           pc' = [pc EXCEPT ![c] = pc'[c]], pc'[c] \in {"reading", "mutating"},
           timer' = [timer EXCEPT ![c] = 0]
    PROVE  Steady'
<1> USE DEF TypeOK, TakeLock
<1>0. c # Free /\ c # Lost /\ \A d \in Callers : pc[d] \notin Holding
  BY DEF TokenAssumption, Steady, LockIsHeld
<1>1. Healthy'
  BY DEF Steady, Healthy
<1>2. LockIsHeld'
  BY <1>0 DEF Steady, LockIsHeld, Holding
<1>3. HolderIsCurrent'
  BY <1>0 DEF HolderIsCurrent, Holding, Hit
<1>4. FillIsComing'
  BY <1>0 DEF Steady, FillIsComing, Hit, TokenAssumption
<1>5. Coherent'
  BY <1>0 DEF Steady, Coherent, TokenAssumption
<1> QED
  BY <1>1, <1>2, <1>3, <1>4, <1>5 DEF Steady

LEMMA LockSteady ==
    ASSUME CacheAssumption, TokenAssumption, Patient, TypeOK, Steady,
           NEW c \in Callers, Lock(c)
    PROVE  Steady'
<1> USE NoFaults DEF Lock, Begin, Goto, Succeeds, TypeOK, dbVars
<1>1. pc[c] = "locking" /\ c \in online /\ backoff' = backoff
  BY DEF Steady, LockIsHeld, Healthy, TakeLockFails, Fails
<1>2. CASE TakeLock(c) /\ Begin(c, "reading") /\ UNCHANGED online
  BY <1>1, <1>2, TakeLockSteady
<1>3. CASE /\ lock # Free /\ Begin(c, "filling")
           /\ UNCHANGED <<lock, lockTTL, token, renewing, online>>
  BY ZenonT(30), <1>1, <1>3, QuietStep DEF Holding
<1> QED
  BY <1>1, <1>2, <1>3 DEF TakeLockFails, Fails

LEMMA ContendSteady ==
    ASSUME CacheAssumption, TokenAssumption, Patient, TypeOK, Steady,
           NEW c \in Callers, Contend(c)
    PROVE  Steady'
<1> USE NoFaults DEF Contend, Begin, Goto, Succeeds, TypeOK, dbVars
<1>1. pc[c] = "contend" /\ c \in online /\ backoff' = backoff
  BY DEF Steady, Healthy, TakeLockFails, Fails
<1>2. CASE TakeLock(c) /\ Begin(c, "mutating") /\ UNCHANGED online
  BY <1>1, <1>2, TakeLockSteady
<1>3. CASE Goto(c, "idle") /\ UNCHANGED <<lock, lockTTL, online, token, renewing, timer>>
  BY <1>1, <1>3, QuietStep DEF Holding
<1> QED
  BY <1>1, <1>2, <1>3 DEF TakeLockFails, Fails

\* The holder leaves a snapshot of the committed version before it gives the
\* lock back.
LEMMA StoreSteady ==
    ASSUME CacheAssumption, TokenAssumption, Patient, TypeOK, Steady,
           NEW c \in Callers, Store(c)
    PROVE  Steady'
<1> USE NoFaults DEF Store, TypeOK
<1>1. /\ pc[c] \in {"read", "publish"} /\ lock = c /\ c \in token /\ payload[c] = version
      /\ c \in online
  BY DEF Steady, LockIsHeld, HolderIsCurrent, Healthy, Holding
<1>2. /\ pc' = [pc EXCEPT ![c] = "release"] /\ timer' = [timer EXCEPT ![c] = 0]
      /\ renewing' = renewing \ {c} /\ payload' = [payload EXCEPT ![c] = 0]
      /\ SetCached(c) /\ backoff' = backoff
      /\ UNCHANGED <<version, lock, online, token, detached>>
  BY <1>1 DEF End, Begin, Goto, Succeeds, Fails, dbVars, Steady, Healthy
<1>3. /\ cached' = [cached EXCEPT ![RoleOf[c]] = version]
      /\ \A d \in Callers : Hit(d)'
  <2>1. PICK left \in 1..MaxTTL : ttl' = [ttl EXCEPT ![RoleOf[c]] = left]
    BY <1>2 DEF SetCached
  <2>2. left > 0 /\ \A d \in Callers : RoleOf[d] = RoleOf[c] /\ RoleOf[d] \in Roles
    BY <2>1 DEF Patient, CacheAssumption
  <2> QED
    BY <1>1, <1>2, <2>1, <2>2 DEF SetCached, Hit
<1>4. \A r \in Roles : r # RoleOf[c] => ttl'[r] = ttl[r] /\ cached'[r] = cached[r]
  BY <1>2 DEF SetCached
<1>5. Healthy' /\ LockIsHeld'
  BY <1>1, <1>2 DEF Steady, Healthy, LockIsHeld, Holding
<1>6. HolderIsCurrent'
  BY <1>1, <1>2, <1>3 DEF Steady, HolderIsCurrent
<1>7. FillIsComing'
  BY <1>1, <1>2, <1>3 DEF Steady, FillIsComing
<1>8. Coherent'
  BY <1>1, <1>2, <1>3, <1>4 DEF Steady, Coherent
<1> QED
  BY <1>5, <1>6, <1>7, <1>8 DEF Steady

\* A change is committed by the lock's holder only.
LEMMA CommitSteady ==
    ASSUME CacheAssumption, TokenAssumption, Patient, TypeOK, Steady,
           NEW c \in Callers, Commit(c)
    PROVE  Steady'
<1> USE NoFaults DEF Commit, TypeOK
<1>1. /\ pc[c] = "mutating" /\ lock = c
      /\ \A d \in Callers : pc[d] \in Holding => d = c
  BY DEF Steady, LockIsHeld, Holding
<1>2. /\ pc' = [pc EXCEPT ![c] = "committed"] /\ payload' = [payload EXCEPT ![c] = version']
      /\ UNCHANGED <<cached, ttl, lock, online, token, renewing, backoff, detached, timer>>
  BY DEF Goto, redisVars
<1>3. Healthy' /\ LockIsHeld'
  BY <1>1, <1>2 DEF Steady, Healthy, LockIsHeld, Holding
<1>4. HolderIsCurrent'
  BY <1>1, <1>2 DEF Steady, HolderIsCurrent, Holding, Hit
<1>5. FillIsComing'
  BY <1>1, <1>2 DEF Steady, FillIsComing, Hit
<1>6. Coherent'
  BY <1>1, <1>2 DEF Coherent
<1> QED
  BY <1>3, <1>4, <1>5, <1>6 DEF Steady

\* From then on no snapshot shows another version.
LEMMA InvalidateSteady ==
    ASSUME CacheAssumption, TokenAssumption, Patient, TypeOK, Steady,
           NEW c \in Callers, Invalidate(c)
    PROVE  Steady'
<1> USE NoFaults DEF Invalidate, TypeOK
<1>1. /\ pc[c] = "committed" /\ lock = c
      /\ \A d \in Callers : pc[d] \in Holding => d = c
  BY DEF Steady, LockIsHeld, Holding
<1>2. /\ pc' = [pc EXCEPT ![c] = "publish"] /\ Forget /\ backoff' = backoff
      /\ UNCHANGED <<version, lock, online, token, renewing, payload, timer, detached>>
  BY DEF Goto, Succeeds, Fails, dbVars, callVars, Steady, Healthy
<1>3. Healthy' /\ LockIsHeld'
  BY <1>1, <1>2 DEF Steady, Healthy, LockIsHeld, Holding
<1>4. HolderIsCurrent'
  BY <1>1, <1>2 DEF Steady, HolderIsCurrent, Holding
<1>5. FillIsComing'
  BY <1>1, <1>2 DEF Steady, FillIsComing
<1>6. Coherent'
  BY <1>2 DEF Coherent, Forget
<1> QED
  BY <1>3, <1>4, <1>5, <1>6 DEF Steady

LEMMA ReleaseSteady ==
    ASSUME CacheAssumption, TokenAssumption, Patient, TypeOK, Steady,
           NEW c \in Callers, Release(c)
    PROVE  Steady'
<1> USE NoFaults DEF Release, TypeOK
<1>1. /\ pc[c] = "release" /\ lock = c
      /\ \A d \in Callers : Hit(d)
      /\ \A d \in Callers : pc[d] \in Holding => d = c
  BY DEF Steady, LockIsHeld, HolderIsCurrent, Holding, Hit, Patient, CacheAssumption
<1>2. /\ pc' = [pc EXCEPT ![c] = "idle"] /\ token' = token \ {c} /\ lock' = Free
      /\ backoff' = backoff
      /\ UNCHANGED <<version, cached, ttl, online, renewing, payload, timer, detached>>
  BY <1>1 DEF Goto, DropLock, Succeeds, Fails, dbVars, Steady, Healthy
<1>3. Healthy' /\ LockIsHeld'
  BY <1>1, <1>2 DEF Steady, Healthy, LockIsHeld, Holding, Free, Lost, TokenAssumption
<1>4. HolderIsCurrent' /\ FillIsComing'
  BY <1>1, <1>2 DEF Steady, HolderIsCurrent, FillIsComing, Hit
<1>5. Coherent'
  BY <1>1, <1>2 DEF Steady, Coherent, Holding
<1> QED
  BY <1>3, <1>4, <1>5 DEF Steady

\* While a reader waits for a fill, time passes for the holder's work alone.
LEMMA TickSteady ==
    ASSUME CacheAssumption, TokenAssumption, Patient, TypeOK, Steady, Tick
    PROVE  Steady'
<1> USE DEF TypeOK
<1>0. \A c \in Callers : pc[c] \in Working \cup Waiting \cup {"idle"}
  BY DEF Tick, Quiet
<1>1. lock' = lock
  <2>1. CASE lock \in Callers
    BY <1>0, <2>1 DEF Tick, Steady, LockIsHeld, Holding, Working, Waiting
  <2>2. CASE lock \notin Callers
    BY <2>2 DEF Tick, Steady, LockIsHeld
  <2> QED
    BY <2>1, <2>2
<1>2. UNCHANGED <<version, pc, online, token, renewing, payload, detached>> /\ backoff' = {}
  BY DEF Tick
<1>3. Healthy' /\ LockIsHeld'
  BY <1>1, <1>2 DEF Steady, Healthy, LockIsHeld, Holding
<1>4. HolderIsCurrent'
  BY <1>0, <1>2 DEF Steady, HolderIsCurrent, Working, Waiting
<1>5. FillIsComing'
  <2> SUFFICES ASSUME NEW c \in Callers, pc[c] = "filling"
               PROVE  /\ timer'[c] <= MaxWork
                      /\ \E d \in Callers :
                            /\ lock = d
                            /\ pc[d] \in {"reading", "read", "mutating", "committed"}
                            /\ timer'[c] <= timer'[d]
    BY <1>1, <1>2 DEF FillIsComing
  <2>1. ~Hit(c)
    BY DEF Tick, Quiet
  <2>2. PICK d \in Callers : /\ lock = d
                             /\ pc[d] \in {"reading", "read", "mutating", "committed"}
                             /\ timer[c] <= timer[d]
    BY <1>0, <2>1 DEF Steady, FillIsComing, Working, Waiting
  <2>3. pc[d] \in Working
    BY <1>0, <2>2 DEF Working, Waiting
  <2>4. timer'[c] = timer[c] + 1 /\ timer'[d] = timer[d] + 1 /\ timer[d] < MaxWork
    BY <2>3 DEF Tick, Quiet
  <2>5. timer[c] \in Nat /\ timer[d] \in Nat /\ MaxWork \in Nat
    BY DEF CacheAssumption
  <2> QED
    BY <2>2, <2>4, <2>5
<1>6. Coherent'
  <2>1. \A r \in Roles : ttl[r] > 0 => cached[r] = version
    BY <1>0 DEF Steady, Coherent, Working, Waiting
  <2>2. \A r \in Roles : ttl'[r] > 0 => ttl[r] > 0 /\ cached'[r] = cached[r]
    BY VersionFacts DEF Tick, Less
  <2> QED
    BY <1>2, <2>1, <2>2 DEF Coherent
<1> QED
  BY <1>3, <1>4, <1>5, <1>6 DEF Steady

LEMMA ActSteady ==
    ASSUME CacheAssumption, TokenAssumption, Patient, TypeOK, Steady,
           NEW c \in Callers, Act(c)
    PROVE  Steady'
<1> USE NoFaults DEF Goto, Begin, Succeeds, Fails, redisVars, dbVars, callVars
<1>0. /\ pc[c] \in PC /\ pc \in [Callers -> PC] /\ timer \in [Callers -> Nat]
      /\ payload \in [Callers -> Versions]
      /\ backoff = {} /\ detached = {} /\ (pc[c] # "idle" => c \in online)
      /\ pc[c] # "relocking"
  BY DEF TypeOK, Steady, Healthy, LockIsHeld
<1>1. CASE Get(c)
  BY <1>0, <1>1, QuietStep DEF Get, Holding
<1>2. CASE Mutate(c)
  BY <1>0, <1>2, QuietStep DEF Mutate, Holding
<1>3. CASE RenewFails(c)
  BY <1>3 DEF RenewFails
<1>4. CASE Cancel(c)
  BY <1>4 DEF Cancel
<1>5. CASE Lookup(c)
  BY <1>0, <1>5, QuietStep DEF Lookup, Holding
<1>6. CASE EnterLocal(c)
  BY <1>0, <1>6, QuietStep DEF EnterLocal, Holding
<1>7. CASE Recheck(c)
  BY <1>0, <1>7, QuietStep DEF Recheck, Holding
<1>8. CASE Fill(c)
  <2>1. timer[c] <= MaxWork /\ timer[c] \in Nat /\ MaxWork \in Nat /\ LockWait \in Nat
    BY <1>0, <1>8 DEF Fill, Steady, FillIsComing, CacheAssumption
  <2>2. pc' = [pc EXCEPT ![c] = "idle"]
    BY <1>8, <2>1 DEF Fill, Patient
  <2> QED
    BY <1>0, <1>8, <2>2, QuietStep DEF Fill, Holding
<1>9. CASE Read(c)
  BY <1>0, <1>9, QuietStep DEF Read, Holding
<1>10. CASE LateCommit(c)
  BY <1>0, <1>10 DEF LateCommit
<1> QED
  BY <1>1, <1>2, <1>3, <1>4, <1>5, <1>6, <1>7, <1>8, <1>9, <1>10, LockSteady,
     ContendSteady, StoreSteady, CommitSteady, InvalidateSteady, ReleaseSteady
     DEF Act, Step

LEMMA SteadyInvariant ==
    ASSUME CacheAssumption, TokenAssumption, Patient PROVE Spec => [](TypeOK /\ Steady)
<1> DEFINE IInv == TypeOK /\ Steady
<1>1. Init => IInv
  BY InitType, InitSteady
<1>2. IInv /\ [Next]_vars => IInv'
  <2> SUFFICES ASSUME IInv, [Next]_vars PROVE IInv'
    OBVIOUS
  <2>1. CASE UNCHANGED vars
    BY <2>1 DEF TypeOK, Steady, Healthy, LockIsHeld, HolderIsCurrent, FillIsComing,
       Coherent, Hit, vars, redisVars
  <2>2. ASSUME NEW c \in Callers, Act(c) PROVE IInv'
    BY <2>2, ActType, ActSteady
  <2>3. ASSUME NEW p \in Processes, Crash(p) PROVE IInv'
    BY <2>3, NoFaults DEF Crash
  <2>4. CASE Tick
    BY <2>4, TickType, TickSteady
  <2> QED
    BY <2>1, <2>2, <2>3, <2>4 DEF Next, Act
<1> QED
  BY <1>1, <1>2, PTL DEF Spec

\* With healthy Redis and patient readers of one role, a change shows at once:
\* an older snapshot exists only between a commit and its invalidation.
THEOREM ChangesShowAtOnce ==
    ASSUME CacheAssumption, TokenAssumption, Patient PROVE Spec => []Coherent
<1>1. TypeOK /\ Steady => Coherent
  BY DEF Steady
<1> QED
  BY <1>1, SteadyInvariant, PTL

\* ... and all processes together do one piece of database work at a time.
THEOREM OneFlight ==
    ASSUME CacheAssumption, TokenAssumption, Patient PROVE Spec => []SingleFlight
<1>1. TypeOK /\ Steady => SingleFlight
  BY DEF Steady, LockIsHeld, SingleFlight, Holding, Working
<1> QED
  BY <1>1, SteadyInvariant, PTL
=============================================================================
