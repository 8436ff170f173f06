----------------------- MODULE UpstreamCleanupProofs -----------------------
(***************************************************************************)
(* Proofs about UpstreamCleanup: its type invariant; that a resource is    *)
(* kept for its retention; that of the claims of a resource at most one is *)
(* sound; and that nothing is forgotten, but by a late answer or a         *)
(* record() that failed.                                                   *)
(***************************************************************************)
EXTENDS UpstreamCleanup, TLAPS

\* What is left of a time is a time.
LEMMA LessType == \A n \in Nat : Less(n) \in Nat
  BY DEF Less

\* A worker that deals with a resource knows which.
Dealing == \A w \in Workers :
    pc[w] \in {"calling", "confirmed", "failed"} => busy[w] \in Resources

Types == TypeOK /\ Dealing

LEMMA TypesInit == Init => Types
  BY CleanupAssumption DEF Init, Types, TypeOK, Dealing, State, PC, TurnState

LEMMA TypesStep == Types /\ [Next]_vars => Types'
<1> SUFFICES ASSUME Types, [Next]_vars PROVE Types'
  OBVIOUS
<1> USE CleanupAssumption DEF Types, TypeOK, Dealing, State, PC, TurnState, rows, worker, history, Goto, Fault,
        Done, Overtake
<1>1. ASSUME NEW r \in Resources, BeginTurn(r) \/ Turn(r) \/ RecordFails(r)
      PROVE  Types'
  <2>1. CASE BeginTurn(r)
    BY <2>1 DEF BeginTurn
  <2>2. CASE Record(r)
    BY <2>2 DEF Record, Write, Recorded
  <2>3. CASE Use(r) \/ EndTurn(r)
    BY <2>3 DEF Use, EndTurn
  <2>4. CASE RecordFails(r)
    BY <2>4 DEF RecordFails, Recorded
  <2> QED
    BY <1>1, <2>1, <2>2, <2>3, <2>4 DEF Turn
<1>2. ASSUME NEW ch \in Chats, DeleteChat(ch) \/ Schedule(ch) \/ LoseHook(ch)
      PROVE  Types'
  <2>1. CASE DeleteChat(ch)
    BY <2>1 DEF DeleteChat
  <2>2. CASE Schedule(ch)
    BY <2>2 DEF Schedule
  <2>3. CASE LoseHook(ch)
    BY <2>3 DEF LoseHook
  <2> QED
    BY <1>2, <2>1, <2>2, <2>3
<1>3. ASSUME NEW w \in Workers, Work(w) PROVE Types'
  <2>1. CASE MarkDue(w)
    BY <2>1 DEF MarkDue
  <2>2. CASE ClaimDue(w)
    BY <2>2 DEF ClaimDue
  <2>3. CASE Look(w)
    BY <2>3 DEF Look, Unused
  <2>4. CASE Take(w)
    BY <2>4 DEF Take
  <2>5. CASE Call(w)
    BY <2>5 DEF Call
  <2>6. CASE Complete(w)
    BY <2>6 DEF Complete
  <2>7. CASE Retry(w)
    BY <2>7 DEF Retry
  <2> QED
    BY <1>3, <2>1, <2>2, <2>3, <2>4, <2>5, <2>6, <2>7 DEF Work
<1>4. ASSUME NEW w \in Workers, Abandon(w) PROVE Types'
  BY <1>4 DEF Abandon
<1>5. CASE Tick
  BY <1>5, LessType DEF Tick
<1>6. CASE UNCHANGED vars
  BY <1>6 DEF vars
<1> QED
  BY <1>1, <1>2, <1>3, <1>4, <1>5, <1>6 DEF Next

\* Every variable of clean-up keeps its type, for any number of resources,
\* workers and chats.
THEOREM CleanupTypeCorrect == Spec => []TypeOK
<1>1. Types => TypeOK
  BY DEF Types
<1> QED
  BY <1>1, TypesInit, TypesStep, PTL DEF Spec

-----------------------------------------------------------------------------
(* Retention. *)

\* A chat whose schedule call is on its way does not exist any more.
HooksOfDeleted == hooks \subseteq Chats \ chats

\* A resource is kept for its retention after it was last recorded, unless the
\* chat it was recorded with is gone; whatever it was recorded with.
THEOREM RetentionKept == Spec => []KeptForRetention
<1> DEFINE IInv == Types /\ HooksOfDeleted /\ KeptForRetention
<1>1. Init => IInv
  BY TypesInit DEF Init, HooksOfDeleted, KeptForRetention, Orphaned
<1>2. IInv /\ [Next]_vars => IInv'
  <2> SUFFICES ASSUME IInv, [Next]_vars PROVE HooksOfDeleted' /\ KeptForRetention'
    BY TypesStep
  <2> USE CleanupAssumption
          DEF Types, TypeOK, HooksOfDeleted, KeptForRetention, Orphaned, rows, worker,
              history, Done, Fault
  <2>1. ASSUME NEW r \in Resources, BeginTurn(r) \/ Turn(r) \/ RecordFails(r)
        PROVE  HooksOfDeleted' /\ KeptForRetention'
    BY <2>1 DEF BeginTurn, Turn, Record, Write, Use, EndTurn, RecordFails
  <2>2. ASSUME NEW ch \in Chats, DeleteChat(ch) \/ Schedule(ch) \/ LoseHook(ch)
        PROVE  HooksOfDeleted' /\ KeptForRetention'
    BY <2>2 DEF DeleteChat, Schedule, LoseHook
  <2>3. ASSUME NEW w \in Workers, Work(w) PROVE HooksOfDeleted' /\ KeptForRetention'
    <3>1. CASE MarkDue(w)
      BY <3>1 DEF MarkDue, Orphaned
    <3>2. CASE ClaimDue(w)
      BY <3>2 DEF ClaimDue
    <3>3. CASE Look(w) \/ Take(w) \/ Call(w)
      BY <3>3 DEF Look, Take, Call
    <3>4. CASE Complete(w) \/ Retry(w)
      BY <3>4 DEF Complete, Retry
    <3> QED
      BY <2>3, <3>1, <3>2, <3>3, <3>4 DEF Work
  <2>4. ASSUME NEW w \in Workers, Abandon(w) PROVE HooksOfDeleted' /\ KeptForRetention'
    BY <2>4 DEF Abandon
  <2>5. CASE Tick
    BY <2>5, LessType DEF Tick, Less
  <2>6. CASE UNCHANGED vars
    BY <2>6 DEF vars
  <2> QED
    BY <2>1, <2>2, <2>3, <2>4, <2>5, <2>6 DEF Next
<1>3. IInv => KeptForRetention
  OBVIOUS
<1> QED
  BY <1>1, <1>2, <1>3, PTL DEF Spec

-----------------------------------------------------------------------------
(* One cleaner for each resource. *)

\* A worker deals with a resource of its batch, and has none before and after.
OneAtATime ==
    \A w \in Workers :
        /\ busy[w] \notin batch[w]
        /\ pc[w] \in {"asleep", "awake", "marked"} => batch[w] = {}
        /\ pc[w] \in {"asleep", "awake", "marked", "claimed", "working"} =>
              busy[w] = NoResource

\* A sound claim is as old as the batch it was made for, so that mark_due does
\* not take it for an interrupted one.
ClaimsAge ==
    \A w \in Workers : \A r \in Resources :
        Sound(w, r) => row[r] = "processing" /\ claim[r] <= spent[w]

Exclusive ==
    \A v, w \in Workers : \A r \in Resources : Sound(v, r) /\ Sound(w, r) => v = w

Claims == Types /\ OneAtATime /\ ClaimsAge /\ Exclusive

\* No claim becomes sound, and those that stay so keep their row.
Preserved ==
    \A w \in Workers : \A r \in Resources : Sound(w, r)' =>
        /\ Sound(w, r) /\ row'[r] = "processing" /\ claim'[r] <= spent'[w]

LEMMA PreservedKeeps ==
    ASSUME Types, Types', OneAtATime', ClaimsAge, Exclusive, Preserved
    PROVE  Claims'
BY DEF Claims, ClaimsAge, Exclusive, Preserved

LEMMA ClaimsStep == ASSUME Claims, [Next]_vars PROVE Claims'
<1>0. Types'
  BY TypesStep DEF Claims
<1>1. SUFFICES \/ OneAtATime' /\ Preserved
               \/ OneAtATime' /\ ClaimsAge' /\ Exclusive'
  BY <1>0, PreservedKeeps DEF Claims
<1> USE CleanupAssumption, NoResourceAssumption
        DEF Claims, Types, TypeOK, Dealing, OneAtATime, ClaimsAge, Preserved, Sound, Holds,
            rows, worker, history, Goto, Fault, Overtake
<1>2. ASSUME NEW r \in Resources, BeginTurn(r) \/ Turn(r) \/ RecordFails(r)
      PROVE  OneAtATime' /\ Preserved
  <2>1. CASE Record(r)
    BY <2>1 DEF Record, Write
  <2>2. CASE BeginTurn(r) \/ Use(r) \/ EndTurn(r) \/ RecordFails(r)
    BY <2>2 DEF BeginTurn, Use, EndTurn, RecordFails
  <2> QED BY <1>2, <2>1, <2>2 DEF Turn
<1>3. ASSUME NEW ch \in Chats, DeleteChat(ch) \/ Schedule(ch) \/ LoseHook(ch)
      PROVE  OneAtATime' /\ Preserved
  <2>1. CASE Schedule(ch)
    BY <2>1 DEF Schedule
  <2> QED BY <1>3, <2>1 DEF DeleteChat, LoseHook
<1>4. ASSUME NEW w \in Workers, MarkDue(w) PROVE OneAtATime' /\ Preserved
  BY <1>4 DEF MarkDue
<1>5. ASSUME NEW w \in Workers, ClaimDue(w) PROVE OneAtATime' /\ ClaimsAge' /\ Exclusive'
  <2>1. PICK rs \in SUBSET {r \in Resources : Due(r)} :
           /\ row' = [r \in Resources |-> IF r \in rs THEN "processing" ELSE row[r]]
           /\ claim' = [r \in Resources |-> IF r \in rs THEN 0 ELSE claim[r]]
           /\ batch' = [batch EXCEPT ![w] = rs]
    BY <1>5 DEF ClaimDue
  <2>2. /\ pc[w] = "marked" /\ pc' = [pc EXCEPT ![w] = "claimed"] /\ busy' = busy
        /\ spent' = [spent EXCEPT ![w] = 0] /\ overtaken' = [overtaken EXCEPT ![w] = {}]
    BY <1>5 DEF ClaimDue
  <2>3. \A r \in rs : row[r] # "processing"
    BY <2>1 DEF Due
  <2>4. \A r \in Resources : Sound(w, r)' => r \in rs
    BY <2>1, <2>2
  <2>5. \A v \in Workers \ {w} : \A r \in Resources :
           Sound(v, r)' => Sound(v, r) /\ r \notin rs
    BY <2>1, <2>2, <2>3
  <2>6. OneAtATime'
    BY <2>1, <2>2
  <2>7. ClaimsAge'
    BY <2>1, <2>2, <2>4, <2>5
  <2>8. Exclusive'
    BY <2>4, <2>5 DEF Exclusive
  <2> QED BY <2>6, <2>7, <2>8
<1>6. ASSUME NEW w \in Workers, Look(w) \/ Call(w) PROVE OneAtATime' /\ Preserved
  BY <1>6 DEF Look, Call
<1>7. ASSUME NEW w \in Workers, Take(w) PROVE OneAtATime' /\ Preserved
  BY SMTT(20), <1>7 DEF Take
<1>8. ASSUME NEW w \in Workers, Complete(w) \/ Retry(w) PROVE OneAtATime' /\ Preserved
  <2>1. /\ busy[w] \in Resources
        /\ busy' = [busy EXCEPT ![w] = NoResource]
        /\ pc' = [pc EXCEPT ![w] = "working"] /\ pc[w] \in {"confirmed", "failed"}
        /\ UNCHANGED <<batch, spent, claim>>
        /\ \A r \in Resources : r # busy[w] => row'[r] = row[r]
    BY <1>8 DEF Complete, Retry, Done
  <2>2. overtaken' = [v \in Workers |->
            IF v = w THEN overtaken[v] \ {busy[v]}
            ELSE overtaken[v] \cup
                    {r \in {busy[w]} : row[r] = "processing" /\ Holds(v, r)}]
    BY <1>8 DEF Complete, Retry, Done
  <2>3. OneAtATime'
    BY <2>1
  <2>4. ASSUME NEW v \in Workers, NEW r \in Resources, Sound(v, r)'
        PROVE  Sound(v, r) /\ r # busy[w]
    <3>1. Holds(v, r) /\ spent[v] < Lapse
      BY <2>1, <2>4
    <3>2. CASE v = w
      BY <2>1, <2>2, <2>4, <3>1, <3>2
    <3>3. CASE v # w
      <4>1. r \notin overtaken[v]
        BY <2>2, <2>4, <3>3
      <4>2. ~(r = busy[w] /\ row[r] = "processing")
        BY <2>2, <2>4, <3>1, <3>3
      <4> QED BY <3>1, <4>1, <4>2
    <3> QED BY <3>2, <3>3
  <2> QED BY <2>1, <2>3, <2>4
<1>9. ASSUME NEW w \in Workers, Abandon(w) PROVE OneAtATime' /\ Preserved
  BY <1>9 DEF Abandon
<1>10. CASE Tick
  BY <1>10 DEF Tick
<1>11. CASE UNCHANGED vars
  BY <1>11 DEF vars
<1> QED
  BY <1>2, <1>3, <1>4, <1>5, <1>6, <1>7, <1>8, <1>9, <1>10, <1>11 DEF Next, Work

LEMMA ClaimsInit == Init => Claims
  BY TypesInit, CleanupAssumption, NoResourceAssumption
     DEF Init, Claims, OneAtATime, ClaimsAge, Exclusive, Sound, Holds

\* Of the workers that come to a resource at most one has a sound claim, and
\* its row is still its own, whatever fails, whoever dies, records or deletes,
\* and however long a batch takes.
THEOREM ClaimsAreExclusive == Spec => []OneCleaner
<1>1. Claims /\ [Next]_vars => Claims'
  BY ClaimsStep
<1>2. Claims => OneCleaner
  BY DEF Claims, ClaimsAge, Exclusive, OneCleaner
<1> QED
  BY <1>1, <1>2, ClaimsInit, PTL DEF Spec
-----------------------------------------------------------------------------
(* Nothing is forgotten. *)

\* The claim of r is still the worker's, however old it is.
Own(w, r) == Holds(w, r) /\ ~Lost(w, r)

\* A row that is claimed has one owner, who alone may close it.
Ownership ==
    /\ \A w \in Workers : \A r \in Resources : Own(w, r) => row[r] = "processing"
    /\ \A v, w \in Workers : \A r \in Resources : Own(v, r) /\ Own(w, r) => v = w

\* No worker comes to own what it did not, and what it owns is in processing.
OwnersStay ==
    \A w \in Workers : \A r \in Resources :
        Own(w, r)' => Own(w, r) /\ row'[r] = "processing"

LEMMA OwnershipStep ==
    ASSUME Claims, Ownership, [Next]_vars
    PROVE  /\ Ownership'
           /\ \A w \in Workers : \A r \in Resources :
                 Own(w, r)' => Own(w, r) \/ pc'[w] = "claimed"
<1>0. SUFFICES \/ OwnersStay
               \/ Ownership' /\ \A w \in Workers : \A r \in Resources :
                                  Own(w, r)' => Own(w, r) \/ pc'[w] = "claimed"
  BY DEF Ownership, OwnersStay
<1> USE CleanupAssumption, NoResourceAssumption
        DEF Claims, Types, TypeOK, Dealing, OneAtATime, Ownership, OwnersStay, Own, Lost, Holds,
            rows, worker, history, Goto, Fault, Overtake
<1>1. ASSUME NEW r \in Resources, BeginTurn(r) \/ Turn(r) \/ RecordFails(r) PROVE OwnersStay
  <2>1. CASE Record(r)
    BY <2>1 DEF Record, Write
  <2>2. CASE BeginTurn(r) \/ Use(r) \/ EndTurn(r) \/ RecordFails(r)
    BY <2>2 DEF BeginTurn, Use, EndTurn, RecordFails
  <2> QED BY <1>1, <2>1, <2>2 DEF Turn
<1>2. ASSUME NEW ch \in Chats, DeleteChat(ch) \/ Schedule(ch) \/ LoseHook(ch) PROVE OwnersStay
  <2>1. CASE Schedule(ch)
    BY <2>1 DEF Schedule
  <2> QED BY <1>2, <2>1 DEF DeleteChat, LoseHook
<1>3. ASSUME NEW w \in Workers, MarkDue(w) PROVE OwnersStay
  BY <1>3 DEF MarkDue
<1>4. ASSUME NEW w \in Workers, ClaimDue(w)
      PROVE  Ownership' /\ \A v \in Workers : \A r \in Resources :
                             Own(v, r)' => Own(v, r) \/ pc'[v] = "claimed"
  <2>1. PICK rs \in SUBSET {r \in Resources : Due(r)} :
           /\ row' = [r \in Resources |-> IF r \in rs THEN "processing" ELSE row[r]]
           /\ batch' = [batch EXCEPT ![w] = rs]
    BY <1>4 DEF ClaimDue
  <2>2. /\ pc[w] = "marked" /\ pc' = [pc EXCEPT ![w] = "claimed"] /\ busy' = busy
        /\ overtaken' = [overtaken EXCEPT ![w] = {}] /\ lapsed' = [lapsed EXCEPT ![w] = {}]
    BY <1>4 DEF ClaimDue
  <2>3. \A r \in rs : row[r] # "processing"
    BY <2>1 DEF Due
  <2>4. \A r \in Resources : Own(w, r)' => r \in rs
    BY <2>1, <2>2
  <2>5. \A v \in Workers \ {w} : \A r \in Resources : Own(v, r)' => Own(v, r) /\ r \notin rs
    BY <2>1, <2>2, <2>3
  <2>6. \A v \in Workers : \A r \in Resources : Own(v, r)' => row'[r] = "processing"
    BY <2>1, <2>4, <2>5
  <2>7. \A u, v \in Workers : \A r \in Resources : Own(u, r)' /\ Own(v, r)' => u = v
    <3> SUFFICES ASSUME NEW u \in Workers, NEW v \in Workers, NEW r \in Resources,
                        Own(u, r)', Own(v, r)', u # v
                 PROVE  FALSE
      OBVIOUS
    <3>1. u # w => Own(u, r) /\ r \notin rs
      BY <2>5
    <3>2. v # w => Own(v, r) /\ r \notin rs
      BY <2>5
    <3>3. u = w => r \in rs
      BY <2>4
    <3>4. v = w => r \in rs
      BY <2>4
    <3> QED BY <3>1, <3>2, <3>3, <3>4
  <2> QED BY <2>2, <2>5, <2>6, <2>7
<1>5. ASSUME NEW w \in Workers, Look(w) \/ Call(w) PROVE OwnersStay
  BY <1>5 DEF Look, Call
<1>6. ASSUME NEW w \in Workers, Take(w) PROVE OwnersStay
  BY SMTT(20), <1>6 DEF Take
<1>7. ASSUME NEW w \in Workers, Complete(w) \/ Retry(w) PROVE OwnersStay
  <2>1. /\ busy[w] \in Resources
        /\ busy' = [busy EXCEPT ![w] = NoResource] /\ batch' = batch
        /\ \A r \in Resources : r # busy[w] => row'[r] = row[r]
    BY <1>7 DEF Complete, Retry, Done
  <2>2. /\ overtaken' = [v \in Workers |->
               IF v = w THEN overtaken[v] \ {busy[v]}
               ELSE overtaken[v] \cup
                       {r \in {busy[w]} : row[r] = "processing" /\ Holds(v, r)}]
        /\ lapsed' = [lapsed EXCEPT ![w] = lapsed[w] \ {busy[w]}]
    BY <1>7 DEF Complete, Retry, Done
  <2>3. ASSUME NEW v \in Workers, NEW r \in Resources, Own(v, r)'
        PROVE  Own(v, r) /\ r # busy[w]
    <3>1. Holds(v, r)
      BY <2>1, <2>3
    <3>2. CASE v = w
      BY <2>1, <2>2, <2>3, <3>1, <3>2
    <3>3. CASE v # w
      <4>1. r \notin overtaken[v] /\ r \notin lapsed[v]
        BY <2>2, <2>3, <3>3
      <4>2. ~(r = busy[w] /\ row[r] = "processing")
        BY <2>2, <2>3, <3>1, <3>3
      <4> QED BY <3>1, <4>1, <4>2
    <3> QED BY <3>2, <3>3
  <2> QED BY <2>1, <2>3
<1>8. ASSUME NEW w \in Workers, Abandon(w) PROVE OwnersStay
  BY <1>8 DEF Abandon
<1>9. CASE Tick
  BY <1>9 DEF Tick
<1>10. CASE UNCHANGED vars
  BY <1>10 DEF vars
<1> QED
  BY <1>1, <1>2, <1>3, <1>4, <1>5, <1>6, <1>7, <1>8, <1>9, <1>10 DEF Next, Work

\* The turn that uses r has recorded it already.
PastRecord(r) == r \in Derived /\ turn[r] \in {"recorded", "used"}

\* What is in the account has an open row, unless a turn is about to record it;
\* and so has what a turn has recorded and is about to create.
Covered ==
    \A r \in Resources \ untracked :
        (r \in live /\ ~Afterwards(r)) \/ PastRecord(r) => row[r] \in Open

\* A worker that found the account idle comes to a row it owns: no turn has
\* recorded the resource since the snapshot.
Undisturbed ==
    \A w \in Workers : \A r \in Resources :
        /\ w \in idle /\ pc[w] \in {"working", "calling", "confirmed", "failed"}
        /\ Own(w, r)
        => ~PastRecord(r) \/ r \in untracked

\* Only a worker that found the account idle calls it.
CallsIdle == \A w \in Workers : pc[w] \in {"calling", "confirmed"} => w \in idle

\* A confirmed deletion still holds when complete() comes to the row of a claim
\* that is its own: the resource is gone, or a turn that will record it is
\* using it.
Confirmed ==
    \A w \in Workers :
        pc[w] = "confirmed" /\ Own(w, busy[w]) =>
            busy[w] \notin live \/ Afterwards(busy[w]) \/ busy[w] \in untracked

Kept == Covered /\ Confirmed /\ Undisturbed /\ CallsIdle
Accounted == Claims /\ Ownership /\ Kept

LEMMA KeptStep == ASSUME Accounted, [Next]_vars PROVE Kept'
<1> DEFINE OwnersOf == \A w \in Workers : \A r \in Resources :
                          Own(w, r)' => Own(w, r) \/ pc'[w] = "claimed"
<1>0. Types /\ Types' /\ OwnersOf
  BY OwnershipStep, TypesStep DEF Accounted, Claims
<1> USE <1>0 DEF Accounted, Kept, Types, TypeOK, Dealing, TurnState, Covered,
            Confirmed, Undisturbed, CallsIdle, PastRecord, Afterwards, Open,
            rows, worker, history, Goto, Fault, Done
<1>1. ASSUME NEW r \in Resources, BeginTurn(r) \/ Turn(r) \/ RecordFails(r) PROVE Kept'
  <2>1. CASE BeginTurn(r)
    BY <2>1 DEF BeginTurn
  <2>2. CASE Record(r)
    BY <2>2 DEF Record, Write, Recorded, Before, Own, Lost, Holds, Overtake
  <2>3. CASE Use(r)
    BY <2>3 DEF Use
  <2>4. CASE EndTurn(r)
    BY <2>4 DEF EndTurn
  <2>5. CASE RecordFails(r)
    BY <2>5 DEF RecordFails, Recorded, Before
  <2> QED
    BY <1>1, <2>1, <2>2, <2>3, <2>4, <2>5 DEF Turn
<1>2. ASSUME NEW ch \in Chats, DeleteChat(ch) \/ LoseHook(ch) PROVE Kept'
  BY <1>2 DEF DeleteChat, LoseHook
<1>3. ASSUME NEW ch \in Chats, Schedule(ch) PROVE Kept'
  BY <1>3 DEF Schedule
<1>4. ASSUME NEW w \in Workers, Work(w) PROVE Kept'
  <2>1. CASE MarkDue(w)
    BY <2>1 DEF MarkDue
  <2>2. CASE ClaimDue(w)
    BY <2>2 DEF ClaimDue, Due
  <2>3. CASE Look(w)
    BY <2>3 DEF Look, Unused
  <2>4. CASE Take(w)
    BY <2>4 DEF Take
  <2>5. CASE Call(w)
    BY <2>5 DEF Call
  <2>6. CASE Complete(w)
    BY <2>6, NoResourceAssumption DEF Complete, Own, Holds
  <2>7. CASE Retry(w)
    BY <2>7, NoResourceAssumption DEF Retry
  <2> QED
    BY <1>4, <2>1, <2>2, <2>3, <2>4, <2>5, <2>6, <2>7 DEF Work
<1>5. ASSUME NEW w \in Workers, Abandon(w) PROVE Kept'
  BY <1>5 DEF Abandon
<1>6. CASE Tick
  BY <1>6 DEF Tick
<1>7. CASE UNCHANGED vars
  BY <1>7 DEF vars, Own, Lost, Holds
<1> QED
  BY <1>1, <1>2, <1>3, <1>4, <1>5, <1>6, <1>7 DEF Next

LEMMA AccountedAlways == Spec => []Accounted
<1>1. Init => Ownership /\ Kept
  BY NoResourceAssumption DEF Init, Ownership, Kept, Covered, Confirmed, Undisturbed, CallsIdle,
     PastRecord, Own, Holds
<1>2. Accounted /\ [Next]_vars => Accounted'
  BY ClaimsStep, OwnershipStep, KeptStep DEF Accounted
<1> QED
  BY <1>1, <1>2, ClaimsInit, PTL DEF Spec, Accounted

\* Whatever is in the account and no turn uses keeps a row that clean-up will
\* come back to, whatever calls fail and whenever workers die, unless its
\* record() failed or a worker that had lost the claim closed the row.
THEOREM NothingForgotten == Spec => []Tracked
<1>1. Accounted => Tracked
  BY DEF Accounted, Claims, Types, TypeOK, Kept, Covered, Tracked, Afterwards
<1> QED
  BY <1>1, AccountedAlways, PTL

OneWorker == \A v, w \in Workers : v = w

\* With one worker a claim is lost only to what puts its row back, and only
\* the worker itself could claim it again.
LostIsPutBack ==
    \A w \in Workers : \A r \in Resources : Holds(w, r) /\ Lost(w, r) => row[r] # "processing"

\* One worker whose record() succeeds loses track of nothing at all: there the
\* exceptions of Tracked are empty.
THEOREM OneWorkerTracksAll ==
    ASSUME OneWorker, ~RecordMayFail
    PROVE  Spec => [](untracked = {})
<1>1. Init => LostIsPutBack /\ untracked = {}
  BY NoResourceAssumption DEF Init, LostIsPutBack, Holds
<1>2. Claims /\ LostIsPutBack /\ untracked = {} /\ [Next]_vars => (LostIsPutBack /\ untracked = {})'
  <2> SUFFICES ASSUME Claims, LostIsPutBack, untracked = {}, [Next]_vars
               PROVE  LostIsPutBack' /\ untracked' = {}
    OBVIOUS
  <2> USE CleanupAssumption, NoResourceAssumption
          DEF Claims, Types, TypeOK, Dealing, OneAtATime, OneWorker, LostIsPutBack, Lost, Holds,
              rows, worker, history, Goto, Fault, Overtake
  <2>1. ASSUME NEW r \in Resources, BeginTurn(r) \/ Turn(r) \/ RecordFails(r)
        PROVE  LostIsPutBack' /\ untracked' = {}
    <3>1. CASE Record(r)
      BY <3>1 DEF Record, Write
    <3>2. CASE BeginTurn(r) \/ Use(r) \/ EndTurn(r) \/ RecordFails(r)
      BY <3>2 DEF BeginTurn, Use, EndTurn, RecordFails
    <3> QED BY <2>1, <3>1, <3>2 DEF Turn
  <2>2. ASSUME NEW ch \in Chats, DeleteChat(ch) \/ Schedule(ch) \/ LoseHook(ch)
        PROVE  LostIsPutBack' /\ untracked' = {}
    BY <2>2 DEF Schedule, DeleteChat, LoseHook
  <2>3. ASSUME NEW w \in Workers, MarkDue(w) \/ ClaimDue(w) PROVE LostIsPutBack' /\ untracked' = {}
    BY <2>3 DEF MarkDue, ClaimDue
  <2>4. ASSUME NEW w \in Workers, Look(w) \/ Call(w) \/ Take(w)
        PROVE  LostIsPutBack' /\ untracked' = {}
    BY SMTT(20), <2>4 DEF Look, Call, Take
  <2>5. ASSUME NEW w \in Workers, Complete(w) \/ Retry(w) PROVE LostIsPutBack' /\ untracked' = {}
    BY SMTT(20), <2>5 DEF Complete, Retry, Done
  <2>6. ASSUME NEW w \in Workers, Abandon(w) PROVE LostIsPutBack' /\ untracked' = {}
    BY <2>6 DEF Abandon
  <2>7. CASE Tick
    BY <2>7 DEF Tick
  <2>8. CASE UNCHANGED vars
    BY <2>8 DEF vars
  <2> QED
    BY <2>1, <2>2, <2>3, <2>4, <2>5, <2>6, <2>7, <2>8 DEF Next, Work
<1>3. Accounted => Claims
  BY DEF Accounted
<1> QED
  BY <1>1, <1>2, <1>3, AccountedAlways, PTL DEF Spec
=============================================================================
