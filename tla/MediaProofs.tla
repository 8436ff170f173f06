----------------------------- MODULE MediaProofs -----------------------------
(***************************************************************************)
(* Proofs about three components outside the calls of the gateway: the     *)
(* images a request is prepared with (ImageStages), the bucket of the      *)
(* media pump with its tables (MediaStorage), and the workers and logins   *)
(* of the accounts (LoginRuntime).                                         *)
(***************************************************************************)
EXTENDS ImageStages, MediaStorage, LoginRuntime, FiniteSetTheorems, TLAPS

-----------------------------------------------------------------------------
(* Reference images. *)

StageRow == [host : Hosts \cup {NoHost}, images : SUBSET Images,
             profile : SUBSET Profiles, claimed : BOOLEAN]
StagerRow == [at : {"idle", "waiting", "over", "cut"} \cup Inside,
              image : SUBSET Images, profile : SUBSET Profiles,
              lock : Stagers \cup {Nobody}, existing : Stagers \cup {Nobody},
              lease : Hosts \cup {NoHost}, token : Stagers \cup {Nobody}]
TaskRow == [at : {"idle", "leasing", "sending", "over"}, images : SUBSET Images,
            profile : SUBSET Profiles, stage : Stagers \cup {Nobody},
            lease : Hosts \cup {NoHost}, tried : SUBSET Hosts]

Registry ==
    /\ byToken \subseteq Stagers /\ bySession \in byToken \cup {Nobody}
    /\ door \in Stagers \cup {Nobody}

LEMMA ImageTypes ==
    ImageTypeOK <=> /\ stage \in [Stagers -> StageRow] /\ stager \in [Stagers -> StagerRow]
                    /\ task \in [Tasks -> TaskRow] /\ Registry
                    /\ uploaded \subseteq Hosts \X Images /\ tracked \subseteq Hosts \X Images
BY DEF ImageTypeOK, StageRow, StagerRow, TaskRow, Registry

Made(k) == stage[k].host # NoHost
Before == {"idle", "waiting", "leasing", "uploading", "keeping"}
Working == {"uploading", "keeping", "tracking", "releasing"}

\* A registered stage has an account, which was sent all its images, and a
\* stager makes its stage at one step only.
StagesMade ==
    /\ \A k \in byToken : Made(k)
    /\ \A s \in Stagers : stager[s].at \in Before => ~Made(s)
    /\ \A k \in Stagers : Made(k) => \A i \in stage[k].images : <<stage[k].host, i>> \in uploaded

\* A handler works on the account of the stage it found, keeps to it when it
\* tells the token, and records the file before it is over.
StagerInv(s) ==
    /\ stager[s].existing # Nobody => Made(stager[s].existing)
    /\ stager[s].token # Nobody => Made(stager[s].token)
    /\ stager[s].at \in Before => stager[s].token = Nobody
    /\ stager[s].at \in Working =>
          /\ stager[s].lease \in Hosts
          /\ stager[s].existing # Nobody => stager[s].lease = stage[stager[s].existing].host
    /\ stager[s].at \in {"tracking", "releasing"} =>
          stager[s].token # Nobody /\ stager[s].lease = stage[stager[s].token].host
    /\ stager[s].at = "keeping" => \A i \in stager[s].image : <<stager[s].lease, i>> \in uploaded
    /\ stager[s].at = "releasing" => \A i \in stager[s].image : <<stager[s].lease, i>> \in tracked
    /\ stager[s].at = "over" =>
          /\ stager[s].lease = NoHost
          /\ stager[s].token # Nobody =>
                \A i \in stager[s].image : <<stage[stager[s].token].host, i>> \in tracked

\* A task has claimed a stage that holds its images, and its first attempt went
\* to that stage's account.
TaskInv(t) ==
    /\ task[t].stage # Nobody =>
          Made(task[t].stage) /\ task[t].images \subseteq stage[task[t].stage].images
    /\ IsFiniteSet(task[t].tried)
    /\ task[t].at = "sending" /\ Prepared(t) # Nobody
          => task[t].lease = stage[task[t].stage].host

StageInv ==
    /\ ImageTypeOK /\ StagesMade
    /\ \A s \in Stagers : StagerInv(s)
    /\ \A t \in Tasks : TaskInv(t)

\* A stage keeps its account and what it was given.
StagesGrow ==
    /\ \A k \in Stagers : Made(k) =>
          /\ Made(k)' /\ stage'[k].host = stage[k].host
          /\ stage[k].images \subseteq stage'[k].images
    /\ uploaded \subseteq uploaded' /\ tracked \subseteq tracked'

LEMMA StagerStays ==
    ASSUME StageAssumption, NEW s \in Stagers, stager[s] \in StagerRow, StagerInv(s), StagesGrow,
           stager'[s] = stager[s]
    PROVE  StagerInv(s)'
<1>1. stager[s].existing \in Stagers \cup {Nobody} /\ stager[s].token \in Stagers \cup {Nobody}
  BY DEF StagerRow
<1> QED
  BY <1>1 DEF StagerInv, StagesGrow, Working, Before

LEMMA TaskStays ==
    ASSUME StageAssumption, NEW t \in Tasks, task[t] \in TaskRow, TaskInv(t), StagesGrow,
           task'[t] = task[t]
    PROVE  TaskInv(t)'
<1>1. task[t].stage \in Stagers \cup {Nobody}
  BY DEF TaskRow
<1>2. Prepared(t)' = Prepared(t) /\ (Prepared(t) # Nobody => Prepared(t) = task[t].stage)
  BY DEF Prepared
<1> QED
  BY <1>1, <1>2 DEF TaskInv, StagesGrow

LEMMA ImageStart == ASSUME StageAssumption, ImageInit PROVE StageInv
<1>1. ImageTypeOK
  BY DEF ImageInit, ImageTypeOK, NoStage, NewStager, NewTask
<1>2. StagesMade /\ \A s \in Stagers : StagerInv(s)
  BY DEF ImageInit, StagesMade, StagerInv, Made, NoStage, NewStager, Before, Working
<1>3. ASSUME NEW t \in Tasks PROVE TaskInv(t)
  BY FS_EmptySet DEF ImageInit, TaskInv, NewTask
<1> QED
  BY <1>1, <1>2, <1>3 DEF StageInv

\* One stager steps.
LEMMA OneStagerSteps ==
    ASSUME StageAssumption, StageInv, NEW s \in Stagers, ImageTypeOK', StagesMade', StagesGrow,
           UNCHANGED task, \A o \in Stagers : o # s => stager'[o] = stager[o], StagerInv(s)'
    PROVE  StageInv'
<1>1. ASSUME NEW o \in Stagers, o # s PROVE StagerInv(o)'
  BY <1>1, StagerStays, ImageTypes DEF StageInv
<1>2. ASSUME NEW t \in Tasks PROVE TaskInv(t)'
  BY <1>2, TaskStays, ImageTypes DEF StageInv
<1> QED
  BY <1>1, <1>2 DEF StageInv

\* The steps of a stager that only change what it knows itself, the registry
\* and what was uploaded and recorded.
LEMMA StagerMoves ==
    ASSUME StageAssumption, StageInv, NEW s \in Stagers, NEW entry \in StagerRow,
           Proceed(s, entry), UNCHANGED <<stage, task>>, Registry', byToken' \subseteq byToken,
           entry.at \in Before => stager[s].at \in Before,
           uploaded \subseteq uploaded', uploaded' \subseteq Hosts \X Images,
           tracked \subseteq tracked', tracked' \subseteq Hosts \X Images,
           StagerInv(s)'
    PROVE  StageInv'
<1>1. /\ stage \in [Stagers -> StageRow] /\ stager \in [Stagers -> StagerRow]
      /\ task \in [Tasks -> TaskRow]
  BY ImageTypes DEF StageInv
<1>2. /\ stager' \in [Stagers -> StagerRow] /\ stager'[s] = entry
      /\ \A o \in Stagers : o # s => stager'[o] = stager[o]
  BY <1>1 DEF Proceed
<1>3. ImageTypeOK'
  <2>1. /\ stage' \in [Stagers -> StageRow] /\ task' \in [Tasks -> TaskRow]
    BY <1>1
  <2> QED
    BY <1>2, <2>1 DEF ImageTypeOK, StageRow, StagerRow, TaskRow, Registry
<1>4. StagesMade'
  BY <1>2 DEF StageInv, StagesMade, Made
<1>5. StagesGrow
  BY DEF StagesGrow, Made
<1> QED
  BY <1>2, <1>3, <1>4, <1>5, OneStagerSteps

LEMMA StagerFacts ==
    ASSUME StageInv, NEW s \in Stagers
    PROVE  /\ stager[s] \in StagerRow /\ StagerInv(s) /\ Registry
           /\ stage \in [Stagers -> StageRow] /\ stager \in [Stagers -> StagerRow]
           /\ task \in [Tasks -> TaskRow]
           /\ uploaded \subseteq Hosts \X Images /\ tracked \subseteq Hosts \X Images
BY ImageTypes DEF StageInv

\* Up to the lease.
LEMMA StagerEnters ==
    ASSUME StageAssumption, StageInv, NEW s \in Stagers, Stage(s) \/ Admit(s) \/ StageLease(s)
    PROVE  StageInv'
<1>0. /\ stager[s] \in StagerRow /\ StagerInv(s) /\ Registry
      /\ stage \in [Stagers -> StageRow] /\ stager \in [Stagers -> StagerRow]
      /\ uploaded \subseteq Hosts \X Images /\ tracked \subseteq Hosts \X Images
  BY StagerFacts
<1>1. CASE Stage(s)
  <2>1. /\ stager[s].at = "idle" /\ UNCHANGED <<stage, byToken, bySession, task, uploaded, tracked>>
        /\ \E i \in Images, p \in Profiles :
              /\ door' = IF door = Nobody THEN s ELSE door
              /\ Proceed(s, Waiting(i, p, door'))
    BY <1>1 DEF Stage
  <2>2. PICK i \in Images, p \in Profiles :
           /\ door' = IF door = Nobody THEN s ELSE door
           /\ Proceed(s, Waiting(i, p, door'))
    BY <2>1
  <2> DEFINE entry == Waiting(i, p, door')
  <2>3. door' \in Stagers \cup {Nobody} /\ Registry'
    BY <1>0, <2>1, <2>2 DEF Registry
  <2>4. /\ entry \in StagerRow /\ entry.at = "waiting" /\ entry.existing = Nobody /\ entry.token = Nobody
    BY <2>3 DEF NewStager, StagerRow, Waiting
  <2>5. Proceed(s, entry)
    BY <2>2
  <2> HIDE DEF entry
  <2>6. StagerInv(s)'
    BY <1>0, <2>4, <2>5 DEF Proceed, StagerInv, Before, Working
  <2> QED
    BY <1>0, <2>1, <2>3, <2>4, <2>5, <2>6, StagerMoves DEF Before
<1>2. CASE Admit(s)
  <2> DEFINE found == Usable(bySession, stager[s].profile)
             entry == [stager[s] EXCEPT !.at = "leasing",
                                      !.existing = IF found THEN bySession ELSE Nobody]
  <2>1. /\ stager[s].at = "waiting" /\ Proceed(s, entry)
        /\ UNCHANGED <<stage, task, uploaded, tracked>>
    BY <1>2 DEF Admit
  <2>2. byToken' \subseteq byToken /\ Registry'
    BY <1>0, <1>2 DEF Admit, Keep, Registry
  <2>3. /\ entry.existing # Nobody => bySession \in byToken /\ entry.existing = bySession
        /\ entry \in StagerRow /\ entry.at = "leasing" /\ entry.token = stager[s].token
    BY <1>0 DEF StagerRow, Registry, Usable, Inside
  <2> HIDE DEF entry
  <2>4. stager'[s] = entry
    BY <1>0, <2>1 DEF Proceed
  <2>5. StagerInv(s)'
    BY <1>0, <2>1, <2>3, <2>4 DEF StagerInv, Before, Working, StageInv, StagesMade, Made
  <2> QED
    BY <1>0, <2>1, <2>2, <2>3, <2>5, StagerMoves DEF Before
<1>3. ASSUME StageLease(s) PROVE StageInv'
  <2>1. /\ stager[s].at = "leasing"
        /\ UNCHANGED <<stage, byToken, bySession, door, task, uploaded, tracked>>
    BY <1>3 DEF StageLease
  <2>2. Registry'
    BY <1>0, <2>1 DEF Registry
  <2>3. ASSUME Proceed(s, Leave(s, "over")) PROVE StageInv'
    <3>1. /\ Leave(s, "over") \in StagerRow /\ Leave(s, "over").at = "over"
          /\ Leave(s, "over").token = stager[s].token /\ Leave(s, "over").lease = NoHost
          /\ Leave(s, "over").existing = stager[s].existing
      BY <1>0 DEF Leave, StagerRow
    <3>2. stager'[s] = Leave(s, "over")
      BY <1>0, <2>3 DEF Proceed
    <3>3. StagerInv(s)'
      BY <1>0, <2>1, <3>1, <3>2 DEF StagerInv, Before, Working, Made
    <3> QED
      BY <1>0, <2>1, <2>2, <2>3, <3>1, <3>3, StagerMoves DEF Before
  <2>4. ASSUME NEW h \in StageHost(s), Proceed(s, Leased(s, h)) PROVE StageInv'
    <3> DEFINE entry == Leased(s, h)
    <3>1. h \in Hosts /\ (stager[s].existing # Nobody => h = stage[stager[s].existing].host)
      BY <1>0 DEF StageHost, StagerInv, Made, StagerRow, StageRow
    <3>2. /\ entry \in StagerRow /\ entry.at = "uploading" /\ entry.lease = h
          /\ entry.token = stager[s].token /\ entry.existing = stager[s].existing
      BY <1>0, <3>1 DEF StagerRow, Inside, Leased
    <3>3. Proceed(s, entry)
      BY <2>4
    <3> HIDE DEF entry
    <3>4. stager'[s] = entry
      BY <1>0, <3>3 DEF Proceed
    <3>5. StagerInv(s)'
      BY <1>0, <2>1, <3>1, <3>2, <3>4 DEF StagerInv, Before, Working, Made
    <3> QED
      BY <1>0, <2>1, <2>2, <3>2, <3>3, <3>5, StagerMoves DEF Before
  <2> QED
    BY <1>3, <2>3, <2>4 DEF StageLease
<1> QED
  BY <1>1, <1>2, <1>3

\* From the upload to the end, but for remember().
LEMMA StagerWorks ==
    ASSUME StageAssumption, StageInv, NEW s \in Stagers,
           \/ Upload(s) \/ UploadFails(s) \/ TrackImages(s) \/ TrackImagesCut(s)
           \/ StageRelease(s)
    PROVE  StageInv'
<1>0. /\ stager[s] \in StagerRow /\ StagerInv(s) /\ Registry /\ stager[s].image \subseteq Images
      /\ stage \in [Stagers -> StageRow] /\ stager \in [Stagers -> StagerRow]
      /\ uploaded \subseteq Hosts \X Images /\ tracked \subseteq Hosts \X Images
  BY StagerFacts DEF StagerRow
<1>1. UNCHANGED <<stage, byToken, bySession, door, task>> /\ Registry'
  BY <1>0 DEF Upload, UploadFails, TrackImages, TrackImagesCut, StageRelease, Registry
<1>2. stager[s].at \in Working => stager[s].lease \in Hosts
  BY <1>0 DEF StagerInv
<1>3. CASE Upload(s)
  <2> DEFINE entry == [stager[s] EXCEPT !.at = "keeping"]
  <2>1. /\ stager[s].at = "uploading" /\ Proceed(s, entry) /\ UNCHANGED tracked
        /\ uploaded' = uploaded \cup ({stager[s].lease} \X stager[s].image)
    BY <1>3 DEF Upload
  <2>2. /\ entry \in StagerRow /\ entry.at = "keeping" /\ entry.lease = stager[s].lease
        /\ entry.token = stager[s].token /\ entry.existing = stager[s].existing
        /\ entry.image = stager[s].image
    BY <1>0 DEF StagerRow, Inside
  <2> HIDE DEF entry
  <2>3. uploaded' \subseteq Hosts \X Images
    BY <1>0, <1>2, <2>1 DEF Working
  <2>4. stager'[s] = entry
    BY <1>0, <2>1 DEF Proceed
  <2>5. StagerInv(s)'
    BY <1>0, <1>1, <1>2, <2>1, <2>2, <2>4 DEF StagerInv, Before, Working, Made
  <2> QED
    BY <1>0, <1>1, <2>1, <2>2, <2>3, <2>5, StagerMoves DEF Before
<1>4. CASE UploadFails(s) \/ StageRelease(s)
  <2>1. /\ stager[s].at \in {"uploading", "releasing"} /\ Proceed(s, Leave(s, "over"))
        /\ UNCHANGED tracked /\ uploaded \subseteq uploaded'
        /\ uploaded' \subseteq uploaded \cup ({stager[s].lease} \X stager[s].image)
    BY <1>4 DEF UploadFails, StageRelease
  <2>2. uploaded' \subseteq Hosts \X Images
    BY <1>0, <1>2, <2>1 DEF Working
  <2>3. /\ Leave(s, "over") \in StagerRow /\ Leave(s, "over").at = "over"
        /\ Leave(s, "over").token = stager[s].token /\ Leave(s, "over").lease = NoHost
        /\ Leave(s, "over").existing = stager[s].existing
        /\ Leave(s, "over").image = stager[s].image
    BY <1>0 DEF Leave, StagerRow
  <2>4. stager'[s] = Leave(s, "over")
    BY <1>0, <2>1 DEF Proceed
  <2>5. StagerInv(s)'
    BY <1>0, <1>1, <2>1, <2>3, <2>4 DEF StagerInv, Before, Working, Made
  <2> QED
    BY <1>0, <1>1, <2>1, <2>2, <2>3, <2>5, StagerMoves DEF Before
<1>5. CASE TrackImages(s)
  <2> DEFINE entry == [stager[s] EXCEPT !.at = "releasing"]
  <2>1. /\ stager[s].at = "tracking" /\ Proceed(s, entry) /\ UNCHANGED uploaded
        /\ tracked' = tracked \cup ({stager[s].lease} \X stager[s].image)
    BY <1>5 DEF TrackImages
  <2>2. /\ entry \in StagerRow /\ entry.at = "releasing" /\ entry.lease = stager[s].lease
        /\ entry.token = stager[s].token /\ entry.existing = stager[s].existing
        /\ entry.image = stager[s].image
    BY <1>0 DEF StagerRow, Inside
  <2> HIDE DEF entry
  <2>3. tracked' \subseteq Hosts \X Images
    BY <1>0, <1>2, <2>1 DEF Working
  <2>4. stager'[s] = entry
    BY <1>0, <2>1 DEF Proceed
  <2>5. StagerInv(s)'
    BY <1>0, <1>1, <1>2, <2>1, <2>2, <2>4 DEF StagerInv, Before, Working, Made
  <2> QED
    BY <1>0, <1>1, <2>1, <2>2, <2>3, <2>5, StagerMoves DEF Before
<1>6. CASE TrackImagesCut(s)
  <2> DEFINE entry == [stager[s] EXCEPT !.at = "cut", !.token = Nobody]
  <2>1. stager[s].at = "tracking" /\ Proceed(s, entry) /\ UNCHANGED <<uploaded, tracked>>
    BY <1>6 DEF TrackImagesCut
  <2>2. /\ entry \in StagerRow /\ entry.at = "cut" /\ entry.token = Nobody
        /\ entry.existing = stager[s].existing
    BY <1>0 DEF StagerRow
  <2> HIDE DEF entry
  <2>3. stager'[s] = entry
    BY <1>0, <2>1 DEF Proceed
  <2>4. StagerInv(s)'
    BY <1>0, <1>1, <2>2, <2>3 DEF StagerInv, Before, Working, Made
  <2> QED
    BY <1>0, <1>1, <2>1, <2>2, <2>4, StagerMoves DEF Before
<1> QED
  BY <1>3, <1>4, <1>5, <1>6

\* remember()
LEMMA StagerRemembers ==
    ASSUME StageAssumption, StageInv, NEW s \in Stagers, Remember(s)
    PROVE  StageInv'
<1>0. /\ stager[s] \in StagerRow /\ StagerInv(s) /\ Registry /\ stager[s].image \subseteq Images
      /\ stager[s].profile \subseteq Profiles
      /\ stage \in [Stagers -> StageRow] /\ stager \in [Stagers -> StagerRow]
      /\ task \in [Tasks -> TaskRow]
      /\ uploaded \subseteq Hosts \X Images /\ tracked \subseteq Hosts \X Images
  BY StagerFacts DEF StagerRow
<1> DEFINE k == stager[s].existing
           entry == [stager[s] EXCEPT !.at = "tracking", !.token = IF k # Nobody THEN k ELSE s]
           new == [host |-> stager[s].lease, images |-> stager[s].image,
                   profile |-> stager[s].profile, claimed |-> FALSE]
<1>1. /\ stager[s].at = "keeping" /\ Proceed(s, entry) /\ UNCHANGED <<task, uploaded, tracked>>
      /\ \/ k # Nobody /\ Keep
            /\ stage' = [stage EXCEPT ![k].images = @ \cup stager[s].image]
         \/ /\ k = Nobody /\ stage' = [stage EXCEPT ![s] = new]
            /\ byToken' = (byToken \ {bySession}) \cup {s} /\ bySession' = s
            /\ door' = IF bySession # Nobody /\ ~Locked THEN Nobody ELSE door
  BY DEF Remember
<1>2. /\ stager[s].lease \in Hosts /\ k \in Stagers \cup {Nobody} /\ ~Made(s)
      /\ \A i \in stager[s].image : <<stager[s].lease, i>> \in uploaded
      /\ k # Nobody => Made(k) /\ stager[s].lease = stage[k].host
  BY <1>0, <1>1 DEF StagerInv, Working, StageInv, StagesMade, Before, StagerRow
<1>3. /\ entry \in StagerRow /\ entry.at = "tracking" /\ entry.lease = stager[s].lease
      /\ entry.token = (IF k # Nobody THEN k ELSE s) /\ entry.existing = k
      /\ entry.image = stager[s].image
  BY <1>0, <1>2 DEF StagerRow, Inside
<1>4. new \in StageRow
  BY <1>0, <1>2 DEF StageRow
<1> HIDE DEF entry
<1>5. /\ stager' \in [Stagers -> StagerRow] /\ stager'[s] = entry
      /\ \A o \in Stagers : o # s => stager'[o] = stager[o]
  BY <1>0, <1>1, <1>3 DEF Proceed
<1>6. CASE k # Nobody
  <2>1. /\ Keep /\ k \in Stagers /\ stage' = [stage EXCEPT ![k].images = @ \cup stager[s].image]
    BY <1>1, <1>2, <1>6
  <2> HIDE DEF k
  <2> DEFINE more == [stage[k] EXCEPT !.images = stage[k].images \cup stager[s].image]
  <2>2. more \in StageRow /\ more.host = stage[k].host
        /\ more.images = stage[k].images \cup stager[s].image
    BY <1>0, <2>1 DEF StageRow
  <2>3. stage' = [stage EXCEPT ![k] = more]
    BY <1>0, <2>1
  <2> HIDE DEF more
  <2>4. /\ stage' \in [Stagers -> StageRow] /\ stage'[k] = more
        /\ \A x \in Stagers : x # k => stage'[x] = stage[x]
    BY <1>0, <2>1, <2>2, <2>3
  <2>5. ImageTypeOK'
    <3>1. Registry' /\ task' = task /\ uploaded' = uploaded /\ tracked' = tracked
      BY <1>0, <1>1, <2>1 DEF Keep, Registry
    <3> QED
      BY <1>0, <1>5, <2>4, <3>1 DEF ImageTypeOK, StageRow, StagerRow, TaskRow, Registry
  <2>6. StagesGrow
    BY <1>1, <2>1, <2>2, <2>4 DEF StagesGrow, Made
  <2>7. StagesMade'
    BY <1>1, <1>2, <1>3, <1>5, <2>1, <2>2, <2>4
       DEF StageInv, StagesMade, Made, Before, Keep, Registry
  <2>8. StagerInv(s)'
    BY <1>2, <1>3, <1>5, <1>6, <2>1, <2>2, <2>4 DEF StagerInv, Before, Working, Made
  <2> QED
    BY <1>1, <1>5, <2>5, <2>6, <2>7, <2>8, OneStagerSteps
<1>7. CASE k = Nobody
  <2> HIDE DEF new
  <2>1. /\ stage' = [stage EXCEPT ![s] = new] /\ bySession' = s
        /\ byToken' = (byToken \ {bySession}) \cup {s}
        /\ door' = IF bySession # Nobody /\ ~Locked THEN Nobody ELSE door
    BY <1>1, <1>7
  <2>2. new.host = stager[s].lease /\ new.images = stager[s].image
    BY DEF new
  <2>3. /\ stage' \in [Stagers -> StageRow] /\ stage'[s] = new
        /\ \A x \in Stagers : x # s => stage'[x] = stage[x]
    BY <1>0, <1>4, <2>1
  <2>4. Registry'
    BY <1>0, <2>1 DEF Registry
  <2>5. ImageTypeOK'
    BY <1>0, <1>1, <1>5, <2>3, <2>4 DEF ImageTypeOK, StageRow, StagerRow, TaskRow, Registry
  <2>6. StagesGrow
    BY <1>1, <1>2, <2>3 DEF StagesGrow, Made
  <2>7. StagesMade'
    BY <1>0, <1>1, <1>2, <1>3, <1>5, <2>1, <2>2, <2>3
       DEF StageInv, StagesMade, Made, Before, Registry, StageAssumption
  <2>8. StagerInv(s)'
    BY <1>2, <1>3, <1>5, <1>7, <2>2, <2>3
       DEF StagerInv, Before, Working, Made, StageAssumption
  <2> QED
    BY <1>1, <1>5, <2>5, <2>6, <2>7, <2>8, OneStagerSteps
<1> QED
  BY <1>6, <1>7

LEMMA TakenStage ==
    ASSUME NEW k \in Stagers, stage[k] \in StageRow
    PROVE  /\ ClaimedNow(k) \in StageRow
           /\ ClaimedNow(k).host = stage[k].host /\ ClaimedNow(k).images = stage[k].images
<1>1. TRUE \in BOOLEAN
  OBVIOUS
<1> QED
  BY <1>1 DEF ClaimedNow, StageRow

\* One task steps; what it may change of a stage is that it is claimed.
LEMMA OneTaskSteps ==
    ASSUME StageAssumption, StageInv, NEW t \in Tasks, NEW entry \in TaskRow, Advance(t, entry),
           TaskInv(t)',
           \/ UNCHANGED stage
           \/ \E k \in Stagers : stage' = [stage EXCEPT ![k] = ClaimedNow(k)]
    PROVE  StageInv'
<1>0. /\ stage \in [Stagers -> StageRow] /\ stager \in [Stagers -> StagerRow]
      /\ task \in [Tasks -> TaskRow] /\ Registry
      /\ uploaded \subseteq Hosts \X Images /\ tracked \subseteq Hosts \X Images
  BY ImageTypes DEF StageInv
<1>1. /\ task' = [task EXCEPT ![t] = entry]
      /\ UNCHANGED <<byToken, bySession, door, stager, uploaded, tracked>>
  BY DEF Advance
<1>2. /\ task' \in [Tasks -> TaskRow] /\ \A u \in Tasks : u # t => task'[u] = task[u]
  BY <1>0, <1>1
<1>3. /\ stage' \in [Stagers -> StageRow]
      /\ \A x \in Stagers : stage'[x].host = stage[x].host /\ stage'[x].images = stage[x].images
  <2>1. CASE UNCHANGED stage
    BY <1>0, <2>1
  <2>2. ASSUME NEW k \in Stagers, stage' = [stage EXCEPT ![k] = ClaimedNow(k)]
        PROVE  /\ stage' \in [Stagers -> StageRow]
               /\ \A x \in Stagers : /\ stage'[x].host = stage[x].host
                                     /\ stage'[x].images = stage[x].images
    <3>1. ClaimedNow(k) \in StageRow /\ ClaimedNow(k).host = stage[k].host
          /\ ClaimedNow(k).images = stage[k].images
      BY <1>0, TakenStage
    <3> QED
      BY <1>0, <2>2, <3>1
  <2> QED
    BY <2>1, <2>2
<1>4. ImageTypeOK'
  BY <1>0, <1>1, <1>2, <1>3 DEF ImageTypeOK, StageRow, StagerRow, TaskRow, Registry
<1>5. StagesGrow
  BY <1>1, <1>3 DEF StagesGrow, Made
<1>6. StagesMade'
  BY <1>0, <1>1, <1>3 DEF StageInv, StagesMade, Made, Registry
<1>7. ASSUME NEW s \in Stagers PROVE StagerInv(s)'
  BY <1>0, <1>1, <1>5, StagerStays DEF StageInv
<1>8. ASSUME NEW u \in Tasks, u # t PROVE TaskInv(u)'
  BY <1>0, <1>2, <1>5, <1>8, TaskStays DEF StageInv
<1> QED
  BY <1>4, <1>6, <1>7, <1>8 DEF StageInv

\* claim()
LEMMA TaskClaims ==
    ASSUME StageAssumption, StageInv, NEW t \in Tasks, Generate(t)
    PROVE  StageInv'
<1>0. /\ stage \in [Stagers -> StageRow] /\ Registry /\ task \in [Tasks -> TaskRow]
  BY ImageTypes DEF StageInv
<1>1. PICK images \in SUBSET Images, p \in Profiles, k \in Tokens \cup {Nobody} :
         IF Claimable(k, images, {p})
         THEN stage' = [stage EXCEPT ![k] = ClaimedNow(k)] /\ Advance(t, Asking(images, p, k))
         ELSE UNCHANGED stage /\ Advance(t, Asking(images, p, Nobody))
  BY DEF Generate
<1>2. CASE Claimable(k, images, {p})
  <2> DEFINE entry == Asking(images, p, k)
  <2>1. /\ k \in byToken /\ k \in Stagers /\ Made(k) /\ images \subseteq stage[k].images
        /\ k # Nobody
    BY <1>0, <1>2 DEF Claimable, StageInv, StagesMade, Registry, StageAssumption
  <2>2. /\ entry \in TaskRow /\ entry.stage = k /\ entry.images = images /\ entry.at = "leasing"
        /\ entry.tried = {}
    BY <2>1 DEF TaskRow, NewTask, Asking
  <2>3. stage' = [stage EXCEPT ![k] = ClaimedNow(k)] /\ Advance(t, entry)
    BY <1>1, <1>2
  <2> HIDE DEF entry
  <2>4. task'[t] = entry
    BY <1>0, <2>3 DEF Advance
  <2>5. stage'[k].host = stage[k].host /\ stage'[k].images = stage[k].images
    BY <1>0, <2>1, <2>3, TakenStage
  <2>6. TaskInv(t)'
    BY <2>1, <2>2, <2>4, <2>5, FS_EmptySet DEF TaskInv, Made
  <2> QED
    BY <2>1, <2>2, <2>3, <2>6, OneTaskSteps
<1>3. CASE ~Claimable(k, images, {p})
  <2> DEFINE entry == Asking(images, p, Nobody)
  <2>1. /\ entry \in TaskRow /\ entry.stage = Nobody /\ entry.at = "leasing" /\ entry.tried = {}
    BY DEF TaskRow, NewTask, Asking
  <2>2. UNCHANGED stage /\ Advance(t, entry)
    BY <1>1, <1>3
  <2> HIDE DEF entry
  <2>3. task'[t] = entry
    BY <1>0, <2>2 DEF Advance
  <2>4. TaskInv(t)'
    BY <2>1, <2>3, FS_EmptySet DEF TaskInv
  <2> QED
    BY <2>1, <2>2, <2>4, OneTaskSteps
<1> QED
  BY <1>2, <1>3

\* The stage counts at the first account only.
LEMMA TaskLeases ==
    ASSUME StageAssumption, StageInv, NEW t \in Tasks, TaskLease(t)
    PROVE  StageInv'
<1>0. /\ task \in [Tasks -> TaskRow] /\ task[t] \in TaskRow /\ TaskInv(t) /\ UNCHANGED stage
      /\ IsFiniteSet(task[t].tried)
  BY ImageTypes DEF StageInv, TaskInv, TaskLease
<1>1. PICK h \in Hosts \ task[t].tried, fallback \in BOOLEAN :
         /\ First(t) /\ task[t].stage # Nobody /\ ~fallback => stage[task[t].stage].host = h
         /\ Advance(t, Sending(t, h, IF First(t) /\ fallback THEN Nobody ELSE task[t].stage))
  BY DEF TaskLease
<1> DEFINE entry == Sending(t, h, IF First(t) /\ fallback THEN Nobody ELSE task[t].stage)
<1>2. /\ entry \in TaskRow /\ entry.lease = h /\ entry.tried = task[t].tried \cup {h}
      /\ entry.images = task[t].images
      /\ entry.stage = (IF First(t) /\ fallback THEN Nobody ELSE task[t].stage)
  BY <1>0 DEF TaskRow, Sending
<1>3. Advance(t, entry)
  BY <1>1
<1> HIDE DEF entry
<1>4. task'[t] = entry
  BY <1>0, <1>2, <1>3 DEF Advance
<1>5. IsFiniteSet(entry.tried) /\ Cardinality(entry.tried) = Cardinality(task[t].tried) + 1
  <2>1. /\ IsFiniteSet(task[t].tried \cup {h})
        /\ Cardinality(task[t].tried \cup {h}) =
              IF h \in task[t].tried THEN Cardinality(task[t].tried)
              ELSE Cardinality(task[t].tried) + 1
    BY <1>0, FS_AddElement
  <2> QED
    BY <1>1, <1>2, <2>1
<1>6. Cardinality(task[t].tried) \in Nat
      /\ (Cardinality(task[t].tried) = 0 <=> task[t].tried = {})
  BY <1>0, FS_CardinalityType, FS_EmptySet
<1>7. Prepared(t)' # Nobody => First(t) /\ entry.stage # Nobody
  BY <1>4, <1>5, <1>6 DEF Prepared, First
<1>8. TaskInv(t)'
  BY <1>0, <1>1, <1>2, <1>4, <1>5, <1>7 DEF TaskInv, Made
<1> QED
  BY <1>0, <1>2, <1>3, <1>8, OneTaskSteps

LEMMA TaskEndsAttempt ==
    ASSUME StageAssumption, StageInv, NEW t \in Tasks,
           TaskGivesUp(t) \/ TaskFailsOver(t) \/ TaskEnds(t)
    PROVE  StageInv'
<1>0. /\ task \in [Tasks -> TaskRow] /\ task[t] \in TaskRow /\ TaskInv(t)
  BY ImageTypes DEF StageInv
<1>1. PICK at \in {"leasing", "over"} : Advance(t, Done(t, at)) /\ UNCHANGED stage
  BY DEF TaskGivesUp, TaskFailsOver, TaskEnds
<1>2. /\ Done(t, at) \in TaskRow /\ Done(t, at).at # "sending"
      /\ Done(t, at).stage = task[t].stage /\ Done(t, at).images = task[t].images
      /\ Done(t, at).tried = task[t].tried
  BY <1>0 DEF Done, TaskRow
<1>3. task'[t] = Done(t, at)
  BY <1>0, <1>1 DEF Advance
<1>4. TaskInv(t)'
  BY <1>0, <1>1, <1>2, <1>3 DEF TaskInv, Made
<1> QED
  BY <1>1, <1>2, <1>4, OneTaskSteps

LEMMA PruneStep ==
    ASSUME StageAssumption, StageInv, NEW k \in Stagers, Prune(k)
    PROVE  StageInv'
<1>0. /\ stage \in [Stagers -> StageRow] /\ stager \in [Stagers -> StagerRow]
      /\ task \in [Tasks -> TaskRow] /\ Registry
      /\ uploaded \subseteq Hosts \X Images /\ tracked \subseteq Hosts \X Images
  BY ImageTypes DEF StageInv
<1>1. byToken' \subseteq byToken /\ Registry' /\ UNCHANGED <<stage, stager, task, uploaded, tracked>>
  BY <1>0 DEF Prune, Discard, Registry
<1>2. ImageTypeOK' /\ StagesGrow
  BY <1>0, <1>1 DEF ImageTypeOK, StageRow, StagerRow, TaskRow, Registry, StagesGrow, Made
<1>3. StagesMade'
  BY <1>1 DEF StageInv, StagesMade, Made
<1>4. (\A s \in Stagers : StagerInv(s)') /\ (\A t \in Tasks : TaskInv(t)')
  BY <1>0, <1>1, <1>2, StagerStays, TaskStays DEF StageInv
<1> QED
  BY <1>2, <1>3, <1>4 DEF StageInv

\* However stages are made, extended, claimed, dropped and made again between
\* the steps of handlers and tasks: an account that is told to take a task's
\* images from a stage was sent every one of them, a handler that is over has
\* given its lease back, and what it called staged will be deleted
\* (image_stage.py; app.py, stage_image_media and image_generations).
THEOREM StagesKeepTheirWord == ASSUME StageAssumption PROVE ImageSpec => []StageSafety
<1>1. ImageInit => StageInv
  BY ImageStart
<1>2. StageInv /\ [ImageNext]_imageVars => StageInv'
  <2>1. ASSUME NEW k \in Stagers, StageInv, Prune(k) PROVE StageInv'
    BY <2>1, PruneStep
  <2>2. ASSUME NEW s \in Stagers, StageInv,
               \/ Stage(s) \/ Admit(s) \/ StageLease(s) \/ Upload(s) \/ UploadFails(s)
               \/ Remember(s) \/ TrackImages(s) \/ TrackImagesCut(s) \/ StageRelease(s)
        PROVE  StageInv'
    BY <2>2, StagerEnters, StagerWorks, StagerRemembers
  <2>3. ASSUME NEW t \in Tasks, StageInv,
               \/ Generate(t) \/ TaskLease(t) \/ TaskGivesUp(t) \/ TaskFailsOver(t)
               \/ TaskEnds(t)
        PROVE  StageInv'
    BY <2>3, TaskClaims, TaskLeases, TaskEndsAttempt
  <2>4. ASSUME StageInv, UNCHANGED imageVars PROVE StageInv'
    <3>1. /\ stage \in [Stagers -> StageRow] /\ stager \in [Stagers -> StagerRow]
          /\ task \in [Tasks -> TaskRow]
      BY <2>4, ImageTypes DEF StageInv
    <3>2. ImageTypeOK' /\ StagesMade' /\ StagesGrow
      BY <2>4 DEF imageVars, StageInv, ImageTypeOK, StagesMade, StagesGrow, Made
    <3>3. (\A s \in Stagers : StagerInv(s)') /\ (\A t \in Tasks : TaskInv(t)')
      BY <2>4, <3>1, <3>2, StagerStays, TaskStays DEF StageInv, imageVars
    <3> QED
      BY <3>2, <3>3 DEF StageInv
  <2> QED
    BY <2>1, <2>2, <2>3, <2>4 DEF ImageNext
<1>3. StageInv => StageSafety
  <2> SUFFICES ASSUME StageInv PROVE StageSafety
    OBVIOUS
  <2>1. PreparedHasImages
    <3> SUFFICES ASSUME NEW t \in Tasks, task[t].at = "sending", Prepared(t) # Nobody,
                        NEW i \in task[t].images
                 PROVE  <<task[t].lease, i>> \in uploaded
      BY DEF PreparedHasImages
    <3>1. task[t] \in TaskRow /\ TaskInv(t) /\ Prepared(t) = task[t].stage
      BY ImageTypes DEF StageInv, Prepared
    <3>2. task[t].stage \in Stagers /\ Made(task[t].stage) /\ i \in stage[task[t].stage].images
      BY <3>1 DEF TaskRow, TaskInv
    <3> QED
      BY <3>1, <3>2 DEF StageInv, StagesMade, TaskInv
  <2>2. StagersPayUp
    BY DEF StageInv, StagerInv, StagersPayUp
  <2> QED
    BY <2>1, <2>2 DEF StageInv, StageSafety
<1> QED
  BY <1>1, <1>2, <1>3, PTL DEF ImageSpec

-----------------------------------------------------------------------------
(* The bucket and its tables. *)

FileRow == [status : {"none", "uploading", "copying", "completed", "gone"}, old : BOOLEAN,
            thumb : {"none", "pending", "uploading", "completed", "missing", "failed"},
            by : Pages \cup {Uploader}, stale : BOOLEAN]
PageRow == [file : Files, at : Busy \cup {"idle", "done"}, put : BOOLEAN]

\* The types of the tables, one by one.
RowsTyped == row \in [Files -> FileRow]
JobsTyped == job \in [Kinds -> [Files -> Steps]]
PagesTyped == page \in [Pages -> PageRow]
BrowsersTyped ==
    browser \in [Files -> {"idle", "reserving", "sending", "completing", "stored", "failed"}]
BucketTyped ==
    /\ object \in [Files -> Landed \cup {"none"}] /\ thumb \in [Files -> Landed \cup {"none"}]
    /\ flying \in [Files -> SUBSET {"main", "thumb"}]
    /\ overrun \subseteq Files
LockTyped ==
    /\ userLock \in [Processes -> Files \cup Pages \cup {Unlocked}]
    /\ crossed \subseteq Files \cup Pages /\ excess \subseteq Files

LEMMA MediaTypes ==
    MediaTypeOK <=> /\ RowsTyped /\ JobsTyped /\ PagesTyped /\ BrowsersTyped /\ BucketTyped
                    /\ LockTyped
  BY DEF MediaTypeOK, RowsTyped, JobsTyped, PagesTyped, BrowsersTyped, BucketTyped, LockTyped,
         FileRow, PageRow

\* Locks are taken and given back by one request at a time.
LEMMA TakeEffect ==
    ASSUME NEW x \in Files \cup Pages, TakeLock(x),
           userLock \in [Processes -> Files \cup Pages \cup {Unlocked}]
    PROVE  /\ userLock' \in [Processes -> Files \cup Pages \cup {Unlocked}]
           /\ HasLock(x)'
           /\ \A y \in Files \cup Pages : HasLock(y) => HasLock(y)'
<1>1. PICK P \in Processes : userLock[P] = Unlocked /\ userLock' = [userLock EXCEPT ![P] = x]
  BY DEF TakeLock
<1>2. /\ userLock' \in [Processes -> Files \cup Pages \cup {Unlocked}] /\ userLock'[P] = x
      /\ \A Q \in Processes : Q # P => userLock'[Q] = userLock[Q]
  BY <1>1
<1> QED
  BY <1>1, <1>2, MediaStorageAssumption DEF HasLock

LEMMA UnlockEffect ==
    ASSUME NEW x, Unlock(x), userLock \in [Processes -> Files \cup Pages \cup {Unlocked}]
    PROVE  /\ userLock' \in [Processes -> Files \cup Pages \cup {Unlocked}]
           /\ \A y \in Files \cup Pages : y # x /\ HasLock(y) => HasLock(y)'
  BY DEF Unlock, HasLock

LEMMA SendEffect ==
    ASSUME PagesTyped, NEW p \in Pages, SendThumb(p)
    PROVE  /\ PagesTyped'
           /\ \A q \in Pages : page'[q].file = page[q].file
           /\ page'[p].at = "sending"
           /\ \A q \in Pages : q # p => page'[q].at = page[q].at
  BY DEF PagesTyped, PageRow, SendThumb, Busy

LEMMA LandEffect ==
    ASSUME PagesTyped, NEW p \in Pages, LandThumb(p)
    PROVE  /\ PagesTyped'
           /\ \A q \in Pages : page'[q].file = page[q].file
           /\ page'[p].at = IF page[p].at = "sending" THEN "landed" ELSE page[p].at
           /\ \A q \in Pages : q # p => page'[q].at = page[q].at
<1> DEFINE at == IF page[p].at = "sending" THEN "landed" ELSE page[p].at
           entry == [page[p] EXCEPT !.put = FALSE, !.at = at]
<1>1. page[p] \in PageRow /\ at \in Busy \cup {"idle", "done"}
  BY DEF PagesTyped, PageRow, Busy
<1>2. page' = [page EXCEPT ![p] = entry]
  BY DEF LandThumb, PagesTyped
<1> HIDE DEF at
<1>3. entry \in PageRow /\ entry.file = page[p].file /\ entry.at = at
  BY <1>1 DEF PageRow
<1> HIDE DEF entry
<1>4. PagesTyped' /\ page'[p] = entry /\ \A q \in Pages : q # p => page'[q] = page[q]
  BY <1>2, <1>3 DEF PagesTyped
<1> QED
  BY <1>3, <1>4 DEF at

\* The names of requests and of their places.
LEMMA Named ==
    /\ "upload" \in Kinds /\ "cancel" \in Kinds /\ "sweep" \in Kinds /\ "delete" \in Kinds
    /\ "idle" \in Steps /\ "insert" \in Steps /\ "copy" \in Steps /\ "head" \in Steps
    /\ "headThumb" \in Steps /\ "meta" \in Steps /\ "status" \in Steps /\ "read" \in Steps
    /\ "dropThumb" \in Steps /\ "dropObject" \in Steps /\ "dropRow" \in Steps
    /\ "eraseThumb" \in Steps /\ "unlist" \in Steps
  BY DEF Kinds, Steps

LEMMA Placed ==
    /\ {"reserve", "sending", "landed", "head", "write", "reject", "mark", "cancel", "erase",
        "unlist"} = Busy
    /\ "idle" \notin Busy /\ "done" \notin Busy
  BY DEF Busy

\* What the writes that many handlers share do.
LEMMA StepEffect ==
    ASSUME JobsTyped, NEW k \in Kinds, NEW f \in Files, NEW at \in Steps, Step(k, f, at)
    PROVE  /\ JobsTyped'
           /\ job'[k][f] = at
           /\ \A l \in Kinds, g \in Files : l # k \/ g # f => job'[l][g] = job[l][g]
  BY DEF JobsTyped, Step

LEMMA TurnEffect ==
    ASSUME PagesTyped, NEW p \in Pages, NEW at \in Busy \cup {"idle", "done"}, Turn(p, at)
    PROVE  /\ PagesTyped'
           /\ \A q \in Pages : page'[q].file = page[q].file
           /\ page'[p].at = at
           /\ \A q \in Pages : q # p => page'[q].at = page[q].at
  BY DEF PagesTyped, PageRow, Turn

LEMMA AnswerEffect ==
    ASSUME BrowsersTyped, NEW f \in Files, NEW outcome \in {"stored", "failed"}, Answer(f, outcome)
    PROVE  /\ BrowsersTyped'
           /\ \A g \in Files : g # f => browser'[g] = browser[g]
           /\ browser'[f] = IF browser[f] \in {"completing", "reserving"} THEN outcome ELSE browser[f]
  BY DEF BrowsersTyped, Answer

LEMMA RefusedEffect ==
    ASSUME BrowsersTyped, JobsTyped, NEW f \in Files, Refused(f)
    PROVE  /\ BrowsersTyped' /\ JobsTyped'
           /\ \A g \in Files : g # f => browser'[g] = browser[g]
           /\ browser'[f] = IF browser[f] \in {"completing", "reserving"} THEN "failed" ELSE browser[f]
           /\ job'["upload"][f] = "idle"
           /\ \A l \in Kinds, g \in Files :
                 l \notin {"upload", "cancel"} \/ g # f => job'[l][g] = job[l][g]
           /\ job'["cancel"][f] = IF browser[f] = "completing" THEN "read" ELSE job["cancel"][f]
<1>1. Answer(f, "failed")
  BY DEF Refused
<1>2. /\ job' = [job EXCEPT !["upload"][f] = "idle",
                          !["cancel"][f] = IF browser[f] = "completing" THEN "read" ELSE @]
  BY DEF Refused
<1>3. \A l \in Kinds, g \in Files :
        job'[l][g] = IF l = "upload" /\ g = f THEN "idle"
                     ELSE IF l = "cancel" /\ g = f /\ browser[f] = "completing" THEN "read"
                     ELSE job[l][g]
  BY <1>2 DEF JobsTyped, Kinds
<1>4. JobsTyped'
  BY <1>2 DEF JobsTyped, Kinds, Steps
<1> QED
  BY <1>1, <1>3, <1>4, AnswerEffect DEF Kinds

Rewritten(f) == RowsTyped' /\ \A g \in Files : g # f => row'[g] = row[g]

LEMMA Written ==
    ASSUME RowsTyped, NEW f \in Files, NEW fields \in FileRow, Write(f, fields)
    PROVE  Rewritten(f) /\ row'[f] = fields
  BY DEF Write, RowsTyped, Rewritten

\* The thumbnail's column.
LEMMA ThumbWritten ==
    ASSUME RowsTyped, NEW f \in Files,
           NEW th \in {"none", "pending", "uploading", "completed", "missing", "failed"},
           MarkThumb(f, th)
    PROVE  /\ Rewritten(f)
           /\ row'[f].thumb = th
           /\ row'[f].status = row[f].status /\ row'[f].stale = row[f].stale
<1> DEFINE fields == [row[f] EXCEPT !.thumb = th]
<1>1. row[f] \in FileRow
  BY DEF RowsTyped
<1>2. fields \in FileRow
  BY <1>1 DEF FileRow
<1>3. Rewritten(f) /\ row'[f] = fields
  <2> HIDE DEF fields
  <2> QED
    BY <1>2, Written DEF MarkThumb, fields
<1> QED
  BY <1>1, <1>3 DEF FileRow

\* The thumbnail is not listed any more.
LEMMA Unlisted ==
    ASSUME RowsTyped, NEW f \in Files, Unlist(f)
    PROVE  /\ Rewritten(f)
           /\ row'[f].thumb = "missing" /\ ~row'[f].stale
           /\ row'[f].status = row[f].status
<1> DEFINE fields == [row[f] EXCEPT !.thumb = "missing", !.stale = FALSE]
<1>1. row[f] \in FileRow
  BY DEF RowsTyped
<1>2. fields \in FileRow
  BY <1>1 DEF FileRow
<1>3. Rewritten(f) /\ row'[f] = fields
  <2> HIDE DEF fields
  <2> QED
    BY <1>2, Written DEF Unlist, fields
<1> QED
  BY <1>1, <1>3 DEF FileRow

LEMMA StatusWritten ==
    ASSUME RowsTyped, NEW f \in Files, MarkComplete(f)
    PROVE  /\ Rewritten(f)
           /\ row'[f].status = "completed"
           /\ row'[f].thumb = row[f].thumb /\ row'[f].stale = row[f].stale
<1> DEFINE fields == [row[f] EXCEPT !.status = "completed"]
<1>1. row[f] \in FileRow
  BY DEF RowsTyped
<1>2. fields \in FileRow
  BY <1>1 DEF FileRow
<1>3. Rewritten(f) /\ row'[f] = fields
  <2> HIDE DEF fields
  <2> QED
    BY <1>2, Written DEF MarkComplete, fields
<1> QED
  BY <1>1, <1>3 DEF FileRow

LEMMA RowDropped ==
    ASSUME RowsTyped, NEW f \in Files, Remove(f)
    PROVE  /\ Rewritten(f) /\ row'[f].status = "gone" /\ ~row'[f].stale
  BY DEF Remove, Write, NoRow, RowsTyped, FileRow, Rewritten

LEMMA Reserved ==
    ASSUME RowsTyped, NEW f \in Files, Reserve(f)
    PROVE  /\ Rewritten(f) /\ ~row'[f].stale
           /\ f \in Uploads => row'[f].status = "uploading" /\ row'[f].thumb = "uploading"
           /\ f \in Generated => row'[f].status = "copying" /\ row'[f].thumb = "pending"
           /\ f \in Standard => row'[f].status = "completed" /\ row'[f].thumb = "none"
<1> DEFINE fields == IF f \in Uploads THEN [NoRow EXCEPT !.status = "uploading", !.thumb = "uploading"]
                     ELSE IF f \in Generated THEN [NoRow EXCEPT !.status = "copying", !.thumb = "pending"]
                     ELSE [NoRow EXCEPT !.status = "completed"]
<1>1. fields \in FileRow
  BY DEF NoRow, FileRow
<1>2. Rewritten(f) /\ row'[f] = fields
  <2> HIDE DEF fields
  <2> QED
    BY <1>1, Written DEF Reserve, fields
<1> QED
  BY <1>2, MediaStorageAssumption DEF NoRow

LEMMA ThumbReserved ==
    ASSUME RowsTyped, NEW f \in Files, NEW p \in Pages, ReserveThumb(f, p)
    PROVE  /\ Rewritten(f) /\ ~row'[f].stale /\ row'[f].thumb = "uploading"
           /\ row'[f].status = row[f].status
<1> DEFINE fields == [row[f] EXCEPT !.thumb = "uploading", !.by = p, !.stale = FALSE]
<1>1. row[f] \in FileRow
  BY DEF RowsTyped
<1>2. fields \in FileRow
  BY <1>1 DEF FileRow
<1>3. Rewritten(f) /\ row'[f] = fields
  <2> HIDE DEF fields
  <2> QED
    BY <1>2, Written DEF ReserveThumb, fields
<1> QED
  BY <1>1, <1>3 DEF FileRow

\* An hour passes over a reservation.
LEMMA Aged ==
    ASSUME RowsTyped, NEW f \in Files, HourPasses(f)
    PROVE  /\ Rewritten(f) /\ row'[f].thumb = row[f].thumb /\ row'[f].status = row[f].status
<1>0. row[f] \in FileRow
  BY DEF RowsTyped
<1>1. CASE Write(f, [row[f] EXCEPT !.old = TRUE])
  <2>1. [row[f] EXCEPT !.old = TRUE] \in FileRow
    BY <1>0 DEF FileRow
  <2>2. Rewritten(f) /\ row'[f] = [row[f] EXCEPT !.old = TRUE]
    BY <1>1, <2>1, Written
  <2> QED
    BY <1>0, <2>2 DEF FileRow
<1>2. CASE Write(f, [row[f] EXCEPT !.stale = TRUE]) /\ row[f].status = "completed"
                                                  /\ row[f].thumb = "uploading"
  <2>1. [row[f] EXCEPT !.stale = TRUE] \in FileRow
    BY <1>0 DEF FileRow
  <2>2. Rewritten(f) /\ row'[f] = [row[f] EXCEPT !.stale = TRUE]
    BY <1>2, <2>1, Written
  <2> QED
    BY <1>0, <1>2, <2>2 DEF FileRow
<1> QED
  BY <1>1, <1>2 DEF HourPasses

Parts == /\ RowsTyped /\ JobsTyped /\ PagesTyped /\ BrowsersTyped /\ BucketTyped /\ LockTyped

\* A request that is cancelled leaves the row, what it waited for being done or not.
LEMMA CancelledEffect ==
    ASSUME Parts, NEW f \in Files, CopyCancelled(f)
    PROVE  /\ RowsTyped' /\ JobsTyped' /\ BrowsersTyped' /\ BucketTyped'
           /\ page' = page /\ overrun' = overrun
           /\ f \in Generated /\ job["upload"][f] # "idle" /\ job'["upload"][f] = "idle"
           /\ \A l \in Kinds, g \in Files : l # "upload" \/ g # f => job'[l][g] = job[l][g]
           /\ \A g \in Files : g # f =>
                 /\ row'[g] = row[g] /\ object'[g] = object[g] /\ thumb'[g] = thumb[g]
                 /\ flying'[g] = flying[g] /\ browser'[g] = browser[g]
           /\ browser'[f] \in {browser[f], "failed"}
           /\ Unlock(f)
<1>1. f \in Generated /\ job["upload"][f] # "idle" /\ Step("upload", f, "idle")
      /\ Answer(f, "failed") /\ Unlock(f) /\ page' = page /\ overrun' = overrun
  BY DEF CopyCancelled
<1>2. RowsTyped' /\ \A g \in Files : g # f => row'[g] = row[g]
  <2>1. row' = row \/ Reserve(f) \/ MarkComplete(f) \/ Remove(f)
    BY DEF CopyCancelled
  <2> QED
    BY <2>1, Reserved, StatusWritten, RowDropped DEF Parts, RowsTyped, Rewritten
<1>3. /\ object' = object \/ object' = [object EXCEPT ![f] = "none"]
      /\ thumb' = thumb \/ thumb' = [thumb EXCEPT ![f] = "none"]
      /\ flying' = flying \/ flying' = [flying EXCEPT ![f] = {"main"}]
  BY DEF CopyCancelled
<1>4. BucketTyped' /\ \A g \in Files : g # f =>
          object'[g] = object[g] /\ thumb'[g] = thumb[g] /\ flying'[g] = flying[g]
  BY <1>1, <1>3 DEF Parts, BucketTyped
<1>5. JobsTyped' /\ job'["upload"][f] = "idle"
      /\ \A l \in Kinds, g \in Files : l # "upload" \/ g # f => job'[l][g] = job[l][g]
  BY <1>1, StepEffect, Named DEF Parts
<1>6. BrowsersTyped' /\ browser'[f] \in {browser[f], "failed"}
      /\ \A g \in Files : g # f => browser'[g] = browser[g]
  BY <1>1, AnswerEffect DEF Parts
<1> QED
  BY <1>1, <1>2, <1>4, <1>5, <1>6

\* What was done of it.
LEMMA CancelledLeaves ==
    ASSUME Parts, NEW f \in Files, CopyCancelled(f)
    PROVE  \/ /\ UNCHANGED <<row, object, thumb, excess>> /\ crossed' = crossed \ {f}
              /\ flying' = flying
           \/ /\ job["upload"][f] = "insert" /\ Reserve(f) /\ TakeRoom(f, f)
              /\ UNCHANGED <<object, thumb, flying>>
           \/ /\ job["upload"][f] = "copy" /\ flying'[f] = {"main"}
              /\ UNCHANGED <<row, object, thumb, crossed, excess>>
           \/ /\ job["upload"][f] = "status" /\ Listed(f) /\ MarkComplete(f)
              /\ UNCHANGED <<object, thumb, flying, crossed, excess>>
           \/ /\ job["upload"][f] \in {"dropThumb", "dropObject"}
              /\ UNCHANGED <<row, flying, crossed, excess>>
           \/ /\ job["upload"][f] = "dropRow" /\ Remove(f)
              /\ UNCHANGED <<object, thumb, flying, crossed, excess>>
  BY DEF CopyCancelled, Parts, BucketTyped

\* A completion writes only after it has looked at the thumbnail, and a row is
\* inserted only after the quota was checked.
LEMMA UploadsGoOn ==
    ASSUME Parts, NEW f \in Files, UploadStep(f)
    PROVE  /\ job'["upload"][f] = "insert" =>
                 CheckReservation(f) \/ CheckStandard(f) \/ job["upload"][f] = "insert"
           /\ job'["upload"][f] \in {"meta", "status"} =>
                 HeadThumb(f) \/ job["upload"][f] \in {"meta", "status"}
<1> USE Named DEF Parts
<1>1. CASE CheckReservation(f) \/ CheckStandard(f) \/ InsertReservation(f)
  <2>1. CASE InsertReservation(f)
    BY <2>1, StepEffect DEF InsertReservation
  <2>2. CASE job' = job
    BY <2>2
  <2>3. CASE Step("upload", f, "insert")
    BY <1>1, <2>1, <2>3, StepEffect
  <2> QED
    BY <1>1, <2>1, <2>2, <2>3 DEF CheckReservation, CheckStandard
<1>2. CASE SendComplete(f) \/ GiveUp(f)
           \/ \E what \in {"main", "thumb"}, body \in Landed : Arrive(f, what, body)
  BY <1>2, StepEffect DEF SendComplete, GiveUp, Arrive
<1>3. CASE ReadCompletion(f) \/ HeadMain(f)
  BY <1>3, StepEffect, RefusedEffect DEF ReadCompletion, HeadMain
<1>4. CASE Copy(f) \/ CopyCancelled(f)
  BY <1>4, StepEffect DEF Copy, CopyCancelled
<1>5. CASE HeadThumb(f)
  BY <1>5, StepEffect, RefusedEffect DEF HeadThumb
<1>6. CASE WriteMeta(f) \/ WriteStatus(f)
  BY <1>6, StepEffect, RefusedEffect DEF WriteMeta, WriteStatus
<1> QED
  BY <1>1, <1>2, <1>3, <1>4, <1>5, <1>6 DEF UploadStep

\* Room is taken, or found, without a trace on anything else.
LEMMA RoomTyped ==
    ASSUME LockTyped, NEW x \in Files \cup Pages, NEW f \in Files, TakeRoom(x, f)
    PROVE  crossed' \subseteq Files \cup Pages /\ excess' \subseteq Files
  BY DEF TakeRoom, Overtakes, RoomSeekers, LockTyped

LEMMA TypesUpload ==
    ASSUME Parts, NEW f \in Files, UploadStep(f)
    PROVE  Parts'
<1> USE Named DEF Parts
<1>1. CASE CheckReservation(f)
  <2>1. JobsTyped' /\ BrowsersTyped'
    <3>1. CASE UNCHANGED job
      BY <1>1, <3>1 DEF CheckReservation, BrowsersTyped, JobsTyped
    <3>2. CASE Step("upload", f, "insert")
      BY <1>1, <3>2, StepEffect DEF CheckReservation, BrowsersTyped
    <3> QED
      BY <1>1, <3>1, <3>2 DEF CheckReservation
  <2>2. LockTyped'
    BY <1>1, TakeEffect DEF CheckReservation, LockTyped
  <2> QED
    BY <1>1, <2>1, <2>2 DEF CheckReservation, RowsTyped, PagesTyped, BucketTyped
<1>0. CASE CheckStandard(f)
  <2>1. JobsTyped' /\ BrowsersTyped'
    <3>1. CASE UNCHANGED job
      BY <1>0, <3>1 DEF CheckStandard, BrowsersTyped, JobsTyped
    <3>2. CASE Step("upload", f, "insert")
      BY <1>0, <3>2, StepEffect DEF CheckStandard, BrowsersTyped
    <3> QED
      BY <1>0, <3>1, <3>2 DEF CheckStandard
  <2>2. BucketTyped'
    BY <1>0 DEF CheckStandard, BucketTyped, Landed
  <2> QED
    BY <1>0, <2>1, <2>2 DEF CheckStandard, RowsTyped, PagesTyped, LockTyped, quotaVars
<1>2. CASE InsertReservation(f)
  <2>1. RowsTyped' /\ JobsTyped'
    BY <1>2, StepEffect, Reserved DEF InsertReservation, Rewritten
  <2>2. LockTyped'
    BY <1>2, UnlockEffect, RoomTyped DEF InsertReservation, LockTyped
  <2>3. BrowsersTyped' /\ BucketTyped'
    BY <1>2 DEF InsertReservation, BrowsersTyped, BucketTyped
  <2> QED
    BY <1>2, <2>1, <2>2, <2>3 DEF InsertReservation, PagesTyped
<1>3. ASSUME NEW what \in {"main", "thumb"}, NEW body \in Landed, Arrive(f, what, body)
      PROVE Parts'
  <2>1. BucketTyped'
    BY <1>3 DEF Arrive, BucketTyped
  <2> QED
    BY <1>3, <2>1 DEF Arrive, RowsTyped, JobsTyped, PagesTyped, BrowsersTyped, LockTyped, quotaVars
<1>4. CASE SendComplete(f) \/ GiveUp(f)
  <2>1. JobsTyped'
    <3>1. CASE UNCHANGED job
      BY <3>1 DEF JobsTyped
    <3>2. CASE Step("upload", f, "read") \/ Step("cancel", f, "read")
      BY <3>2, StepEffect
    <3> QED
      BY <1>4, <3>1, <3>2 DEF SendComplete, GiveUp
  <2>2. RowsTyped' /\ PagesTyped' /\ BrowsersTyped' /\ BucketTyped' /\ LockTyped'
    BY <1>4 DEF SendComplete, GiveUp, RowsTyped, PagesTyped, BrowsersTyped, BucketTyped, LockTyped,
                quotaVars
  <2> QED
    BY <2>1, <2>2
<1>6. CASE ReadCompletion(f) \/ HeadMain(f) \/ HeadThumb(f)
  <2>1. JobsTyped' /\ BrowsersTyped'
    <3>1. CASE ReadCompletion(f)
      BY <3>1, StepEffect, AnswerEffect, RefusedEffect DEF ReadCompletion, BrowsersTyped
    <3>2. CASE HeadMain(f)
      BY <3>2, StepEffect, RefusedEffect DEF HeadMain, BrowsersTyped
    <3>3. CASE HeadThumb(f)
      BY <3>3, StepEffect, RefusedEffect DEF HeadThumb, BrowsersTyped
    <3> QED
      BY <1>6, <3>1, <3>2, <3>3
  <2>2. RowsTyped' /\ PagesTyped' /\ BucketTyped' /\ LockTyped'
    BY <1>6 DEF ReadCompletion, HeadMain, HeadThumb, RowsTyped, PagesTyped, BucketTyped, LockTyped,
                quotaVars
  <2> QED
    BY <2>1, <2>2
<1>7. CASE Copy(f)
  <2>1. JobsTyped'
    BY <1>7, StepEffect DEF Copy
  <2>2. RowsTyped' /\ PagesTyped' /\ BrowsersTyped' /\ LockTyped'
    BY <1>7 DEF Copy, RowsTyped, PagesTyped, BrowsersTyped, LockTyped, quotaVars
  <2>3. BucketTyped'
    BY <1>7 DEF Copy, BucketTyped, Landed
  <2> QED
    BY <2>1, <2>2, <2>3
<1>8. CASE CopyCancelled(f)
  <2>1. crossed' \subseteq Files \cup Pages /\ excess' \subseteq Files
    <3>1. CASE TakeRoom(f, f)
      BY <3>1, RoomTyped
    <3>2. CASE ~TakeRoom(f, f)
      BY <1>8, <3>2, CancelledLeaves DEF LockTyped
    <3> QED
      BY <3>1, <3>2
  <2>2. LockTyped'
    BY <1>8, <2>1, CancelledEffect, UnlockEffect DEF LockTyped
  <2> QED
    BY <1>8, <2>2, CancelledEffect DEF PagesTyped
<1>11. CASE WriteMeta(f) \/ WriteStatus(f)
  <2>1. RowsTyped'
    BY <1>11, ThumbWritten, StatusWritten DEF WriteMeta, WriteStatus, RowsTyped, Rewritten
  <2>2. CASE WriteMeta(f)
    BY <2>1, <2>2, StepEffect DEF WriteMeta, PagesTyped, BucketTyped, LockTyped, BrowsersTyped, quotaVars
  <2>3. CASE WriteStatus(f)
    <3>1. JobsTyped' /\ BrowsersTyped'
      BY <2>3, StepEffect, AnswerEffect, RefusedEffect DEF WriteStatus, BrowsersTyped
    <3> QED
      BY <2>1, <2>3, <3>1 DEF WriteStatus, PagesTyped, BucketTyped, LockTyped, quotaVars
  <2> QED
    BY <1>11, <2>2, <2>3
<1> QED
  BY <1>0, <1>1, <1>2, <1>3, <1>4, <1>6, <1>7, <1>8, <1>11 DEF UploadStep

LEMMA EraseEffect ==
    ASSUME BucketTyped, NEW f \in Files, NEW apart, EraseObject(f, apart)
    PROVE  /\ thumb' \in [Files -> Landed \cup {"none"}] /\ thumb'[f] = "none"
           /\ overrun' \subseteq Files
           /\ \A g \in Files : g # f => thumb'[g] = thumb[g] /\ (g \in overrun' <=> g \in overrun)
           /\ f \in overrun => f \in overrun'
           /\ apart /\ (\E p \in Pages : page[p].file = f /\ page[p].at = "write" /\ HasLock(p))
                => f \in overrun'
  BY DEF EraseObject, BucketTyped

LEMMA TypesRemoval ==
    ASSUME Parts, NEW f \in Files, RemovalStep(f)
    PROVE  Parts'
<1> USE Named DEF Parts
<1>1. CASE ReadCancel(f) \/ DeleteFile(f) \/ SweepLook(f)
  BY <1>1, StepEffect
     DEF ReadCancel, DeleteFile, SweepLook, RowsTyped, PagesTyped, BrowsersTyped, BucketTyped,
         LockTyped, quotaVars
<1>2. CASE SweepThumb(f)
  <2>1. JobsTyped' /\ BucketTyped'
    BY <1>2, StepEffect, EraseEffect DEF SweepThumb, BucketTyped
  <2> QED
    BY <1>2, <2>1 DEF SweepThumb, RowsTyped, PagesTyped, BrowsersTyped, LockTyped, quotaVars
<1>3. CASE SweepUnlist(f)
  BY <1>3, StepEffect, Unlisted
     DEF SweepUnlist, Rewritten, PagesTyped, BrowsersTyped, BucketTyped, LockTyped, RowsTyped,
         quotaVars
<1>4. CASE HourPasses(f)
  BY <1>4, Aged DEF HourPasses, Rewritten, JobsTyped, PagesTyped, BrowsersTyped, BucketTyped,
                    LockTyped, quotaVars
<1>5. ASSUME NEW k \in Kinds, DropThumb(k, f) \/ DropObject(k, f) \/ DropFails(k, f)
      PROVE Parts'
  <2>1. JobsTyped' /\ BucketTyped'
    BY <1>5, StepEffect DEF DropThumb, DropObject, DropFails, BucketTyped
  <2> QED
    BY <1>5, <2>1
       DEF DropThumb, DropObject, DropFails, RowsTyped, PagesTyped, BrowsersTyped, LockTyped, quotaVars
<1>6. ASSUME NEW k \in Kinds, DropRow(k, f) PROVE Parts'
  BY <1>6, StepEffect, RefusedEffect, RowDropped
     DEF DropRow, Rewritten, PagesTyped, BrowsersTyped, BucketTyped, LockTyped, quotaVars
<1> QED
  BY <1>1, <1>2, <1>3, <1>4, <1>5, <1>6 DEF RemovalStep

LEMMA FileOfPage == ASSUME PagesTyped, NEW p \in Pages PROVE page[p].file \in Files
  BY DEF PagesTyped, PageRow

LEMMA TypesThumbnail ==
    ASSUME Parts, NEW p \in Pages, ThumbnailStep(p)
    PROVE  Parts'
<1> USE Placed DEF Parts
<1>0. page[p].file \in Files
  BY FileOfPage
<1>a. JobsTyped' /\ BrowsersTyped'
  BY DEF ThumbnailStep, PresignThumb, WriteTicket, ArriveThumb, PageTimesOut, CompleteThumb,
         HeadThumbObject, WriteThumb, RejectThumb, MarkFailed, CancelThumb, EraseThumb, UnlistThumb,
         JobsTyped, BrowsersTyped
<1>1. CASE PresignThumb(p) \/ CompleteThumb(p) \/ CancelThumb(p) \/ HeadThumbObject(p)
  <2>1. PagesTyped'
    BY <1>1, TurnEffect DEF PresignThumb, CompleteThumb, CancelThumb, HeadThumbObject
  <2>2. LockTyped'
    <3>1. userLock' = userLock \/ TakeLock(p) \/ Unlock(p)
      BY <1>1 DEF PresignThumb, CompleteThumb, CancelThumb, HeadThumbObject
    <3>2. UNCHANGED <<crossed, excess>>
      BY <1>1 DEF PresignThumb, CompleteThumb, CancelThumb, HeadThumbObject
    <3> QED
      BY <3>1, <3>2, TakeEffect, UnlockEffect DEF LockTyped
  <2> QED
    BY <1>1, <1>a, <2>1, <2>2
       DEF PresignThumb, CompleteThumb, CancelThumb, HeadThumbObject, RowsTyped, BucketTyped
<1>2. CASE WriteTicket(p)
  <2>1. RowsTyped'
    BY <1>0, <1>2, ThumbReserved DEF WriteTicket, Rewritten, RowsTyped
  <2>2. PagesTyped'
    BY <1>2, SendEffect DEF WriteTicket
  <2>3. crossed' \subseteq Files \cup Pages /\ excess' \subseteq Files
    BY <1>0, <1>2, RoomTyped DEF WriteTicket, LockTyped
  <2>4. LockTyped'
    BY <1>2, <2>3, UnlockEffect DEF WriteTicket, LockTyped
  <2> QED
    BY <1>2, <1>a, <2>1, <2>2, <2>4 DEF WriteTicket, BucketTyped
<1>3. ASSUME NEW body \in Landed, ArriveThumb(p, body) PROVE Parts'
  <2>1. PagesTyped'
    BY <1>3, LandEffect DEF ArriveThumb
  <2>2. BucketTyped'
    BY <1>0, <1>3 DEF ArriveThumb, BucketTyped
  <2> QED
    BY <1>3, <1>a, <2>1, <2>2 DEF ArriveThumb, RowsTyped, LockTyped, quotaVars
<1>4. CASE PageTimesOut(p)
  BY <1>4, <1>a, TurnEffect DEF PageTimesOut, RowsTyped, BucketTyped, LockTyped, quotaVars
<1>5. CASE RejectThumb(p) \/ EraseThumb(p)
  <2>1. PagesTyped' /\ BucketTyped'
    BY <1>0, <1>5, TurnEffect, EraseEffect DEF RejectThumb, EraseThumb, BucketTyped
  <2>2. LockTyped'
    BY <1>5, UnlockEffect DEF RejectThumb, EraseThumb, LockTyped
  <2> QED
    BY <1>5, <1>a, <2>1, <2>2 DEF RejectThumb, EraseThumb, RowsTyped
<1>6. CASE WriteThumb(p) \/ MarkFailed(p) \/ UnlistThumb(p)
  <2>1. RowsTyped'
    BY <1>0, <1>6, ThumbWritten, Unlisted
       DEF WriteThumb, MarkFailed, UnlistThumb, Rewritten, RowsTyped
  <2>2. PagesTyped'
    BY <1>6, TurnEffect DEF WriteThumb, MarkFailed, UnlistThumb
  <2>3. crossed' \subseteq Files \cup Pages /\ excess' \subseteq Files
    BY <1>0, <1>6 DEF WriteThumb, MarkFailed, UnlistThumb, LockTyped, Overtakes, RoomSeekers
  <2>4. LockTyped'
    BY <1>6, <2>3, UnlockEffect DEF WriteThumb, MarkFailed, UnlistThumb, LockTyped
  <2> QED
    BY <1>6, <1>a, <2>1, <2>2, <2>4 DEF WriteThumb, MarkFailed, UnlistThumb, BucketTyped
<1> QED
  BY <1>1, <1>2, <1>3, <1>4, <1>5, <1>6 DEF ThumbnailStep

-----------------------------------------------------------------------------
(* What a step leaves alone. *)

\* Nothing of a file changes.
SameFile(g) ==
    /\ row'[g] = row[g] /\ \A k \in Kinds : job'[k][g] = job[k][g]
    /\ object'[g] = object[g] /\ thumb'[g] = thumb[g] /\ flying'[g] = flying[g]
    /\ browser'[g] = browser[g]
    /\ g \in overrun' <=> g \in overrun

LEMMA UploadLocal ==
    ASSUME Parts, NEW f \in Files, UploadStep(f)
    PROVE  page' = page /\ \A g \in Files : g # f => SameFile(g)
<1> SUFFICES ASSUME NEW g \in Files, g # f PROVE page' = page /\ SameFile(g)
  <2>1. page' = page
    BY DEF UploadStep, CheckReservation, CheckStandard, InsertReservation, Arrive, SendComplete,
           GiveUp, ReadCompletion, Copy, CopyCancelled, HeadMain, HeadThumb, WriteMeta, WriteStatus
  <2> QED
    BY <2>1
<1> USE Named DEF Parts, SameFile
<1>1. CASE CheckReservation(f) \/ SendComplete(f) \/ GiveUp(f)
  BY <1>1, StepEffect DEF CheckReservation, SendComplete, GiveUp, BrowsersTyped, quotaVars
<1>0. CASE CheckStandard(f)
  BY <1>0, StepEffect DEF CheckStandard, BrowsersTyped, BucketTyped, quotaVars
<1>2. CASE InsertReservation(f)
  <2>1. row'[g] = row[g] /\ \A k \in Kinds : job'[k][g] = job[k][g]
    BY <1>2, StepEffect, Reserved DEF InsertReservation, Rewritten
  <2>2. UNCHANGED <<object, thumb, page, overrun>>
    BY <1>2 DEF InsertReservation
  <2>3. flying'[g] = flying[g] /\ browser'[g] = browser[g]
    BY <1>2 DEF InsertReservation, BrowsersTyped, BucketTyped
  <2> QED
    BY <2>1, <2>2, <2>3
<1>3. ASSUME NEW what \in {"main", "thumb"}, NEW body \in Landed, Arrive(f, what, body)
      PROVE page' = page /\ SameFile(g)
  BY <1>3 DEF Arrive, BucketTyped
<1>4. CASE ReadCompletion(f) \/ Copy(f) \/ HeadMain(f) \/ HeadThumb(f)
  BY <1>4, StepEffect, AnswerEffect, RefusedEffect
     DEF ReadCompletion, Copy, HeadMain, HeadThumb, BucketTyped
<1>5. CASE WriteMeta(f) \/ WriteStatus(f)
  BY <1>5, StepEffect, AnswerEffect, RefusedEffect, ThumbWritten, StatusWritten
     DEF WriteMeta, WriteStatus, Rewritten
<1>6. CASE CopyCancelled(f)
  BY <1>6, CancelledEffect
<1> QED
  BY <1>0, <1>1, <1>2, <1>3, <1>4, <1>5, <1>6 DEF UploadStep

LEMMA RemovalLocal ==
    ASSUME Parts, NEW f \in Files, RemovalStep(f)
    PROVE  page' = page /\ UNCHANGED quotaVars /\ flying' = flying
           /\ \A g \in Files : g # f => SameFile(g)
<1>0. page' = page /\ UNCHANGED quotaVars /\ flying' = flying
  BY DEF RemovalStep, ReadCancel, DeleteFile, SweepLook, SweepThumb, SweepUnlist, HourPasses,
         DropThumb, DropObject, DropFails, DropRow
<1> SUFFICES ASSUME NEW g \in Files, g # f PROVE SameFile(g)
  BY <1>0
<1> USE Named DEF Parts, SameFile
<1>1. CASE ReadCancel(f) \/ DeleteFile(f) \/ SweepLook(f)
  BY <1>1, StepEffect DEF ReadCancel, DeleteFile, SweepLook
<1>2. CASE SweepThumb(f)
  <2>1. UNCHANGED <<row, object, flying, browser>>
    BY <1>2 DEF SweepThumb
  <2>2. \A k \in Kinds : job'[k][g] = job[k][g]
    <3>1. Step("sweep", f, "unlist") \/ Step("sweep", f, "idle")
      BY <1>2 DEF SweepThumb
    <3> QED
      BY <3>1, StepEffect
  <2>3. thumb'[g] = thumb[g] /\ (g \in overrun' <=> g \in overrun)
    BY <1>2, EraseEffect DEF SweepThumb
  <2> QED
    BY <2>1, <2>2, <2>3
<1>3. CASE SweepUnlist(f)
  BY <1>3, StepEffect, Unlisted DEF SweepUnlist, Rewritten
<1>4. CASE HourPasses(f)
  BY <1>4, Aged DEF HourPasses, Rewritten
<1>5. ASSUME NEW k \in Kinds, DropThumb(k, f) \/ DropObject(k, f) \/ DropFails(k, f)
      PROVE SameFile(g)
  BY <1>5, StepEffect DEF DropThumb, DropObject, DropFails, BucketTyped
<1>6. ASSUME NEW k \in Kinds, DropRow(k, f) PROVE SameFile(g)
  BY <1>6, StepEffect, RefusedEffect, RowDropped DEF DropRow, Rewritten
<1> QED
  BY <1>1, <1>2, <1>3, <1>4, <1>5, <1>6 DEF RemovalStep

LEMMA ThumbnailLocal ==
    ASSUME Parts, NEW p \in Pages, ThumbnailStep(p), NEW f \in Files, f = page[p].file
    PROVE  /\ UNCHANGED <<object, flying, browser, job>>
           /\ \A q \in Pages : page'[q].file = page[q].file
           /\ \A q \in Pages : q # p => page'[q].at = page[q].at
           /\ \A g \in Files : g # f => SameFile(g)
<1>0. UNCHANGED <<object, flying, browser, job>>
  BY DEF ThumbnailStep, PresignThumb, WriteTicket, ArriveThumb, PageTimesOut, CompleteThumb,
         HeadThumbObject, WriteThumb, RejectThumb, MarkFailed, CancelThumb, EraseThumb, UnlistThumb
<1>1. /\ \A q \in Pages : page'[q].file = page[q].file
      /\ \A q \in Pages : q # p => page'[q].at = page[q].at
  BY Placed, TurnEffect, SendEffect, LandEffect
     DEF Parts, ThumbnailStep, PresignThumb, WriteTicket, ArriveThumb, PageTimesOut, CompleteThumb,
         HeadThumbObject, WriteThumb, RejectThumb, MarkFailed, CancelThumb, EraseThumb, UnlistThumb
<1> DEFINE Same(g) == row'[g] = row[g] /\ thumb'[g] = thumb[g] /\ (g \in overrun' <=> g \in overrun)
<1> SUFFICES ASSUME NEW g \in Files, g # f PROVE Same(g)
  BY <1>0, <1>1 DEF SameFile
<1>2. CASE WriteTicket(p)
  BY <1>2, ThumbReserved DEF WriteTicket, Rewritten, Parts
<1>3. ASSUME NEW body \in Landed, ArriveThumb(p, body) PROVE Same(g)
  BY <1>3 DEF ArriveThumb, Parts, BucketTyped
<1>4. CASE PresignThumb(p) \/ PageTimesOut(p) \/ CompleteThumb(p) \/ HeadThumbObject(p)
           \/ CancelThumb(p)
  BY <1>4 DEF PresignThumb, PageTimesOut, CompleteThumb, HeadThumbObject, CancelThumb
<1>5. CASE WriteThumb(p) \/ MarkFailed(p) \/ UnlistThumb(p)
  <2>1. row' = row \/ MarkThumb(f, "completed") \/ MarkThumb(f, "failed") \/ Unlist(f)
    BY <1>5 DEF WriteThumb, MarkFailed, UnlistThumb
  <2>2. row'[g] = row[g]
    BY <2>1, ThumbWritten, Unlisted DEF Rewritten, Parts
  <2> QED
    BY <1>5, <2>2 DEF WriteThumb, MarkFailed, UnlistThumb
<1>6. CASE RejectThumb(p) \/ EraseThumb(p)
  BY <1>6, EraseEffect DEF RejectThumb, EraseThumb, Parts
<1> QED
  BY <1>2, <1>3, <1>4, <1>5, <1>6 DEF ThumbnailStep

-----------------------------------------------------------------------------
(* The locks. *)

FileLocked == {"reserve", "head", "write", "reject", "mark", "erase", "unlist"}

\* A request that is between its look and its write has the user's lock in one
\* of the processes, unless it is that of a standard upload.
LockHeld ==
    /\ \A p \in Pages : page[p].at \in FileLocked => HasLock(p)
    /\ \A f \in Files \ Standard : job["upload"][f] = "insert" => HasLock(f)

LEMMA LockUpload ==
    ASSUME Parts, LockHeld, NEW f \in Files, UploadStep(f)
    PROVE  LockHeld'
<1> USE MediaStorageAssumption
<1>1. page' = page /\ \A g \in Files : g # f => job'["upload"][g] = job["upload"][g]
  BY UploadLocal DEF SameFile, Kinds
<1>2. CASE CheckReservation(f)
  <2>1. CASE TakeLock(f)
    BY <1>1, <2>1, TakeEffect DEF LockHeld, Parts, LockTyped
  <2>2. CASE UNCHANGED <<job, userLock>>
    BY <1>1, <2>2 DEF LockHeld, HasLock
  <2> QED
    BY <1>2, <2>1, <2>2 DEF CheckReservation
<1>3. CASE job'["upload"][f] # "insert" /\ Unlock(f)
  <2>1. \A y \in Files \cup Pages : y # f /\ HasLock(y) => HasLock(y)'
    BY <1>3, UnlockEffect DEF Parts, LockTyped
  <2>2. \A p \in Pages : p # f
    BY DEF Files
  <2> QED
    BY <1>1, <1>3, <2>1, <2>2 DEF LockHeld
<1>4. CASE userLock' = userLock /\ (job'["upload"][f] = "insert" =>
                                       job["upload"][f] = "insert" \/ f \in Standard)
  BY <1>1, <1>4 DEF LockHeld, HasLock
<1>5. CASE InsertReservation(f) \/ CopyCancelled(f)
  <2>1. CASE InsertReservation(f)
    <3>1. job'["upload"][f] # "insert"
      BY <2>1, StepEffect, Named DEF InsertReservation, Parts
    <3> QED
      BY <1>3, <2>1, <3>1 DEF InsertReservation
  <2>2. CASE CopyCancelled(f)
    BY <1>3, <2>2, CancelledEffect
  <2> QED
    BY <1>5, <2>1, <2>2
<1>6. CASE ~CheckReservation(f) /\ ~InsertReservation(f) /\ ~CopyCancelled(f)
  <2>1. userLock' = userLock
    BY <1>6 DEF UploadStep, CheckStandard, Arrive, SendComplete, GiveUp, ReadCompletion, Copy,
                HeadMain, HeadThumb, WriteMeta, WriteStatus, quotaVars
  <2>2. job'["upload"][f] = "insert" => job["upload"][f] = "insert" \/ f \in Standard
    BY <1>6, UploadsGoOn DEF CheckStandard
  <2> QED
    BY <1>4, <2>1, <2>2
<1> QED
  BY <1>2, <1>5, <1>6

LEMMA RemovalsInsertNothing ==
    ASSUME Parts, NEW f \in Files, RemovalStep(f)
    PROVE  job'["upload"][f] = "insert" => job["upload"][f] = "insert"
<1> USE Named DEF Parts
<1>1. CASE ReadCancel(f) \/ DeleteFile(f)
  BY <1>1, StepEffect DEF ReadCancel, DeleteFile
<1>4. CASE SweepLook(f) \/ SweepThumb(f) \/ SweepUnlist(f) \/ HourPasses(f)
  <2>1. CASE SweepLook(f)
    BY <2>1, StepEffect DEF SweepLook
  <2>2. CASE SweepThumb(f) \/ SweepUnlist(f)
    <3>1. Step("sweep", f, "unlist") \/ Step("sweep", f, "idle")
      BY <2>2 DEF SweepThumb, SweepUnlist
    <3> QED
      BY <3>1, StepEffect
  <2>3. CASE HourPasses(f)
    BY <2>3 DEF HourPasses
  <2> QED
    BY <1>4, <2>1, <2>2, <2>3
<1>2. ASSUME NEW k \in Kinds, DropThumb(k, f) \/ DropObject(k, f) \/ DropFails(k, f)
      PROVE  job'["upload"][f] = "insert" => job["upload"][f] = "insert"
  BY <1>2, StepEffect DEF DropThumb, DropObject, DropFails
<1>3. ASSUME NEW k \in Kinds, DropRow(k, f)
      PROVE  job'["upload"][f] = "insert" => job["upload"][f] = "insert"
  BY <1>3, StepEffect, RefusedEffect DEF DropRow
<1> QED
  BY <1>1, <1>2, <1>3, <1>4 DEF RemovalStep

LEMMA LockRemoval ==
    ASSUME Parts, LockHeld, NEW f \in Files, RemovalStep(f)
    PROVE  LockHeld'
<1>1. /\ page' = page /\ userLock' = userLock
      /\ \A g \in Files : g # f => job'["upload"][g] = job["upload"][g]
  BY RemovalLocal DEF SameFile, Kinds, quotaVars
<1>2. job'["upload"][f] = "insert" => job["upload"][f] = "insert"
  BY RemovalsInsertNothing
<1> QED
  BY <1>1, <1>2 DEF LockHeld, HasLock

LEMMA LockThumbnail ==
    ASSUME Parts, LockHeld, NEW p \in Pages, ThumbnailStep(p)
    PROVE  LockHeld'
<1> USE Placed DEF Parts
<1>0. page[p].file \in Files
  BY FileOfPage
<1>1. job' = job /\ \A q \in Pages : q # p => page'[q].at = page[q].at
  BY <1>0, ThumbnailLocal
<1>2. CASE TakeLock(p)
  BY <1>1, <1>2, TakeEffect DEF LockHeld, LockTyped
<1>3. CASE page'[p].at \notin FileLocked /\ Unlock(p)
  <2>1. \A y \in Files \cup Pages : y # p /\ HasLock(y) => HasLock(y)'
    BY <1>3, UnlockEffect DEF LockTyped
  <2>2. \A f \in Files : p # f
    BY MediaStorageAssumption
  <2> QED
    BY <1>1, <1>3, <2>1, <2>2 DEF LockHeld
<1>4. CASE userLock' = userLock /\ (page'[p].at \in FileLocked => page[p].at \in FileLocked)
  BY <1>1, <1>4 DEF LockHeld, HasLock
<1>5. CASE PresignThumb(p) \/ CompleteThumb(p) \/ CancelThumb(p) \/ PageTimesOut(p)
  <2>1. CASE userLock' = userLock
    <3>1. page'[p].at \in {"done", "cancel"} \/ TakeLock(p)
      BY <1>5, <2>1, TurnEffect DEF PresignThumb, CompleteThumb, CancelThumb, PageTimesOut
    <3> QED
      BY <1>2, <1>4, <2>1, <3>1 DEF FileLocked
  <2> QED
    BY <1>2, <1>5, <2>1 DEF PresignThumb, CompleteThumb, CancelThumb, PageTimesOut, quotaVars
<1>6. CASE WriteTicket(p) \/ WriteThumb(p) \/ MarkFailed(p) \/ UnlistThumb(p)
  <2>1. page'[p].at \in {"sending", "done", "cancel"} /\ Unlock(p)
    BY <1>6, TurnEffect, SendEffect DEF WriteTicket, WriteThumb, MarkFailed, UnlistThumb
  <2> QED
    BY <1>3, <2>1 DEF FileLocked
<1>7. CASE HeadThumbObject(p) \/ RejectThumb(p) \/ EraseThumb(p)
  <2>1. page[p].at \in FileLocked
    BY <1>7 DEF HeadThumbObject, RejectThumb, EraseThumb, FileLocked
  <2>2. userLock' = userLock \/ (Unlock(p) /\ page'[p].at \in {"done", "cancel"})
    BY <1>7, TurnEffect DEF HeadThumbObject, RejectThumb, EraseThumb
  <2> QED
    BY <1>3, <1>4, <2>1, <2>2 DEF FileLocked
<1>8. ASSUME NEW body \in Landed, ArriveThumb(p, body) PROVE LockHeld'
  <2>1. page'[p].at = IF page[p].at = "sending" THEN "landed" ELSE page[p].at
    BY <1>8, LandEffect DEF ArriveThumb
  <2> QED
    BY <1>4, <1>8, <2>1 DEF ArriveThumb, FileLocked, quotaVars
<1> QED
  BY <1>5, <1>6, <1>7, <1>8 DEF ThumbnailStep

-----------------------------------------------------------------------------
(* Uploads and their objects. *)

InUpload(f) == job["upload"][f] # "idle"
Final(f) == row[f].status \in {"completed", "gone"}
Dropping == {"dropThumb", "dropObject", "dropRow"}

\* A file is sent, checked and completed once, after its row is inserted; what
\* has been checked is in the bucket until a request is about to remove the row.
UploadInv(f) ==
    /\ job["upload"][f] = "insert" => row[f] = NoRow /\ (f \in Standard => object[f] = "good")
    /\ InUpload(f) /\ job["upload"][f] # "insert"
         => row[f].status \in {"uploading", "copying", "gone"}
    /\ flying[f] # {} => /\ row[f].status \in {"uploading", "copying", "gone"}
                         /\ job["upload"][f] \in {"idle"} \cup Dropping
    /\ browser[f] = "sending" => row[f].status \in {"uploading", "gone"} /\ ~InUpload(f)
    /\ row[f].status = "uploading" => f \in Uploads /\ row[f].thumb \in {"uploading", "completed"}
    /\ row[f].status = "copying" => f \in Generated /\ row[f].thumb = "pending"
    /\ browser[f] = "completing" => row[f].status # "none"
    /\ job["cancel"][f] # "idle" => browser[f] = "failed"
    /\ \A k \in Kinds : k # "upload" /\ job[k][f] # "idle" => row[f].status # "none"
    /\ job["sweep"][f] \in {"eraseThumb", "unlist"} => Final(f)
    /\ job["upload"][f] \in {"headThumb", "meta", "status"} \/ row[f].status = "completed"
         => object[f] = "good" \/ ~Listed(f) \/ Dropped(f)

LEMMA UploadFrame ==
    ASSUME NEW f \in Files, UploadInv(f), SameFile(f)
    PROVE  UploadInv(f)'
  BY DEF UploadInv, SameFile, InUpload, Final, Dropped, Listed, Kinds

LEMMA UploadUpload ==
    ASSUME Parts, NEW f \in Files, UploadInv(f), UploadStep(f)
    PROVE  UploadInv(f)'
<1> USE Named DEF Parts, Dropping
<1>1. CASE CheckReservation(f)
  <2>1. UNCHANGED <<row, object, flying>> /\ row[f] = NoRow
    BY <1>1 DEF CheckReservation, Untouched
  <2>2. /\ \A l \in Kinds : l # "upload" => job'[l][f] = job[l][f]
        /\ job["upload"][f] = "idle" /\ job'["upload"][f] \in {"idle", "insert"}
    <3>1. job' = job \/ Step("upload", f, "insert")
      BY <1>1 DEF CheckReservation
    <3> QED
      BY <1>1, <3>1, StepEffect DEF CheckReservation, Untouched
  <2>3. browser[f] = "idle" /\ browser'[f] \in {"reserving", "failed"}
    BY <1>1 DEF CheckReservation, Untouched, BrowsersTyped
  <2>4. flying[f] = {} /\ f \notin Standard
    BY <1>1, <2>1 DEF CheckReservation, UploadInv, NoRow
  <2> QED
    BY <2>1, <2>2, <2>3, <2>4 DEF UploadInv, InUpload, Final, Dropped, Listed, NoRow
<1>0. CASE CheckStandard(f)
  <2>1. UNCHANGED <<row, flying>> /\ row[f] = NoRow /\ f \in Standard
    BY <1>0 DEF CheckStandard, Untouched
  <2>2. /\ \A l \in Kinds : l # "upload" => job'[l][f] = job[l][f]
        /\ job["upload"][f] = "idle" /\ job'["upload"][f] \in {"idle", "insert"}
        /\ job'["upload"][f] = "insert" => object'[f] = "good"
    <3>1. (job' = job /\ job["upload"][f] = "idle")
            \/ (Step("upload", f, "insert") /\ job["upload"][f] = "idle" /\ object'[f] = "good")
      BY <1>0 DEF CheckStandard, Untouched, BucketTyped
    <3> QED
      BY <3>1, StepEffect
  <2>3. browser[f] = "idle" /\ browser'[f] \in {"reserving", "failed"}
    BY <1>0 DEF CheckStandard, Untouched, BrowsersTyped
  <2>4. flying[f] = {}
    BY <2>1 DEF UploadInv, NoRow
  <2> QED
    BY <2>1, <2>2, <2>3, <2>4 DEF UploadInv, InUpload, Final, Dropped, Listed, NoRow
<1>2. CASE InsertReservation(f)
  <2>1. /\ row[f] = NoRow /\ object' = object /\ job["upload"][f] = "insert"
        /\ f \in Standard => object[f] = "good"
        /\ flying[f] = {}
    BY <1>2 DEF InsertReservation, UploadInv, NoRow
  <2>2. /\ \A l \in Kinds : l # "upload" => job'[l][f] = job[l][f]
        /\ f \in Generated => job'["upload"][f] = "copy"
        /\ f \notin Generated => job'["upload"][f] = "idle"
    BY <1>2, StepEffect DEF InsertReservation
  <2>3. /\ f \in Uploads => row'[f].status = "uploading" /\ row'[f].thumb = "uploading"
        /\ f \in Generated => row'[f].status = "copying" /\ row'[f].thumb = "pending"
        /\ f \in Standard => row'[f].status = "completed"
    BY <1>2, Reserved DEF InsertReservation
  <2>4. /\ flying'[f] # {} => f \in Uploads
        /\ browser'[f] = "sending" => f \in Uploads \/ browser[f] = "sending"
        /\ browser[f] = "failed" => browser'[f] = "failed" \/ f \in Standard
    BY <1>2, <2>1 DEF InsertReservation, BrowsersTyped, BucketTyped
  <2>5. f \in Uploads \/ f \in Generated \/ f \in Standard
    BY DEF Files
  <2>6. /\ browser[f] # "sending" /\ job["cancel"][f] = "idle"
        /\ \A k \in Kinds : k # "upload" => job[k][f] = "idle"
    BY <2>1 DEF UploadInv, NoRow
  <2> QED
    BY <2>1, <2>2, <2>3, <2>4, <2>5, <2>6, MediaStorageAssumption
       DEF UploadInv, InUpload, Final, Dropped, Listed
<1>3. ASSUME NEW what \in {"main", "thumb"}, NEW body \in Landed, Arrive(f, what, body)
      PROVE UploadInv(f)'
  <2>1. UNCHANGED <<row, browser, job>> /\ flying[f] # {}
    BY <1>3 DEF Arrive
  <2>2. /\ row[f].status \in {"uploading", "copying", "gone"}
        /\ job["upload"][f] \in {"idle"} \cup Dropping
    BY <2>1 DEF UploadInv
  <2> QED
    BY <2>1, <2>2 DEF UploadInv, InUpload, Final, Dropped, Listed
<1>4. CASE SendComplete(f) \/ GiveUp(f)
  BY <1>4, StepEffect
     DEF SendComplete, GiveUp, UploadInv, InUpload, Final, Dropped, Listed, BrowsersTyped, quotaVars
<1>5. CASE ReadCompletion(f) \/ HeadMain(f) \/ HeadThumb(f)
  <2> USE DEF UploadInv, InUpload, Final, Dropped, Listed
  <2>1. CASE ReadCompletion(f)
    BY <2>1, StepEffect, AnswerEffect, RefusedEffect DEF ReadCompletion
  <2>2. CASE HeadMain(f)
    BY <2>2, StepEffect, AnswerEffect, RefusedEffect DEF HeadMain
  <2>3. CASE HeadThumb(f)
    BY <2>3, StepEffect, AnswerEffect, RefusedEffect DEF HeadThumb
  <2> QED
    BY <1>5, <2>1, <2>2, <2>3
<1>8. CASE Copy(f)
  <2>1. /\ row' = row /\ browser' = browser /\ job["upload"][f] = "copy"
        /\ \A l \in Kinds : l # "upload" => job'[l][f] = job[l][f]
        /\ \/ job'["upload"][f] = "head" /\ object'[f] = "good" /\ flying' = flying
           \/ job'["upload"][f] = "dropThumb" /\ object' = object
    BY <1>8, StepEffect DEF Copy, BucketTyped
  <2>2. row[f].status \in {"copying", "uploading", "gone"} /\ flying[f] = {}
    BY <2>1 DEF UploadInv, InUpload
  <2> QED
    BY <2>1, <2>2 DEF UploadInv, InUpload, Final, Dropped, Listed
<1>9. CASE CopyCancelled(f)
  <2>1. /\ \A l \in Kinds : l # "upload" => job'[l][f] = job[l][f]
        /\ f \in Generated /\ job["upload"][f] # "idle" /\ job'["upload"][f] = "idle"
        /\ browser'[f] \in {browser[f], "failed"}
    BY <1>9, CancelledEffect
  <2>2. browser[f] # "sending" /\ row[f].status # "completed"
    BY <2>1 DEF UploadInv, InUpload, NoRow
  <2>3. CASE row' = row /\ (flying' = flying \/ job["upload"][f] = "copy")
    <3>1. flying'[f] # {} => row[f].status \in {"uploading", "copying", "gone"}
      BY <2>3 DEF UploadInv, InUpload
    <3> QED
      BY <2>1, <2>2, <2>3, <3>1 DEF UploadInv, InUpload, Final, Dropped, Listed
  <2>4. CASE job["upload"][f] = "insert" /\ Reserve(f) /\ UNCHANGED <<object, thumb, flying>>
    <3>1. row'[f].status = "copying" /\ row'[f].thumb = "pending" /\ row[f] = NoRow
      BY <2>1, <2>4, Reserved DEF UploadInv
    <3>2. flying'[f] = {} /\ job["cancel"][f] = "idle" /\ job["sweep"][f] = "idle"
      BY <2>4, <3>1 DEF UploadInv, NoRow
    <3> QED
      BY <2>1, <2>2, <2>4, <3>1, <3>2 DEF UploadInv, InUpload, Final, Dropped, Listed
  <2>5. CASE /\ job["upload"][f] = "status" /\ Listed(f) /\ MarkComplete(f)
             /\ UNCHANGED <<object, thumb, flying>>
    <3>1. row'[f].status = "completed" /\ flying[f] = {} /\ (object[f] = "good" \/ Dropped(f))
      BY <2>5, StatusWritten DEF UploadInv, Dropping
    <3>2. Dropped(f) => Dropped(f)'
      BY <2>1, <2>5 DEF Dropped
    <3> QED
      BY <2>1, <2>2, <2>5, <3>1, <3>2 DEF UploadInv, InUpload, Final, Listed
  <2>6. CASE job["upload"][f] = "dropRow" /\ Remove(f) /\ UNCHANGED <<object, thumb, flying>>
    <3>1. row'[f].status = "gone"
      BY <2>6, RowDropped
    <3> QED
      BY <2>1, <2>2, <2>6, <3>1 DEF UploadInv, InUpload, Final, Dropped, Listed, NoRow
  <2> QED
    BY <1>9, <2>3, <2>4, <2>5, <2>6, CancelledLeaves
<1>6. CASE WriteMeta(f)
  BY <1>6, StepEffect, ThumbWritten, MediaStorageAssumption
     DEF WriteMeta, UploadInv, InUpload, Final, Dropped, Listed, NoRow
<1>7. CASE WriteStatus(f)
  BY <1>7, StepEffect, AnswerEffect, RefusedEffect, StatusWritten
     DEF WriteStatus, UploadInv, InUpload, Final, Dropped, Listed
<1> QED
  BY <1>0, <1>1, <1>2, <1>3, <1>4, <1>5, <1>6, <1>7, <1>8, <1>9 DEF UploadStep

LEMMA UploadRemoval ==
    ASSUME Parts, NEW f \in Files, UploadInv(f), RemovalStep(f)
    PROVE  UploadInv(f)'
<1> USE Named DEF Parts, Dropping
<1>0. flying' = flying
  BY RemovalLocal
<1>1. CASE ReadCancel(f) \/ DeleteFile(f) \/ SweepLook(f)
  BY <1>1, StepEffect
     DEF ReadCancel, DeleteFile, Deletable, SweepLook, UploadInv, InUpload, Final, Dropped, Listed
<1>2. CASE SweepThumb(f)
  <2>1. UNCHANGED <<row, object, browser>> /\ job["sweep"][f] = "eraseThumb"
    BY <1>2 DEF SweepThumb
  <2>2. /\ job'["sweep"][f] \in {"idle", "unlist"}
        /\ \A l \in Kinds : l # "sweep" => job'[l][f] = job[l][f]
    <3>1. Step("sweep", f, "unlist") \/ Step("sweep", f, "idle")
      BY <1>2 DEF SweepThumb
    <3> QED
      BY <3>1, StepEffect
  <2> QED
    BY <1>0, <2>1, <2>2 DEF UploadInv, InUpload, Final, Dropped, Listed
<1>3. CASE SweepUnlist(f)
  BY <1>3, StepEffect, Unlisted DEF SweepUnlist, UploadInv, InUpload, Final, Dropped, Listed, NoRow
<1>4. CASE HourPasses(f)
  BY <1>4, Aged DEF HourPasses, UploadInv, InUpload, Final, Dropped, Listed, NoRow
<1>5. ASSUME NEW k \in Kinds, DropThumb(k, f) PROVE UploadInv(f)'
  BY <1>5, StepEffect DEF DropThumb, UploadInv, InUpload, Final, Dropped, Listed
<1>6. ASSUME NEW k \in Kinds, DropObject(k, f) PROVE UploadInv(f)'
  <2>1. /\ UNCHANGED <<row, browser>> /\ job[k][f] = "dropObject" /\ job'[k][f] = "dropRow"
        /\ \A l \in Kinds : l # k => job'[l][f] = job[l][f]
    BY <1>6, StepEffect DEF DropObject
  <2>2. Dropped(f)' /\ job["upload"][f] # "insert"
    BY <2>1 DEF Dropped, UploadInv, NoRow
  <2> QED
    BY <1>0, <2>1, <2>2 DEF UploadInv, InUpload, Final, Listed
<1>7. ASSUME NEW k \in Kinds, DropFails(k, f) PROVE UploadInv(f)'
  BY <1>7, StepEffect DEF DropFails, UploadInv, InUpload, Final, Dropped, Listed
<1>8. ASSUME NEW k \in Kinds, DropRow(k, f) PROVE UploadInv(f)'
  <2>1. /\ row'[f].status = "gone" /\ object' = object
        /\ job[k][f] = "dropRow" /\ job'[k][f] = "idle"
    BY <1>8, StepEffect, RefusedEffect, RowDropped DEF DropRow
  <2>2. CASE k = "upload" /\ f \in Uploads
    <3>1. /\ browser'[f] = IF browser[f] \in {"completing", "reserving"} THEN "failed" ELSE browser[f]
          /\ job'["cancel"][f] = IF browser[f] = "completing" THEN "read" ELSE job["cancel"][f]
          /\ job'["sweep"][f] = job["sweep"][f] /\ job'["delete"][f] = job["delete"][f]
      BY <1>8, <2>2, RefusedEffect DEF DropRow
    <3> QED
      BY <1>0, <2>1, <2>2, <3>1 DEF UploadInv, InUpload, Final, Dropped, Listed
  <2>3. CASE ~(k = "upload" /\ f \in Uploads)
    <3>1. browser' = browser /\ \A l \in Kinds : l # k => job'[l][f] = job[l][f]
      BY <1>8, <2>3, StepEffect DEF DropRow
    <3>2. job["upload"][f] # "insert"
      BY <2>1 DEF UploadInv, NoRow
    <3> QED
      BY <1>0, <2>1, <3>1, <3>2 DEF UploadInv, InUpload, Final, Dropped, Listed, NoRow
  <2> QED
    BY <2>2, <2>3
<1> QED
  BY <1>1, <1>2, <1>3, <1>4, <1>5, <1>6, <1>7, <1>8 DEF RemovalStep

LEMMA UploadThumbnail ==
    ASSUME Parts, NEW p \in Pages, ThumbnailStep(p), NEW f \in Files, f = page[p].file,
           UploadInv(f), page[p].at \notin {"idle", "done"} => Final(f)
    PROVE  UploadInv(f)'
<1>0. UNCHANGED <<object, flying, browser, job>>
  BY ThumbnailLocal
<1>1. \/ row' = row
      \/ /\ row'[f].status = row[f].status
         /\ Final(f)
  <2>1. CASE row' = row
    BY <2>1
  <2>2. CASE page[p].at \notin {"idle", "done"}
             /\ (ReserveThumb(f, p) \/ MarkThumb(f, "completed") \/ MarkThumb(f, "failed") \/ Unlist(f))
    BY <2>2, ThumbReserved, ThumbWritten, Unlisted DEF Parts
  <2> QED
    BY <2>1, <2>2
       DEF ThumbnailStep, PresignThumb, WriteTicket, ArriveThumb, PageTimesOut, CompleteThumb,
           HeadThumbObject, WriteThumb, RejectThumb, MarkFailed, CancelThumb, EraseThumb, UnlistThumb
<1> QED
  BY <1>0, <1>1 DEF UploadInv, InUpload, Final, Dropped, Listed, NoRow


-----------------------------------------------------------------------------
(* Thumbnails. *)

\* The thumbnail is in the bucket, or a request removes the file with it, or it
\* was lost in one of the two known ways.
Thumbed(f) ==
    thumb[f] # "none" \/ f \in overrun \/ \E k \in Kinds : job[k][f] \in {"dropObject", "dropRow"}

\* The request that has removed it is about to take it off the list.
LeavesTheList(f) ==
    \/ job["sweep"][f] = "unlist"
    \/ \E p \in Pages : page[p].file = f /\ page[p].at \in {"mark", "unlist"}

ThumbInv(f) ==
    /\ Listed(f) /\ Ready(f) => Thumbed(f) \/ LeavesTheList(f)
    /\ f \in Uploads /\ job["upload"][f] \in {"meta", "status"} /\ Listed(f) => Thumbed(f)

\* A page works on files that are complete; what it has seen is there, or was
\* removed under it.
PageInv(p, f) ==
    /\ page[p].at \notin {"idle", "done"} => Final(f)
    /\ page[p].at = "write" /\ Listed(f) => Thumbed(f)

LEMMA ThumbFramed ==
    ASSUME NEW f \in Files, ThumbInv(f), SameFile(f),
           \A p \in Pages : page'[p].file = page[p].file
                              /\ (page[p].file = f => page'[p].at = page[p].at)
    PROVE  ThumbInv(f)'
<1>1. LeavesTheList(f) => LeavesTheList(f)'
  BY DEF LeavesTheList, SameFile, Kinds
<1> QED
  BY <1>1 DEF ThumbInv, SameFile, Thumbed, Listed, Ready, Kinds

LEMMA PageFramed ==
    ASSUME NEW p \in Pages, NEW f \in Files, PageInv(p, f), SameFile(f), page'[p].at = page[p].at
    PROVE  PageInv(p, f)'
  BY DEF PageInv, SameFile, Thumbed, Listed, Final, Kinds

\* A removal that is past the thumbnail is not stopped by the upload.
LEMMA RemovalsGoOn ==
    ASSUME Parts, NEW f \in Files, UploadInv(f), UploadStep(f), ~CopyCancelled(f)
    PROVE  /\ \A k \in Kinds : job[k][f] \in {"dropObject", "dropRow"} => job'[k][f] = job[k][f]
           /\ job'["sweep"][f] = job["sweep"][f]
<1> USE Named DEF Parts
<1>1. CASE CheckReservation(f) \/ CheckStandard(f)
  <2>1. job["upload"][f] = "idle" /\ (job' = job \/ Step("upload", f, "insert"))
    BY <1>1 DEF CheckReservation, CheckStandard, Untouched
  <2> QED
    BY <2>1, StepEffect
<1>5. CASE SendComplete(f) \/ GiveUp(f)
  BY <1>5, StepEffect DEF SendComplete, GiveUp, UploadInv, InUpload
<1>2. CASE InsertReservation(f) \/ \E what \in {"main", "thumb"}, body \in Landed : Arrive(f, what, body)
  BY <1>2, StepEffect DEF InsertReservation, Arrive
<1>3. CASE ReadCompletion(f) \/ Copy(f) \/ HeadMain(f) \/ HeadThumb(f)
  BY <1>3, StepEffect, RefusedEffect
     DEF ReadCompletion, Copy, HeadMain, HeadThumb, UploadInv, InUpload
<1>4. CASE WriteMeta(f) \/ WriteStatus(f)
  BY <1>4, StepEffect, RefusedEffect DEF WriteMeta, WriteStatus, UploadInv, InUpload
<1> QED
  BY <1>1, <1>2, <1>3, <1>4, <1>5 DEF UploadStep

LEMMA ThumbUpload ==
    ASSUME Parts, NEW f \in Files, UploadInv(f), ThumbInv(f), UploadStep(f),
           \A p \in Pages : page[p].file = f => PageInv(p, f)
    PROVE  ThumbInv(f)' /\ \A p \in Pages : page[p].file = f => PageInv(p, f)'
<1> DEFINE Goal == ThumbInv(f)' /\ \A p \in Pages : page[p].file = f => PageInv(p, f)'
<1>0. page' = page
  BY UploadLocal
<1> USE Named DEF Parts
\* A reservation that is written, and a copy that is cancelled, have no
\* thumbnail, and no page works on their file.
<1>1. ASSUME row[f].status # "completed", row[f].status = "gone" => row'[f].status = "gone",
             row'[f].status # "gone" => row'[f].thumb # "completed" /\ row[f].status # "gone",
             f \notin Uploads \/ job'["upload"][f] \notin {"meta", "status"}
      PROVE  Goal
  <2>1. ThumbInv(f)'
    BY <1>1 DEF ThumbInv, Listed, Ready
  <2>2. ASSUME NEW p \in Pages, page[p].file = f PROVE PageInv(p, f)'
    <3>1. page[p].at \in {"idle", "done"} \/ row[f].status = "gone"
      BY <1>1, <2>2 DEF PageInv, Final
    <3> QED
      BY <1>0, <1>1, <3>1 DEF PageInv, Final, Listed
  <2> QED
    BY <2>1, <2>2
<1>2. CASE InsertReservation(f)
  <2>1. row[f] = NoRow /\ job'["upload"][f] \in {"copy", "idle"}
    BY <1>2, StepEffect DEF InsertReservation, UploadInv
  <2>2. row'[f].status # "gone" /\ row'[f].thumb # "completed"
    BY <1>2, Reserved DEF InsertReservation, Files
  <2> QED
    BY <1>1, <2>1, <2>2 DEF NoRow
<1>3. CASE CopyCancelled(f)
  <2>1. f \in Generated /\ f \notin Uploads /\ job["upload"][f] # "idle"
    BY <1>3, CancelledEffect, MediaStorageAssumption
  <2>3. \/ row' = row
        \/ job["upload"][f] = "insert" /\ Reserve(f)
        \/ Listed(f) /\ MarkComplete(f)
        \/ Remove(f)
    BY <1>3, CancelledLeaves
  <2>4. /\ row[f].status \in {"none", "copying", "gone"}
        /\ row[f].status # "gone" => row[f].thumb # "completed"
        /\ job["upload"][f] = "insert" => row[f].status = "none"
    BY <2>1, MediaStorageAssumption DEF UploadInv, InUpload, NoRow
  <2> QED
    BY <1>1, <2>1, <2>3, <2>4, Reserved, StatusWritten, RowDropped DEF Listed
<1>4. ASSUME NEW what \in {"main", "thumb"}, NEW body \in Landed, Arrive(f, what, body)
      PROVE Goal
  <2>1. UNCHANGED <<row, job>> /\ (Thumbed(f) => Thumbed(f)')
    BY <1>4 DEF Arrive, BucketTyped, Thumbed, Landed
  <2>2. LeavesTheList(f) => LeavesTheList(f)'
    BY <1>0, <2>1 DEF LeavesTheList
  <2> QED
    BY <1>0, <2>1, <2>2 DEF ThumbInv, PageInv, Listed, Ready, Final
<1> SUFFICES ASSUME ~InsertReservation(f), ~CopyCancelled(f),
                    ~\E what \in {"main", "thumb"}, body \in Landed : Arrive(f, what, body)
             PROVE  Goal
  BY <1>2, <1>3, <1>4
<1>5. overrun' = overrun /\ thumb' = thumb
  BY DEF UploadStep, CheckReservation, CheckStandard, SendComplete, GiveUp, ReadCompletion, Copy,
         HeadMain, HeadThumb, WriteMeta, WriteStatus
<1>6. (Thumbed(f) => Thumbed(f)') /\ (LeavesTheList(f) => LeavesTheList(f)')
  BY <1>0, <1>5, RemovalsGoOn DEF Thumbed, LeavesTheList
<1>7. CASE row'[f] = row[f]
  <2>1. f \in Uploads /\ job'["upload"][f] \in {"meta", "status"} /\ Listed(f) => Thumbed(f)
    <3> SUFFICES ASSUME f \in Uploads, job'["upload"][f] \in {"meta", "status"}, Listed(f),
                        job["upload"][f] \notin {"meta", "status"}
                 PROVE  Thumbed(f)
      BY DEF ThumbInv
    <3>1. HeadThumb(f)
      BY UploadsGoOn
    <3> QED
      BY <3>1, StepEffect, RefusedEffect, MediaStorageAssumption DEF HeadThumb, Thumbed
  <2> QED
    BY <1>0, <1>6, <1>7, <2>1 DEF ThumbInv, PageInv, Listed, Ready, Final
<1>8. CASE WriteMeta(f)
  <2>1. CASE Listed(f) /\ f \in Uploads
    <3>1. /\ row'[f].thumb = "completed" /\ row'[f].status = row[f].status
          /\ job["upload"][f] = "meta"
      BY <1>8, <2>1, ThumbWritten DEF WriteMeta
    <3>2. ~Final(f) /\ Thumbed(f)
      BY <2>1, <3>1 DEF UploadInv, ThumbInv, InUpload, Final, Listed
    <3> QED
      BY <1>0, <1>6, <3>1, <3>2 DEF ThumbInv, PageInv, Listed, Ready, Final
  <2> QED
    BY <1>7, <1>8, <2>1 DEF WriteMeta
<1>9. CASE WriteStatus(f)
  <2>1. CASE Listed(f)
    <3>1. /\ row'[f].thumb = row[f].thumb /\ row'[f].status = "completed"
          /\ job["upload"][f] = "status" /\ job'["upload"][f] = "idle"
      BY <1>9, <2>1, StatusWritten, StepEffect DEF WriteStatus
    <3>2. ~Final(f)
      BY <2>1, <3>1 DEF UploadInv, InUpload, Final, Listed
    <3> QED
      BY <1>0, <1>6, <2>1, <3>1, <3>2 DEF ThumbInv, PageInv, Listed, Ready, Final
  <2> QED
    BY <1>7, <1>9, <2>1 DEF WriteStatus
<1>10. row' = row \/ WriteMeta(f) \/ WriteStatus(f)
  BY DEF UploadStep, CheckReservation, CheckStandard, SendComplete, GiveUp, ReadCompletion, Copy,
         HeadMain, HeadThumb
<1> QED
  BY <1>7, <1>8, <1>9, <1>10

LEMMA ThumbRemoval ==
    ASSUME Parts, LockHeld, NEW f \in Files, UploadInv(f), ThumbInv(f), RemovalStep(f),
           \A p \in Pages : page[p].file = f => PageInv(p, f)
    PROVE  ThumbInv(f)' /\ \A p \in Pages : page[p].file = f => PageInv(p, f)'
<1>0. page' = page
  BY RemovalLocal
<1> DEFINE Goal == ThumbInv(f)' /\ \A p \in Pages : page[p].file = f => PageInv(p, f)'
<1> USE Named DEF Parts
\* The list is as it was, and what was there, or given up, still is.
<1>a. ASSUME row'[f].status = row[f].status, row'[f].thumb = row[f].thumb,
             Thumbed(f) => Thumbed(f)', job["sweep"][f] = "unlist" => job'["sweep"][f] = "unlist",
             job'["upload"][f] \in {"meta", "status"} => job["upload"][f] \in {"meta", "status"}
      PROVE  Goal
  <2>1. LeavesTheList(f) => LeavesTheList(f)'
    BY <1>0, <1>a DEF LeavesTheList
  <2> QED
    BY <1>0, <1>a, <2>1 DEF ThumbInv, PageInv, Listed, Ready, Final
<1>1. CASE ReadCancel(f) \/ DeleteFile(f) \/ SweepLook(f)
  <2>1. UNCHANGED <<row, thumb, overrun>>
    BY <1>1 DEF ReadCancel, DeleteFile, SweepLook
  <2>2. /\ \A k \in Kinds : job[k][f] \in {"dropObject", "dropRow"} => job'[k][f] = job[k][f]
        /\ job["sweep"][f] = "unlist" => job'["sweep"][f] = "unlist"
        /\ job'["upload"][f] = job["upload"][f]
    BY <1>1, StepEffect DEF ReadCancel, DeleteFile, Deletable, SweepLook
  <2> QED
    BY <1>a, <2>1, <2>2 DEF Thumbed
<1>2. CASE SweepThumb(f)
  <2>1. row' = row /\ job["sweep"][f] = "eraseThumb"
    BY <1>2 DEF SweepThumb
  <2>2. \A l \in Kinds : l # "sweep" => job'[l][f] = job[l][f]
    <3>1. Step("sweep", f, "unlist") \/ Step("sweep", f, "idle")
      BY <1>2 DEF SweepThumb
    <3> QED
      BY <3>1, StepEffect
  <2>3. CASE UNCHANGED <<thumb, overrun>>
    <3>1. Thumbed(f) => Thumbed(f)'
      BY <2>1, <2>2, <2>3 DEF Thumbed
    <3> QED
      BY <1>a, <2>1, <2>2, <3>1
  <2>4. CASE EraseObject(f, TRUE) /\ Step("sweep", f, "unlist")
    <3>1. job'["sweep"][f] = "unlist"
      BY <2>4, StepEffect
    <3>2. Listed(f) => job'["upload"][f] \notin {"meta", "status"}
      BY <2>1, <2>2 DEF UploadInv, InUpload, Final, Listed
    <3>3. ThumbInv(f)'
      BY <2>1, <3>1, <3>2 DEF ThumbInv, LeavesTheList, Listed, Ready
    <3>4. ASSUME NEW p \in Pages, page[p].file = f PROVE PageInv(p, f)'
      <4>1. page[p].at = "write" => Thumbed(f)'
        BY <2>4, <3>4, EraseEffect DEF LockHeld, FileLocked, Thumbed
      <4> QED
        BY <1>0, <2>1, <3>4, <4>1 DEF PageInv, Listed, Final
    <3> QED
      BY <3>3, <3>4
  <2> QED
    BY <1>2, <2>3, <2>4 DEF SweepThumb
<1>3. CASE SweepUnlist(f)
  <2>1. /\ UNCHANGED <<thumb, overrun>> /\ job["sweep"][f] = "unlist"
        /\ \A l \in Kinds : l # "sweep" => job'[l][f] = job[l][f]
        /\ job'["sweep"][f] = "idle"
    BY <1>3, StepEffect DEF SweepUnlist
  <2>2. /\ row'[f].status = row[f].status
        /\ Listed(f) => row'[f].thumb = "missing"
    BY <1>3, Unlisted DEF SweepUnlist
  <2>3. Thumbed(f) => Thumbed(f)'
    BY <2>1 DEF Thumbed
  <2>4. Listed(f) => job["upload"][f] \notin {"meta", "status"}
    BY <2>1 DEF UploadInv, InUpload, Final, Listed
  <2> QED
    BY <1>0, <2>1, <2>2, <2>3, <2>4 DEF ThumbInv, PageInv, Listed, Ready, Final
<1>4. CASE HourPasses(f)
  <2>1. UNCHANGED <<job, thumb, overrun>>
    BY <1>4 DEF HourPasses
  <2> QED
    BY <1>4, <1>a, <2>1, Aged DEF Thumbed
<1>5. ASSUME NEW k \in Kinds, DropThumb(k, f) \/ DropObject(k, f) \/ DropFails(k, f) PROVE Goal
  <2>1. row' = row
    BY <1>5 DEF DropThumb, DropObject, DropFails
  <2>2. /\ \A l \in Kinds : l # k => job'[l][f] = job[l][f]
        /\ job[k][f] \in {"dropThumb", "dropObject"}
        /\ job'[k][f] \in {"dropObject", "dropRow", "idle"}
    BY <1>5, StepEffect DEF DropThumb, DropObject, DropFails
  <2>3. Thumbed(f) => Thumbed(f)'
    BY <1>5, <2>2, StepEffect DEF DropThumb, DropObject, DropFails, Thumbed, BucketTyped
  <2> QED
    BY <1>a, <2>1, <2>2, <2>3
<1>6. ASSUME NEW k \in Kinds, DropRow(k, f) PROVE Goal
  BY <1>0, <1>6, RowDropped DEF DropRow, ThumbInv, PageInv, Listed, Final
<1> QED
  BY <1>1, <1>2, <1>3, <1>4, <1>5, <1>6 DEF RemovalStep

LEMMA ThumbThumbnail ==
    ASSUME Parts, LockHeld, NEW p \in Pages, ThumbnailStep(p), NEW f \in Files, f = page[p].file,
           UploadInv(f), ThumbInv(f), \A q \in Pages : page[q].file = f => PageInv(q, f)
    PROVE  ThumbInv(f)' /\ \A q \in Pages : page[q].file = f => PageInv(q, f)'
<1> DEFINE Goal == ThumbInv(f)' /\ \A q \in Pages : page[q].file = f => PageInv(q, f)'
<1>0. /\ UNCHANGED <<object, flying, browser, job>>
      /\ \A q \in Pages : page'[q].file = page[q].file
      /\ \A q \in Pages : q # p => page'[q].at = page[q].at
  BY ThumbnailLocal
<1>a. PageInv(p, f)
  OBVIOUS
\* The list is as it was, and what was there, or given up, still is.
<1>b. ASSUME row' = row, Thumbed(f) => Thumbed(f)', page[p].at \notin {"mark", "unlist"},
             PageInv(p, f)'
      PROVE  Goal
  <2>1. LeavesTheList(f) => LeavesTheList(f)'
    BY <1>0, <1>b DEF LeavesTheList
  <2>2. ThumbInv(f)'
    BY <1>0, <1>b, <2>1 DEF ThumbInv, Listed, Ready
  <2>3. ASSUME NEW q \in Pages, q # p, page[q].file = f PROVE PageInv(q, f)'
    BY <1>0, <1>b, <2>3 DEF PageInv, Listed, Final
  <2> QED
    BY <1>b, <2>2, <2>3
\* Only the thumbnail's column is written, by a page whose file is complete.
<1>c. ASSUME page[p].at \notin {"idle", "done"}, row'[f].status = row[f].status,
             Thumbed(f) => Thumbed(f)', page'[p].at # "write",
             Listed(f) /\ row'[f].thumb = "completed" => Thumbed(f)
      PROVE  Goal
  <2>1. Final(f) /\ (Listed(f) => job["upload"][f] \notin {"meta", "status"})
    BY <1>a, <1>c DEF PageInv, UploadInv, InUpload, Final, Listed
  <2>2. ThumbInv(f)'
    BY <1>0, <1>c, <2>1 DEF ThumbInv, Listed, Ready
  <2>3. ASSUME NEW q \in Pages, page[q].file = f PROVE PageInv(q, f)'
    BY <1>0, <1>c, <2>1, <2>3 DEF PageInv, Listed, Final
  <2> QED
    BY <2>2, <2>3
\* The object is removed.
<1>d. ASSUME page[p].at \in {"reject", "erase"}, row' = row, EraseObject(f, HasLock(p)),
             page'[p].at \in {"mark", "unlist"}
      PROVE  Goal
  <2>1. Final(f) /\ (Listed(f) => job["upload"][f] \notin {"meta", "status"})
    BY <1>a, <1>d DEF PageInv, UploadInv, InUpload, Final, Listed
  <2>2. LeavesTheList(f)'
    BY <1>0, <1>d DEF LeavesTheList
  <2>3. ThumbInv(f)'
    BY <1>0, <1>d, <2>1, <2>2 DEF ThumbInv, Listed, Ready
  <2>4. ASSUME NEW q \in Pages, page[q].file = f PROVE PageInv(q, f)'
    <3>1. HasLock(p) /\ (page[q].at = "write" => HasLock(q))
      BY <1>d DEF LockHeld, FileLocked
    <3>2. page[q].at = "write" => f \in overrun'
      BY <1>d, <2>4, <3>1, EraseEffect DEF Parts
    <3>3. page'[q].at = "write" => page[q].at = "write"
      BY <1>0, <1>d
    <3> QED
      BY <1>0, <1>d, <2>1, <3>2, <3>3 DEF PageInv, Thumbed, Listed, Final
  <2> QED
    BY <2>3, <2>4
<1> USE Placed DEF Parts
<1>1. CASE PresignThumb(p) \/ PageTimesOut(p) \/ CompleteThumb(p) \/ HeadThumbObject(p)
           \/ CancelThumb(p)
  <2>1. UNCHANGED <<row, thumb, overrun>> /\ page[p].at \notin {"mark", "unlist"}
    BY <1>1 DEF PresignThumb, PageTimesOut, CompleteThumb, HeadThumbObject, CancelThumb
  <2>2. Thumbed(f) => Thumbed(f)'
    BY <1>0, <2>1 DEF Thumbed
  <2>3. \/ page[p].at = "idle" /\ row[f].status = "completed"
        \/ page[p].at \notin {"idle", "done"}
    BY <1>1 DEF PresignThumb, PageTimesOut, CompleteThumb, HeadThumbObject, CancelThumb
  <2>4. page'[p].at = "write" => thumb[f] = "good"
    BY <1>1, TurnEffect DEF PresignThumb, PageTimesOut, CompleteThumb, HeadThumbObject, CancelThumb
  <2>5. PageInv(p, f)'
    BY <1>a, <2>1, <2>3, <2>4 DEF PageInv, Thumbed, Listed, Final
  <2> QED
    BY <1>b, <2>1, <2>2, <2>5
<1>2. CASE WriteTicket(p)
  <2>1. /\ UNCHANGED <<thumb, overrun>> /\ page[p].at = "reserve" /\ page'[p].at = "sending"
        /\ row'[f].status = row[f].status
        /\ Listed(f) => row'[f].thumb = "uploading"
    BY <1>2, SendEffect, ThumbReserved DEF WriteTicket
  <2>2. Thumbed(f) => Thumbed(f)'
    BY <1>0, <2>1 DEF Thumbed
  <2> QED
    BY <1>c, <2>1, <2>2
<1>3. ASSUME NEW body \in Landed, ArriveThumb(p, body) PROVE Goal
  <2>1. /\ page'[p].at = IF page[p].at = "sending" THEN "landed" ELSE page[p].at
        /\ row' = row /\ thumb'[f] # "none"
    BY <1>3, LandEffect DEF ArriveThumb, BucketTyped, Landed
  <2>2. Thumbed(f)'
    BY <2>1 DEF Thumbed
  <2> QED
    BY <1>0, <1>a, <2>1, <2>2 DEF ThumbInv, PageInv, Listed, Ready, Final
<1>4. CASE WriteThumb(p)
  <2>1. /\ UNCHANGED <<thumb, overrun>> /\ page[p].at = "write"
        /\ page'[p].at \in {"done", "cancel"}
        /\ row'[f].status = row[f].status
    BY <1>4, TurnEffect, ThumbWritten DEF WriteThumb
  <2>2. (Thumbed(f) => Thumbed(f)') /\ (Listed(f) => Thumbed(f))
    BY <1>0, <1>a, <2>1 DEF Thumbed, PageInv
  <2> QED
    BY <1>c, <2>1, <2>2
<1>5. CASE RejectThumb(p) \/ EraseThumb(p)
  <2>1. /\ row' = row /\ page[p].at \in {"reject", "erase"}
        /\ \/ EraseObject(f, HasLock(p)) /\ page'[p].at \in {"mark", "unlist"}
           \/ UNCHANGED <<thumb, overrun>> /\ page'[p].at \in {"cancel", "done"}
    BY <1>5, TurnEffect DEF RejectThumb, EraseThumb
  <2>2. CASE UNCHANGED <<thumb, overrun>> /\ page'[p].at \in {"cancel", "done"}
    <3>1. Thumbed(f) => Thumbed(f)'
      BY <1>0, <2>2 DEF Thumbed
    <3>2. PageInv(p, f)'
      BY <1>a, <2>1, <2>2 DEF PageInv, Final
    <3> QED
      BY <1>b, <2>1, <3>1, <3>2
  <2> QED
    BY <1>d, <2>1, <2>2
<1>6. CASE MarkFailed(p) \/ UnlistThumb(p)
  <2>1. /\ UNCHANGED <<thumb, overrun>> /\ page[p].at \in {"mark", "unlist"}
        /\ page'[p].at \in {"done", "cancel"}
    BY <1>6, TurnEffect DEF MarkFailed, UnlistThumb
  <2>2. /\ row'[f].status = row[f].status
        /\ Listed(f) => row'[f].thumb \in {"failed", "missing"}
    BY <1>6, ThumbWritten, Unlisted DEF MarkFailed, UnlistThumb
  <2>3. Thumbed(f) => Thumbed(f)'
    BY <1>0, <2>1 DEF Thumbed
  <2> QED
    BY <1>c, <2>1, <2>2, <2>3
<1> QED
  BY <1>1, <1>2, <1>3, <1>4, <1>5, <1>6 DEF ThumbnailStep

-----------------------------------------------------------------------------
(* The quota. *)

\* What every file holds, and what some files hold together.
Holdings == [f \in Files |-> Held(f)]
Amounts == [Files -> {0, 1, 2}]
Size(files, h) == Cardinality({u \in files \X {1, 2} : u[2] <= h[u[1]]})

LEMMA UsageIsSize == ASSUME NEW S \in SUBSET Files PROVE UsageOf(S) = Size(S, Holdings)
<1>1. {u \in S \X {1, 2} : u[2] <= Held(u[1])} = {u \in S \X {1, 2} : u[2] <= Holdings[u[1]]}
  BY DEF Holdings
<1> QED
  BY <1>1 DEF UsageOf, Size

LEMMA HoldingsTyped == Holdings \in Amounts /\ Holdings' \in Amounts
<1>1. Holdings \in Amounts
  BY DEF Holdings, Amounts, Held
<1>2. Holdings' \in Amounts
  BY DEF Holdings, Amounts, Held
<1> QED
  BY <1>1, <1>2

LEMMA ObjectsFinite ==
    ASSUME NEW S \in SUBSET Files, NEW h
    PROVE  /\ IsFiniteSet({u \in S \X {1, 2} : u[2] <= h[u[1]]})
           /\ Size(S, h) \in Nat
<1>1. IsFiniteSet(Files)
  BY FS_Union, MediaStorageAssumption DEF Files
<1>2. IsFiniteSet({1, 2})
  <2>1. {1, 2} = {1} \cup {2}
    OBVIOUS
  <2>2. IsFiniteSet({1})
    BY FS_Singleton
  <2> QED
    BY <2>1, <2>2, FS_AddElement
<1>3. IsFiniteSet(S \X {1, 2})
  BY <1>1, <1>2, FS_Product, FS_Subset
<1>4. IsFiniteSet({u \in S \X {1, 2} : u[2] <= h[u[1]]})
  BY <1>3, FS_Subset
<1> QED
  BY <1>4, FS_CardinalityType DEF Size

\* Fewer files, none of which holds more, hold no more together.
LEMMA SizeShrinks ==
    ASSUME NEW T \in SUBSET Files, NEW S \in SUBSET T, NEW h \in Amounts, NEW k \in Amounts,
           \A g \in S : k[g] <= h[g]
    PROVE  /\ Size(S, k) <= Size(T, h)
           /\ Size(S, k) \in Nat /\ Size(T, h) \in Nat
<1> DEFINE A == {u \in S \X {1, 2} : u[2] <= k[u[1]]}
           B == {u \in T \X {1, 2} : u[2] <= h[u[1]]}
<1>1. \A g \in T : h[g] \in {0, 1, 2} /\ k[g] \in {0, 1, 2}
  BY DEF Amounts
<1>2. A \subseteq B
  BY <1>1
<1>3. IsFiniteSet(B)
  BY ObjectsFinite
<1>4. Cardinality(A) <= Cardinality(B)
  BY <1>2, <1>3, FS_Subset
<1> QED
  BY <1>4, ObjectsFinite DEF Size

\* What some files hold is what one of them holds and what the others hold.
LEMMA SizeSplits ==
    ASSUME NEW f \in Files, NEW h \in Amounts
    PROVE  /\ Size(Files, h) = Size(Files \ {f}, h) + h[f]
           /\ h[f] \in {0, 1, 2} /\ Size(Files \ {f}, h) \in Nat
<1> DEFINE S == {u \in Files \X {1, 2} : u[2] <= h[u[1]]}
           O == {u \in (Files \ {f}) \X {1, 2} : u[2] <= h[u[1]]}
<1>1. IsFiniteSet(O) /\ Cardinality(O) \in Nat
  BY ObjectsFinite, FS_CardinalityType
<1>2. h[f] \in {0, 1, 2}
  BY DEF Amounts
<1>3. Size(Files, h) = Cardinality(S) /\ Size(Files \ {f}, h) = Cardinality(O)
  BY DEF Size
<1>4. /\ \A u \in O : u \in S
      /\ \A u \in S : u \in O \/ u = <<f, 1>> \/ u = <<f, 2>>
      /\ <<f, 1>> \notin O /\ <<f, 2>> \notin O
      /\ <<f, 1>> \in S <=> h[f] \in {1, 2}
      /\ <<f, 2>> \in S <=> h[f] = 2
  <2>1. \A u \in Files \X {1, 2} : u = <<u[1], u[2]>> /\ u[2] \in {1, 2} /\ u[1] \in Files
    OBVIOUS
  <2>2. <<f, 1>> \in Files \X {1, 2} /\ <<f, 2>> \in Files \X {1, 2}
    OBVIOUS
  <2> QED
    BY <1>2, <2>1, <2>2
<1> HIDE DEF S, O
<1>5. CASE h[f] = 0
  <2>1. S = O
    BY <1>4, <1>5
  <2> QED
    BY <1>1, <1>3, <1>5, <2>1
<1>6. CASE h[f] = 1
  <2>1. S = O \cup {<<f, 1>>}
    BY <1>4, <1>6
  <2>2. Cardinality(S) = Cardinality(O) + 1
    BY <1>1, <1>4, <2>1, FS_AddElement
  <2> QED
    BY <1>1, <1>3, <1>6, <2>2
<1>7. CASE h[f] = 2
  <2> DEFINE T == O \cup {<<f, 1>>}
  <2>1. S = T \cup {<<f, 2>>} /\ <<f, 2>> \notin T
    BY <1>4, <1>7
  <2>2. IsFiniteSet(T) /\ Cardinality(T) = Cardinality(O) + 1
    BY <1>1, <1>4, FS_AddElement
  <2> HIDE DEF T
  <2>3. Cardinality(S) = Cardinality(T) + 1
    BY <2>1, <2>2, FS_AddElement
  <2> QED
    BY <1>1, <1>3, <1>7, <2>2, <2>3
<1> QED
  BY <1>1, <1>2, <1>3, <1>5, <1>6, <1>7

LEMMA HeldFramed == ASSUME NEW g \in Files, row'[g] = row[g] PROVE Holdings'[g] = Holdings[g]
  BY DEF Holdings, Held, Listed

\* What is within the quota now fits it with another amount of one file.
Fitting(f, amount) == Size(Files \ {f}, Holdings) + amount <= Quota

\* The room that a request has found is there when it writes, unless it was
\* overtaken by one that the locks do not keep apart from it.
Room ==
    /\ Size(Files \ excess, Holdings) <= Quota
    /\ \A f \in Files : job["upload"][f] = "insert" /\ f \notin crossed => Fitting(f, Demand(f))
    /\ \A p \in Pages :
          page[p].at = "reserve" /\ p \notin crossed => Fitting(page[p].file, 2)

\* Where no file holds more, what was found is still there.
LEMMA RoomKept ==
    ASSUME Parts, Room, excess' = excess,
           \A g \in Files : Holdings'[g] <= Holdings[g],
           \A f \in Files : job'["upload"][f] = "insert" /\ f \notin crossed' =>
               Fitting(f, Demand(f)) \/ (job["upload"][f] = "insert" /\ f \notin crossed),
           \A p \in Pages : page'[p].file = page[p].file,
           \A p \in Pages : page'[p].at = "reserve" /\ p \notin crossed' =>
               Fitting(page[p].file, 2) \/ (page[p].at = "reserve" /\ p \notin crossed)
    PROVE  Room'
<1>1. Size(Files \ excess, Holdings') <= Quota
  <2>1. /\ Size(Files \ excess, Holdings') <= Size(Files \ excess, Holdings)
        /\ Size(Files \ excess, Holdings') \in Nat /\ Size(Files \ excess, Holdings) \in Nat
    BY HoldingsTyped, SizeShrinks
  <2> QED
    BY <2>1, MediaStorageAssumption DEF Room
<1>2. ASSUME NEW f \in Files, NEW n \in {1, 2}, Fitting(f, n)
      PROVE  Size(Files \ {f}, Holdings') + n <= Quota
  <2>1. /\ Size(Files \ {f}, Holdings') <= Size(Files \ {f}, Holdings)
        /\ Size(Files \ {f}, Holdings') \in Nat /\ Size(Files \ {f}, Holdings) \in Nat
    BY HoldingsTyped, SizeShrinks
  <2> QED
    BY <1>2, <2>1, MediaStorageAssumption DEF Fitting
<1>3. ASSUME NEW f \in Files, job'["upload"][f] = "insert", f \notin crossed'
      PROVE  Size(Files \ {f}, Holdings') + Demand(f) <= Quota
  <2>1. Fitting(f, Demand(f)) /\ Demand(f) \in {1, 2}
    BY <1>3 DEF Room, Demand
  <2> QED
    BY <1>2, <2>1
<1>4. ASSUME NEW p \in Pages, page'[p].at = "reserve", p \notin crossed'
      PROVE  Size(Files \ {page'[p].file}, Holdings') + 2 <= Quota
  <2>1. Fitting(page[p].file, 2)
    BY <1>4 DEF Room
  <2>2. page[p].file \in Files
    BY FileOfPage DEF Parts
  <2> QED
    BY <1>2, <2>1, <2>2
<1> QED
  BY <1>1, <1>3, <1>4 DEF Room, Fitting, Demand

\* Where one file holds more, whoever waits knows that he was overtaken.
LEMMA RoomTaken ==
    ASSUME Parts, Room, NEW f \in Files,
           \A g \in Files : g # f => Holdings'[g] <= Holdings[g],
           \A g \in Files : job'["upload"][g] = "insert" => g \in crossed',
           \A p \in Pages : page'[p].at = "reserve" => p \in crossed',
           \/ excess' = excess \cup {f}
           \/ excess' = {} /\ Fitting(f, Holdings'[f])
    PROVE  Room'
<1>1. CASE excess' = excess \cup {f}
  <2>1. /\ Size(Files \ (excess \cup {f}), Holdings') <= Size(Files \ excess, Holdings)
        /\ Size(Files \ (excess \cup {f}), Holdings') \in Nat
        /\ Size(Files \ excess, Holdings) \in Nat
    BY HoldingsTyped, SizeShrinks
  <2>2. Size(Files \ (excess \cup {f}), Holdings') <= Quota
    BY <2>1, MediaStorageAssumption DEF Room
  <2> QED
    BY <1>1, <2>2 DEF Room
<1>2. CASE excess' = {} /\ Fitting(f, Holdings'[f])
  <2>1. /\ Size(Files \ {f}, Holdings') <= Size(Files \ {f}, Holdings)
        /\ Size(Files \ {f}, Holdings') \in Nat /\ Size(Files \ {f}, Holdings) \in Nat
    BY HoldingsTyped, SizeShrinks
  <2>2. Size(Files, Holdings') = Size(Files \ {f}, Holdings') + Holdings'[f]
        /\ Holdings'[f] \in {0, 1, 2}
    BY HoldingsTyped, SizeSplits
  <2>3. Size(Files, Holdings') <= Quota
    BY <1>2, <2>1, <2>2, MediaStorageAssumption DEF Fitting
  <2>4. Files \ {} = Files
    OBVIOUS
  <2> QED
    BY <1>2, <2>3, <2>4 DEF Room
<1> QED
  BY <1>1, <1>2

\* Everyone who waits is overtaken by whoever has a lock, or needs none.
LEMMA AllOvertaken ==
    ASSUME Parts, LockHeld, NEW x \in Files \cup Pages, x \in Standard \/ HasLock(x)
    PROVE  /\ \A g \in Files : job["upload"][g] = "insert" /\ g # x => g \in Overtakes(x)
           /\ \A p \in Pages : page[p].at = "reserve" /\ p # x => p \in Overtakes(x)
  BY DEF Overtakes, RoomSeekers, LockHeld, FileLocked

\* A request writes on what it has found.
LEMMA RoomWritten ==
    ASSUME Parts, LockHeld, Room, NEW x \in Files \cup Pages, NEW f \in Files, TakeRoom(x, f),
           x \in Standard \/ HasLock(x),
           \A g \in Files : g # f => Holdings'[g] <= Holdings[g],
           \A g \in Files : job'["upload"][g] = "insert" => job["upload"][g] = "insert" /\ g # x,
           \A p \in Pages : page'[p].at = "reserve" => page[p].at = "reserve" /\ p # x,
           x \notin crossed => Fitting(f, Holdings'[f])
    PROVE  Room'
  BY AllOvertaken, RoomTaken DEF TakeRoom

LEMMA RoomInserted ==
    ASSUME Parts, LockHeld, Room, NEW f \in Files, UploadStep(f),
           InsertReservation(f) \/ CopyCancelled(f),
           job["upload"][f] = "insert", Reserve(f), TakeRoom(f, f)
    PROVE  Room'
<1>1. page' = page /\ \A g \in Files : g # f => SameFile(g)
  BY UploadLocal
<1>2. job'["upload"][f] # "insert"
  BY StepEffect, CancelledEffect, Named DEF InsertReservation, Parts
<1>3. Holdings'[f] = Demand(f)
  BY Reserved, MediaStorageAssumption DEF Holdings, Held, Listed, Demand, Parts, Files
<1>4. f \in Standard \/ HasLock(f)
  BY DEF LockHeld
<1>5. f \notin crossed => Fitting(f, Holdings'[f])
  BY <1>3 DEF Room
<1>6. \A g \in Files : g # f => Holdings'[g] <= Holdings[g]
  BY <1>1, HeldFramed, HoldingsTyped DEF SameFile, Amounts
<1>7. \A p \in Pages : p # f
  BY MediaStorageAssumption
<1> QED
  BY <1>1, <1>2, <1>4, <1>5, <1>6, <1>7, RoomWritten DEF SameFile, Kinds

LEMMA RoomUpload ==
    ASSUME Parts, LockHeld, Room, NEW f \in Files, UploadInv(f), UploadStep(f)
    PROVE  Room'
<1>0. page' = page /\ \A g \in Files : g # f => SameFile(g)
  BY UploadLocal
<1> SUFFICES ASSUME ~(/\ InsertReservation(f) \/ CopyCancelled(f)
                      /\ job["upload"][f] = "insert" /\ Reserve(f) /\ TakeRoom(f, f))
             PROVE  Room'
  BY RoomInserted
<1>1. ~InsertReservation(f)
  BY DEF InsertReservation
<1>2. excess' = excess /\ (crossed' = crossed \/ (crossed' = crossed \ {f} /\ CopyCancelled(f)))
  <2>1. CASE CopyCancelled(f)
    BY <2>1, CancelledLeaves
  <2>2. CASE ~CopyCancelled(f)
    BY <1>1, <2>2
       DEF UploadStep, CheckReservation, CheckStandard, Arrive, SendComplete, GiveUp,
           ReadCompletion, Copy, HeadMain, HeadThumb, WriteMeta, WriteStatus, quotaVars
  <2> QED
    BY <2>1, <2>2
<1>3. Holdings'[f] <= Holdings[f]
  <2>1. CASE row' = row
    BY <2>1, HeldFramed, HoldingsTyped DEF Amounts
  <2>2. CASE MarkComplete(f) /\ Listed(f)
    BY <2>2, StatusWritten DEF Holdings, Held, Listed, Parts
  <2>3. CASE Remove(f)
    BY <2>3, RowDropped DEF Holdings, Held, Listed, Parts
  <2>4. CASE WriteMeta(f) /\ Listed(f) /\ f \in Uploads
    <3>1. row[f].thumb \in {"uploading", "completed"}
      BY <2>4, MediaStorageAssumption DEF UploadInv, WriteMeta, InUpload, Listed
    <3> QED
      BY <2>4, <3>1, ThumbWritten DEF WriteMeta, Holdings, Held, Listed, Parts
  <2>5. CASE CopyCancelled(f)
    BY <2>1, <2>2, <2>3, <2>5, CancelledLeaves
  <2>6. CASE ~CopyCancelled(f)
    BY <1>1, <2>1, <2>2, <2>4, <2>6
       DEF UploadStep, CheckReservation, CheckStandard, Arrive, SendComplete, GiveUp,
           ReadCompletion, Copy, HeadMain, HeadThumb, WriteMeta, WriteStatus
  <2> QED
    BY <2>5, <2>6
<1>4. \A g \in Files : Holdings'[g] <= Holdings[g]
  BY <1>0, <1>3, HeldFramed, HoldingsTyped DEF SameFile, Amounts
<1>5. job'["upload"][f] = "insert" =>
          Fitting(f, Demand(f)) \/ (job["upload"][f] = "insert" /\ ~CopyCancelled(f))
  <2>1. CASE CopyCancelled(f)
    BY <2>1, CancelledEffect
  <2>2. CASE CheckReservation(f) \/ CheckStandard(f)
    <3> SUFFICES ASSUME job'["upload"][f] = "insert" PROVE Fitting(f, Demand(f))
      OBVIOUS
    <3>1. Fits(f)
      BY <2>2 DEF CheckReservation, CheckStandard, Untouched
    <3>2. UsageOf(Files) = Size(Files, Holdings)
      BY UsageIsSize
    <3>3. /\ Size(Files \ {f}, Holdings) <= Size(Files, Holdings)
          /\ Size(Files \ {f}, Holdings) \in Nat /\ Size(Files, Holdings) \in Nat
      BY HoldingsTyped, SizeShrinks DEF Amounts
    <3> QED
      BY <3>1, <3>2, <3>3, MediaStorageAssumption DEF Fits, Fitting, Demand
  <2> QED
    BY <2>1, <2>2, UploadsGoOn
<1>6. \A p \in Pages : p \notin crossed' => p \notin crossed
  BY <1>2, MediaStorageAssumption
<1>7. ASSUME NEW g \in Files, job'["upload"][g] = "insert", g \notin crossed'
      PROVE  Fitting(g, Demand(g)) \/ (job["upload"][g] = "insert" /\ g \notin crossed)
  <2>1. CASE g = f
    BY <1>2, <1>5, <1>7, <2>1
  <2>2. CASE g # f
    BY <1>0, <1>2, <1>7, <2>2 DEF SameFile, Kinds
  <2> QED
    BY <2>1, <2>2
<1> QED
  BY <1>0, <1>2, <1>4, <1>6, <1>7, RoomKept

LEMMA RoomRemoval ==
    ASSUME Parts, LockHeld, Room, NEW f \in Files, RemovalStep(f)
    PROVE  Room'
<1>1. page' = page /\ UNCHANGED quotaVars /\ \A g \in Files : g # f => SameFile(g)
  BY RemovalLocal
<1>2. Holdings'[f] <= Holdings[f]
  <2>1. CASE row' = row
    BY <2>1, HeldFramed, HoldingsTyped DEF Amounts
  <2>2. CASE SweepUnlist(f) /\ Listed(f)
    BY <2>2, Unlisted DEF SweepUnlist, Holdings, Held, Listed, Parts
  <2>3. CASE HourPasses(f)
    BY <2>3, Aged DEF Holdings, Held, Listed, Parts
  <2>4. ASSUME NEW k \in Kinds, DropRow(k, f) PROVE Holdings'[f] <= Holdings[f]
    BY <2>4, RowDropped DEF DropRow, Holdings, Held, Listed, Parts
  <2> QED
    BY <2>1, <2>2, <2>3, <2>4
       DEF RemovalStep, ReadCancel, DeleteFile, SweepLook, SweepThumb, SweepUnlist, DropThumb,
           DropObject, DropFails
<1>3. \A g \in Files : Holdings'[g] <= Holdings[g]
  BY <1>1, <1>2, HeldFramed, HoldingsTyped DEF SameFile, Amounts
<1>4. \A g \in Files : job'["upload"][g] = "insert" => job["upload"][g] = "insert"
  <2>1. job'["upload"][f] = "insert" => job["upload"][f] = "insert"
    BY RemovalsInsertNothing
  <2> QED
    BY <1>1, <2>1 DEF SameFile, Kinds
<1> QED
  BY <1>1, <1>3, <1>4, RoomKept DEF quotaVars

LEMMA RoomThumbnail ==
    ASSUME Parts, LockHeld, Room, NEW p \in Pages, ThumbnailStep(p)
    PROVE  Room'
<1>0. PICK f \in Files : f = page[p].file
  BY FileOfPage DEF Parts
<1>1. /\ job' = job
      /\ \A q \in Pages : page'[q].file = page[q].file
      /\ \A q \in Pages : q # p => page'[q].at = page[q].at
      /\ \A g \in Files : g # f => Holdings'[g] <= Holdings[g]
  BY <1>0, ThumbnailLocal, HeldFramed, HoldingsTyped DEF SameFile, Amounts
<1>2. \A g \in Files : g # p
  BY MediaStorageAssumption
\* Nobody holds more: what was found is still there.
<1>3. ASSUME Holdings'[f] <= Holdings[f], excess' = excess,
             crossed' = crossed \/ (crossed' = crossed \ {p} /\ page'[p].at # "reserve"),
             page'[p].at = "reserve" => Fitting(f, 2) \/ page[p].at = "reserve"
      PROVE  Room'
  <2>1. \A g \in Files : Holdings'[g] <= Holdings[g]
    BY <1>1, <1>3
  <2>2. \A q \in Pages : page'[q].at = "reserve" /\ q \notin crossed' =>
               Fitting(page[q].file, 2) \/ (page[q].at = "reserve" /\ q \notin crossed)
    BY <1>0, <1>1, <1>3
  <2>3. \A g \in Files : job'["upload"][g] = "insert" /\ g \notin crossed' =>
               job["upload"][g] = "insert" /\ g \notin crossed
    BY <1>1, <1>2, <1>3
  <2> QED
    BY <1>1, <1>3, <2>1, <2>2, <2>3, RoomKept
<1> USE DEF Parts, Busy
<1>4. CASE PresignThumb(p)
  <2>1. page'[p].at = "reserve" => Fitting(f, 2)
    <3>1. page'[p].at = "reserve" => UsageOf(Files \ {f}) + 2 <= Quota
      BY <1>0, <1>4, TurnEffect DEF PresignThumb, Reservable
    <3>2. UsageOf(Files \ {f}) = Size(Files \ {f}, Holdings)
      BY UsageIsSize
    <3> QED
      BY <3>1, <3>2 DEF Fitting
  <2>2. UNCHANGED <<row, crossed, excess>>
    BY <1>4 DEF PresignThumb
  <2> QED
    BY <1>3, <2>1, <2>2, HeldFramed, HoldingsTyped DEF Amounts
<1>5. CASE WriteTicket(p)
  <2>1. page[p].at = "reserve" /\ page'[p].at = "sending"
    BY <1>5, SendEffect DEF WriteTicket
  <2>2. CASE ~Listed(f)
    <3>1. crossed' = crossed \ {p} /\ UNCHANGED <<row, excess>>
      BY <1>0, <1>5, <2>2 DEF WriteTicket
    <3> QED
      BY <1>3, <2>1, <3>1, HeldFramed, HoldingsTyped DEF Amounts
  <2>3. CASE Listed(f)
    <3>1. ReserveThumb(f, p) /\ TakeRoom(p, f)
      BY <1>0, <1>5, <2>3 DEF WriteTicket
    <3>2. Holdings'[f] = 2
      BY <2>3, <3>1, ThumbReserved DEF Holdings, Held, Listed
    <3>3. p \notin crossed => Fitting(f, Holdings'[f])
      BY <1>0, <2>1, <3>2 DEF Room
    <3>4. HasLock(p)
      BY <2>1 DEF LockHeld, FileLocked
    <3>5. \A q \in Pages : page'[q].at = "reserve" => page[q].at = "reserve" /\ q # p
      BY <1>1, <2>1
    <3> QED
      BY <1>1, <1>2, <3>1, <3>3, <3>4, <3>5, RoomWritten
  <2> QED
    BY <2>2, <2>3
<1>6. CASE WriteThumb(p)
  <2>1. page[p].at = "write" /\ page'[p].at \in {"done", "cancel"}
    BY <1>6, TurnEffect DEF WriteThumb
  <2>2. CASE ~Listed(f)
    <3>1. UNCHANGED <<row, crossed, excess>>
      BY <1>0, <1>6, <2>2 DEF WriteThumb
    <3> QED
      BY <1>3, <2>1, <3>1, HeldFramed, HoldingsTyped DEF Amounts
  <2>3. CASE Listed(f) /\ Held(f) < 2
    <3>1. crossed' = crossed \cup Overtakes(p) /\ excess' = excess \cup {f}
      BY <1>0, <1>6, <2>3 DEF WriteThumb
    <3>2. HasLock(p)
      BY <2>1 DEF LockHeld, FileLocked
    <3>3. \A q \in Pages : page'[q].at = "reserve" => page[q].at = "reserve" /\ q # p
      BY <1>1, <2>1
    <3>4. /\ \A g \in Files : job'["upload"][g] = "insert" => g \in crossed'
          /\ \A q \in Pages : page'[q].at = "reserve" => q \in crossed'
      BY <1>1, <1>2, <3>1, <3>2, <3>3, AllOvertaken
    <3> QED
      BY <1>1, <3>1, <3>4, RoomTaken
  <2>4. CASE Listed(f) /\ ~(Held(f) < 2)
    <3>1. MarkThumb(f, "completed") /\ UNCHANGED <<crossed, excess>>
      BY <1>0, <1>6, <2>4 DEF WriteThumb
    <3>2. Holdings[f] = 2
      BY <2>4 DEF Holdings, Held
    <3>3. Holdings'[f] \in {0, 1, 2}
      BY HoldingsTyped DEF Amounts
    <3> QED
      BY <1>3, <2>1, <3>1, <3>2, <3>3
  <2> QED
    BY <2>2, <2>3, <2>4
<1>7. CASE MarkFailed(p) \/ UnlistThumb(p)
  <2>1. page'[p].at # "reserve" /\ UNCHANGED <<crossed, excess>>
    BY <1>7, TurnEffect DEF MarkFailed, UnlistThumb
  <2>2. Holdings'[f] <= Holdings[f]
    <3>1. row' = row \/ MarkThumb(f, "failed") \/ Unlist(f)
      BY <1>0, <1>7 DEF MarkFailed, UnlistThumb
    <3>2. CASE row' = row
      BY <3>2, HeldFramed, HoldingsTyped DEF Amounts
    <3>3. CASE MarkThumb(f, "failed") \/ Unlist(f)
      BY <3>3, ThumbWritten, Unlisted DEF Holdings, Held, Listed
    <3> QED
      BY <3>1, <3>2, <3>3
  <2> QED
    BY <1>3, <2>1, <2>2
<1>8. CASE PageTimesOut(p) \/ CompleteThumb(p) \/ HeadThumbObject(p) \/ CancelThumb(p)
           \/ RejectThumb(p) \/ EraseThumb(p) \/ \E body \in Landed : ArriveThumb(p, body)
  <2>1. UNCHANGED <<row, crossed, excess>>
    BY <1>8 DEF PageTimesOut, CompleteThumb, HeadThumbObject, CancelThumb, RejectThumb, EraseThumb,
                ArriveThumb, quotaVars
  <2>2. page'[p].at = "reserve" => page[p].at = "reserve"
    BY <1>8, TurnEffect, LandEffect
       DEF PageTimesOut, CompleteThumb, HeadThumbObject, CancelThumb, RejectThumb, EraseThumb,
           ArriveThumb
  <2> QED
    BY <1>3, <2>1, <2>2, HeldFramed, HoldingsTyped DEF Amounts
<1> QED
  BY <1>4, <1>5, <1>6, <1>7, <1>8 DEF ThumbnailStep

-----------------------------------------------------------------------------
(* What every step of the bucket keeps. *)

PagesOf(f) == \A p \in Pages : page[p].file = f => PageInv(p, f)

StorageInv ==
    /\ Parts /\ LockHeld /\ Room
    /\ \A f \in Files : UploadInv(f) /\ ThumbInv(f) /\ PagesOf(f)

LEMMA StorageInit == MediaInit => StorageInv
<1> SUFFICES ASSUME MediaInit PROVE StorageInv
  OBVIOUS
<1>1. Parts
  <2>1. MediaTypeOK
    BY DEF MediaInit, MediaTypeOK, NoRow, Kinds, Steps, Busy, Landed
  <2> QED
    BY <2>1, MediaTypes DEF Parts
<1>2. LockHeld
  BY DEF MediaInit, LockHeld, FileLocked, Kinds
<1>3. Room
  <2>1. \A f \in Files : Held(f) = 0
    BY DEF MediaInit, Held, Listed, NoRow
  <2>2. {u \in Files \X {1, 2} : u[2] <= Holdings[u[1]]} = {}
    BY <2>1 DEF Holdings
  <2>3. excess = {} /\ Files \ {} = Files
    BY DEF MediaInit
  <2>4. Size(Files \ excess, Holdings) = 0
    BY <2>2, <2>3, FS_EmptySet DEF Size
  <2>5. \A f \in Files : job["upload"][f] # "insert"
    BY DEF MediaInit, Kinds
  <2>6. \A p \in Pages : page[p].at # "reserve"
    BY DEF MediaInit
  <2> QED
    BY <2>4, <2>5, <2>6, MediaStorageAssumption DEF Room
<1>4. \A f \in Files : UploadInv(f) /\ ThumbInv(f) /\ PagesOf(f)
  BY DEF MediaInit, UploadInv, ThumbInv, PagesOf, PageInv, NoRow, InUpload, Final, Dropped, Listed,
         Ready, Kinds
<1> QED
  BY <1>1, <1>2, <1>3, <1>4 DEF StorageInv

LEMMA StorageStep == StorageInv /\ [MediaNext]_mediaVars => StorageInv'
<1> SUFFICES ASSUME StorageInv, [MediaNext]_mediaVars PROVE StorageInv'
  OBVIOUS
<1> USE DEF StorageInv
<1>1. ASSUME NEW f \in Files, UploadStep(f) PROVE StorageInv'
  <2>1. Parts' /\ LockHeld' /\ Room'
    BY <1>1, TypesUpload, LockUpload, RoomUpload
  <2>2. UploadInv(f)' /\ ThumbInv(f)' /\ PagesOf(f)'
    <3>1. page' = page
      BY <1>1, UploadLocal
    <3> QED
      BY <1>1, <3>1, UploadUpload, ThumbUpload DEF PagesOf
  <2>3. ASSUME NEW g \in Files, g # f PROVE UploadInv(g)' /\ ThumbInv(g)' /\ PagesOf(g)'
    <3>1. page' = page /\ SameFile(g)
      BY <1>1, <2>3, UploadLocal
    <3> QED
      BY <3>1, UploadFrame, ThumbFramed, PageFramed DEF PagesOf
  <2> QED
    BY <2>1, <2>2, <2>3
<1>2. ASSUME NEW f \in Files, RemovalStep(f) PROVE StorageInv'
  <2>1. Parts' /\ LockHeld' /\ Room'
    BY <1>2, TypesRemoval, LockRemoval, RoomRemoval
  <2>2. UploadInv(f)' /\ ThumbInv(f)' /\ PagesOf(f)'
    <3>1. page' = page
      BY <1>2, RemovalLocal
    <3> QED
      BY <1>2, <3>1, UploadRemoval, ThumbRemoval DEF PagesOf
  <2>3. ASSUME NEW g \in Files, g # f PROVE UploadInv(g)' /\ ThumbInv(g)' /\ PagesOf(g)'
    <3>1. page' = page /\ SameFile(g)
      BY <1>2, <2>3, RemovalLocal
    <3> QED
      BY <3>1, UploadFrame, ThumbFramed, PageFramed DEF PagesOf
  <2> QED
    BY <2>1, <2>2, <2>3
<1>3. ASSUME NEW p \in Pages, ThumbnailStep(p) PROVE StorageInv'
  <2>0. PICK f \in Files : f = page[p].file
    BY FileOfPage DEF Parts
  <2>1. Parts' /\ LockHeld' /\ Room'
    BY <1>3, TypesThumbnail, LockThumbnail, RoomThumbnail
  <2>2. /\ \A q \in Pages : page'[q].file = page[q].file
        /\ \A q \in Pages : q # p => page'[q].at = page[q].at
        /\ \A g \in Files : g # f => SameFile(g)
    BY <1>3, <2>0, ThumbnailLocal
  <2>3. UploadInv(f)' /\ ThumbInv(f)' /\ PagesOf(f)'
    <3>1. PageInv(p, f)
      BY <2>0 DEF PagesOf
    <3>2. UploadInv(f)'
      BY <1>3, <2>0, <3>1, UploadThumbnail DEF PageInv
    <3>3. ThumbInv(f)' /\ \A q \in Pages : page[q].file = f => PageInv(q, f)'
      BY <1>3, <2>0, ThumbThumbnail DEF PagesOf
    <3> QED
      BY <2>2, <3>2, <3>3 DEF PagesOf
  <2>4. ASSUME NEW g \in Files, g # f PROVE UploadInv(g)' /\ ThumbInv(g)' /\ PagesOf(g)'
    <3>1. SameFile(g) /\ \A q \in Pages : page[q].file = g => page'[q].at = page[q].at
      BY <2>0, <2>2, <2>4
    <3>2. UploadInv(g)'
      BY <3>1, UploadFrame
    <3>3. ThumbInv(g)'
      BY <2>2, <3>1, ThumbFramed
    <3>4. PagesOf(g)'
      BY <2>2, <3>1, PageFramed DEF PagesOf
    <3> QED
      BY <3>2, <3>3, <3>4
  <2> QED
    BY <2>1, <2>3, <2>4
<1>4. CASE UNCHANGED mediaVars
  <2>1. Parts' /\ LockHeld'
    BY <1>4 DEF mediaVars, quotaVars, Parts, RowsTyped, JobsTyped, PagesTyped, BrowsersTyped,
                BucketTyped, LockTyped, LockHeld, HasLock
  <2>2. Holdings' = Holdings
    BY <1>4 DEF mediaVars, Holdings, Held, Listed
  <2>3. Room'
    BY <1>4, <2>2 DEF mediaVars, quotaVars, Room, Fitting, Demand
  <2>4. \A f \in Files : UploadInv(f)' /\ ThumbInv(f)' /\ PagesOf(f)'
    BY <1>4 DEF mediaVars, UploadInv, ThumbInv, PagesOf, PageInv, InUpload, Final, Dropped, Listed,
                Ready, Thumbed, LeavesTheList
  <2> QED
    BY <2>1, <2>3, <2>4
<1> QED
  BY <1>1, <1>2, <1>3, <1>4 DEF MediaNext

\* The bucket and its tables agree and keep to the quota, whatever uploads,
\* sweeps, cancellations, deletions and late thumbnails of two processes cross
\* each other, for any number of files, pages and processes and any quota.
THEOREM StorageKeepsItsWord == MediaSpec => []StorageSafety
<1>1. StorageInv => StorageSafety
  <2> SUFFICES ASSUME StorageInv PROVE StorageSafety
    OBVIOUS
  <2>1. MediaTypeOK
    BY MediaTypes DEF StorageInv, Parts
  <2>2. UsageWithinQuota
    <3>1. UsageOf(Files \ excess) = Size(Files \ excess, Holdings)
      BY UsageIsSize
    <3> QED
      BY <3>1 DEF StorageInv, Room, UsageWithinQuota
  <2>3. CompletedHasObject
    BY DEF StorageInv, UploadInv, CompletedHasObject, Listed
  <2>4. ReadyHasThumbnail
    BY Named DEF StorageInv, ThumbInv, LeavesTheList, Thumbed, ReadyHasThumbnail, Unlisting, Listed
  <2> QED
    BY <2>1, <2>2, <2>3, <2>4 DEF StorageSafety, ListedIsStored
<1> QED
  BY <1>1, StorageInit, StorageStep, PTL DEF MediaSpec

-----------------------------------------------------------------------------
(***************************************************************************)
(* Logins: an account that is being verified is nobody else's to verify,   *)
(* and one that is being made is nobody else's at all.                     *)
(***************************************************************************)
RouteRow == [op : {"onboard", "prepare", "start", "cancel", "verify", "none"}, on : Accounts,
             stage : {"none", "create", "update", "begin", "status", "browser", "grab", "probe",
                      "mark", "provision", "rollback", "open", "cancel", "capture", "restart"}]
ThreadRow == [act : {"provision", "rollback", "open", "cancel", "capture", "restart", "none"},
              on : Accounts,
              at : {"none", "lock", "boot", "look", "stop", "unlink", "launch", "spawn", "pid",
                    "deadPid", "wait", "issue", "revoke", "service"}]

HostTypeOK ==
    /\ account \in [Accounts -> {"none", "new", "disabled", "reauth_required", "ready"}]
    /\ runtime \in [Accounts -> {"none", "entry", "running"}]
    /\ loaded \in [Accounts -> 0 .. MaxLogins] /\ stored \in [Accounts -> 0 .. MaxLogins]
    /\ profile \in [Accounts -> 0 .. MaxLogins]
    /\ chrome \in [Accounts -> {"none", "starting", "manual", "ready"}]
    /\ pidFile \in [Accounts -> {"none", "right", "dead"}]
    /\ session \in [1 .. MaxSessions ->
                    [on : Accounts, is : {"unused", "pending", "connection"}]]
    /\ lock \subseteq Requests

RoutesTypeOK ==
    /\ verifying \subseteq Accounts
    /\ request \in [Requests -> RouteRow] /\ control \in [Requests -> ThreadRow]

\* The stages of a route.
StageOK(q) ==
    \/ q = NoRequest
    \/ q.op = "onboard" /\ q.stage \in {"provision", "create", "begin", "open", "rollback"}
    \/ q.op = "prepare" /\ q.stage \in {"provision", "update", "begin", "open"}
    \/ q.op = "start" /\ q.stage \in {"status", "begin", "open"}
    \/ q.op = "cancel" /\ q.stage \in {"begin", "cancel"}
    \/ /\ q.op = "verify"
       /\ q.stage \in {"begin", "browser", "capture", "grab", "restart", "probe", "mark"}

\* The places of a thread.
ThreadOK(t) ==
    /\ t.act = "none" => t = NoThread
    /\ t.act = "provision" => t.at \in {"lock", "boot"}
    /\ t.act = "rollback" => t.at = "lock"
    /\ t.act \in {"cancel", "restart"} => t.at \in {"look", "stop", "unlink", "revoke", "service"}
    /\ t.act \in {"open", "capture"} => t.at \notin {"none", "lock", "boot", "revoke", "service"}
    /\ t.at = "service" => t.act = "restart"

\* A request that waits for a thread waits for its own.
Paired(r) ==
    request[r].op # "none" =>
        /\ request[r].stage \in Calls => /\ control[r].act = request[r].stage
                                         /\ control[r].on = request[r].on
        /\ request[r].stage \notin Calls => control[r] = NoThread

\* From begin on a verification keeps its account from work, and what it found
\* the worker to run with stays.
Verifies(r) ==
    request[r].op = "verify" =>
        /\ request[r].stage # "begin" => account[request[r].on] # "ready"
        /\ request[r].stage \in {"probe", "mark"} => loaded[request[r].on] = stored[request[r].on]
        /\ request[r].stage = "mark" => stored[request[r].on] # 0

\* A worker is restarted only where one was up, and booted only where there is
\* none.
Works(r) ==
    /\ control[r].act = "restart" => runtime[control[r].on] = "running"
    /\ control[r].at = "boot" => runtime[control[r].on] = "entry" /\ lock = {r}

RouteOK(r) ==
    StageOK(request[r]) /\ ThreadOK(control[r]) /\ Paired(r) /\ Verifies(r) /\ Works(r)

\* Nobody else has to do with the account.
Alone(r, a) ==
    /\ account[a] = "none"
    /\ \A x \in Requests \ {r} : /\ request[x].op # "none" => request[x].on # a
                                 /\ control[x].act # "none" => control[x].on # a

Making(r) == request[r].op = "onboard" /\ request[r].stage \in {"provision", "create", "rollback"}
NewIsAlone(r) ==
    /\ Making(r) => Alone(r, request[r].on)
    /\ control[r].act = "rollback" => Alone(r, control[r].on)

OneVerifier ==
    /\ \A r \in Requests : request[r].op = "verify" => request[r].on \in verifying
    /\ \A r, x \in Requests : request[r].op = "verify" /\ request[x].op = "verify"
                              /\ request[r].on = request[x].on => r = x

LoginInv ==
    /\ HostTypeOK /\ RoutesTypeOK /\ OneVerifier
    /\ \A r \in Requests : RouteOK(r) /\ NewIsAlone(r)
    /\ ReadyIsLoaded /\ OneSession

-----------------------------------------------------------------------------
LEMMA CallsAre ==
    \A s : s \in Calls <=> s \in {"provision", "rollback", "open", "cancel", "capture", "restart"}
  BY DEF Calls

LEMMA ScriptsAre ==
    /\ DOMAIN Script = {"onboard", "prepare", "start", "cancel", "verify"}
    /\ Script["onboard"] = <<"provision", "create", "begin", "open">>
    /\ Script["prepare"] = <<"provision", "update", "begin", "open">>
    /\ Script["start"] = <<"status", "begin", "open">>
    /\ Script["cancel"] = <<"begin", "cancel">>
    /\ Script["verify"] = <<"begin", "browser", "capture", "grab", "restart", "probe", "mark">>
  BY DEF Script

LEMMA LoginTypes == LoginTypeOK <=> HostTypeOK /\ RoutesTypeOK
<1>1. /\ RouteRow = [op : DOMAIN Script \cup {"none"}, on : Accounts,
                     stage : {"none", "create", "update", "begin", "status", "browser",
                              "grab", "probe", "mark"} \cup Calls]
  BY ScriptsAre DEF RouteRow, Calls
<1>2. ThreadRow = [act : Calls \cup {"none"}, on : Accounts,
                   at : {"none", "lock", "boot", "look", "stop", "unlink", "launch",
                         "spawn", "pid", "deadPid", "wait", "issue", "revoke", "service"}]
  BY DEF ThreadRow, Calls
<1> QED
  BY <1>1, <1>2 DEF LoginTypeOK, HostTypeOK, RoutesTypeOK

LEMMA NothingRows ==
    ASSUME LoginAssumption
    PROVE  /\ NoRequest \in RouteRow /\ NoRequest.op = "none" /\ NoRequest.stage = "none"
           /\ NoThread \in ThreadRow /\ NoThread.act = "none" /\ NoThread.at = "none"
           /\ NoRequest.on \in Accounts /\ Unused \in [on : Accounts, is : {"unused", "pending", "connection"}]
           /\ Unused.is = "unused"
<1>1. (CHOOSE a \in Accounts : TRUE) \in Accounts
  BY DEF LoginAssumption
<1> QED
  BY <1>1 DEF NoRequest, NoThread, Unused, RouteRow, ThreadRow

\* A route at a stage has its thread.
LEMMA ThreadStarts ==
    ASSUME LoginAssumption, NEW q \in RouteRow
    PROVE  /\ Thread(q) \in ThreadRow /\ ThreadOK(Thread(q)) /\ Thread(q).at \notin {"boot", "service"}
           /\ q.stage \in Calls => Thread(q).act = q.stage /\ Thread(q).on = q.on
           /\ q.stage \notin Calls => Thread(q) = NoThread
<1>1. CASE q.stage \notin Calls
  BY <1>1, NothingRows DEF Thread, ThreadOK
<1>2. CASE q.stage \in {"provision", "rollback"}
  <2>1. Thread(q) = [act |-> q.stage, on |-> q.on, at |-> "lock"] /\ q.stage \in Calls
    BY <1>2 DEF Thread, Calls
  <2> QED
    BY <1>2, <2>1 DEF ThreadRow, RouteRow, ThreadOK
<1>3. CASE q.stage \in {"open", "cancel", "capture", "restart"}
  <2>1. Thread(q) = [act |-> q.stage, on |-> q.on, at |-> "look"] /\ q.stage \in Calls
    BY <1>3 DEF Thread, Calls
  <2> QED
    BY <1>3, <2>1 DEF ThreadRow, RouteRow, ThreadOK
<1> QED
  BY <1>1, <1>2, <1>3, CallsAre

-----------------------------------------------------------------------------
(* How a route goes on. *)
Follows(q, next) ==
    \/ q.op = "onboard" /\ q.stage = "provision" /\ next = "create"
    \/ q.op = "prepare" /\ q.stage = "provision" /\ next = "update"
    \/ q.op \in {"onboard", "prepare", "start"} /\ q.stage \in {"create", "update", "status"}
       /\ next = "begin"
    \/ q.op \in {"onboard", "prepare", "start"} /\ q.stage = "begin" /\ next = "open"
    \/ q.op = "cancel" /\ q.stage = "begin" /\ next = "cancel"
    \/ q.op = "verify" /\ q.stage = "begin" /\ next = "browser"
    \/ q.op = "verify" /\ q.stage = "browser" /\ next \in {"capture", "grab"}
    \/ q.op = "verify" /\ q.stage = "capture" /\ next = "grab"
    \/ q.op = "verify" /\ q.stage = "grab" /\ next = "restart"
    \/ q.op = "verify" /\ q.stage = "restart" /\ next = "probe"
    \/ q.op = "verify" /\ q.stage = "probe" /\ next = "mark"

StepsTo(r, next) == Enter(r, [request[r] EXCEPT !.stage = next])

LEMMA PositionIs ==
    ASSUME NEW q, NEW n \in 1 .. Len(Script[q.op]), Script[q.op][n] = q.stage,
           \A m \in 1 .. Len(Script[q.op]) : Script[q.op][m] = q.stage => m = n
    PROVE  Position(q) = n
  BY DEF Position

LEMMA RouteFollows ==
    ASSUME NEW q \in RouteRow, StageOK(q), q.op # "none", q.stage # "rollback",
           Position(q) # Len(Script[q.op])
    PROVE  Follows(q, Following(q))
<1> DEFINE s == Script[q.op]
<1>0. Following(q) = IF s[Position(q) + 1] = "capture" /\ q.on \notin Claude
                     THEN s[Position(q) + 2] ELSE s[Position(q) + 1]
  BY DEF Following
<1>1. CASE q.op = "onboard"
  <2>0. /\ Len(s) = 4 /\ 1 .. 4 = {1, 2, 3, 4}
        /\ s[1] = "provision" /\ s[2] = "create" /\ s[3] = "begin" /\ s[4] = "open"
    BY <1>1, ScriptsAre
  <2> HIDE DEF s
  <2>1. CASE q.stage = "provision"
    <3>1. Position(q) = 1
      <4>1. /\ 1 \in 1 .. Len(s) /\ s[1] = q.stage
            /\ \A m \in 1 .. Len(s) : s[m] = q.stage => m = 1
        BY <2>0, <2>1
      <4> QED
        BY <4>1, PositionIs DEF s
    <3> QED
      BY <1>0, <1>1, <2>0, <2>1, <3>1 DEF Follows
  <2>2. CASE q.stage = "create"
    <3>1. Position(q) = 2
      <4>1. /\ 2 \in 1 .. Len(s) /\ s[2] = q.stage
            /\ \A m \in 1 .. Len(s) : s[m] = q.stage => m = 2
        BY <2>0, <2>2
      <4> QED
        BY <4>1, PositionIs DEF s
    <3> QED
      BY <1>0, <1>1, <2>0, <2>2, <3>1 DEF Follows
  <2>3. CASE q.stage = "begin"
    <3>1. Position(q) = 3
      <4>1. /\ 3 \in 1 .. Len(s) /\ s[3] = q.stage
            /\ \A m \in 1 .. Len(s) : s[m] = q.stage => m = 3
        BY <2>0, <2>3
      <4> QED
        BY <4>1, PositionIs DEF s
    <3> QED
      BY <1>0, <1>1, <2>0, <2>3, <3>1 DEF Follows
  <2>4. CASE q.stage = "open"
    <3>1. Position(q) = 4
      <4>1. /\ 4 \in 1 .. Len(s) /\ s[4] = q.stage
            /\ \A m \in 1 .. Len(s) : s[m] = q.stage => m = 4
        BY <2>0, <2>4
      <4> QED
        BY <4>1, PositionIs DEF s
    <3> QED
      BY <2>0, <3>1 DEF s
  <2> QED
    BY <1>1, <2>1, <2>2, <2>3, <2>4 DEF StageOK, NoRequest
<1>2. CASE q.op = "prepare"
  <2>0. /\ Len(s) = 4 /\ 1 .. 4 = {1, 2, 3, 4}
        /\ s[1] = "provision" /\ s[2] = "update" /\ s[3] = "begin" /\ s[4] = "open"
    BY <1>2, ScriptsAre
  <2> HIDE DEF s
  <2>1. CASE q.stage = "provision"
    <3>1. Position(q) = 1
      <4>1. /\ 1 \in 1 .. Len(s) /\ s[1] = q.stage
            /\ \A m \in 1 .. Len(s) : s[m] = q.stage => m = 1
        BY <2>0, <2>1
      <4> QED
        BY <4>1, PositionIs DEF s
    <3> QED
      BY <1>0, <1>2, <2>0, <2>1, <3>1 DEF Follows
  <2>2. CASE q.stage = "update"
    <3>1. Position(q) = 2
      <4>1. /\ 2 \in 1 .. Len(s) /\ s[2] = q.stage
            /\ \A m \in 1 .. Len(s) : s[m] = q.stage => m = 2
        BY <2>0, <2>2
      <4> QED
        BY <4>1, PositionIs DEF s
    <3> QED
      BY <1>0, <1>2, <2>0, <2>2, <3>1 DEF Follows
  <2>3. CASE q.stage = "begin"
    <3>1. Position(q) = 3
      <4>1. /\ 3 \in 1 .. Len(s) /\ s[3] = q.stage
            /\ \A m \in 1 .. Len(s) : s[m] = q.stage => m = 3
        BY <2>0, <2>3
      <4> QED
        BY <4>1, PositionIs DEF s
    <3> QED
      BY <1>0, <1>2, <2>0, <2>3, <3>1 DEF Follows
  <2>4. CASE q.stage = "open"
    <3>1. Position(q) = 4
      <4>1. /\ 4 \in 1 .. Len(s) /\ s[4] = q.stage
            /\ \A m \in 1 .. Len(s) : s[m] = q.stage => m = 4
        BY <2>0, <2>4
      <4> QED
        BY <4>1, PositionIs DEF s
    <3> QED
      BY <2>0, <3>1 DEF s
  <2> QED
    BY <1>2, <2>1, <2>2, <2>3, <2>4 DEF StageOK, NoRequest
<1>3. CASE q.op = "start"
  <2>0. /\ Len(s) = 3 /\ 1 .. 3 = {1, 2, 3}
        /\ s[1] = "status" /\ s[2] = "begin" /\ s[3] = "open"
    BY <1>3, ScriptsAre
  <2> HIDE DEF s
  <2>1. CASE q.stage = "status"
    <3>1. Position(q) = 1
      <4>1. /\ 1 \in 1 .. Len(s) /\ s[1] = q.stage
            /\ \A m \in 1 .. Len(s) : s[m] = q.stage => m = 1
        BY <2>0, <2>1
      <4> QED
        BY <4>1, PositionIs DEF s
    <3> QED
      BY <1>0, <1>3, <2>0, <2>1, <3>1 DEF Follows
  <2>2. CASE q.stage = "begin"
    <3>1. Position(q) = 2
      <4>1. /\ 2 \in 1 .. Len(s) /\ s[2] = q.stage
            /\ \A m \in 1 .. Len(s) : s[m] = q.stage => m = 2
        BY <2>0, <2>2
      <4> QED
        BY <4>1, PositionIs DEF s
    <3> QED
      BY <1>0, <1>3, <2>0, <2>2, <3>1 DEF Follows
  <2>3. CASE q.stage = "open"
    <3>1. Position(q) = 3
      <4>1. /\ 3 \in 1 .. Len(s) /\ s[3] = q.stage
            /\ \A m \in 1 .. Len(s) : s[m] = q.stage => m = 3
        BY <2>0, <2>3
      <4> QED
        BY <4>1, PositionIs DEF s
    <3> QED
      BY <2>0, <3>1 DEF s
  <2> QED
    BY <1>3, <2>1, <2>2, <2>3 DEF StageOK, NoRequest
<1>4. CASE q.op = "cancel"
  <2>0. /\ Len(s) = 2 /\ 1 .. 2 = {1, 2}
        /\ s[1] = "begin" /\ s[2] = "cancel"
    BY <1>4, ScriptsAre
  <2> HIDE DEF s
  <2>1. CASE q.stage = "begin"
    <3>1. Position(q) = 1
      <4>1. /\ 1 \in 1 .. Len(s) /\ s[1] = q.stage
            /\ \A m \in 1 .. Len(s) : s[m] = q.stage => m = 1
        BY <2>0, <2>1
      <4> QED
        BY <4>1, PositionIs DEF s
    <3> QED
      BY <1>0, <1>4, <2>0, <2>1, <3>1 DEF Follows
  <2>2. CASE q.stage = "cancel"
    <3>1. Position(q) = 2
      <4>1. /\ 2 \in 1 .. Len(s) /\ s[2] = q.stage
            /\ \A m \in 1 .. Len(s) : s[m] = q.stage => m = 2
        BY <2>0, <2>2
      <4> QED
        BY <4>1, PositionIs DEF s
    <3> QED
      BY <2>0, <3>1 DEF s
  <2> QED
    BY <1>4, <2>1, <2>2 DEF StageOK, NoRequest
<1>5. CASE q.op = "verify"
  <2>0. /\ Len(s) = 7 /\ 1 .. 7 = {1, 2, 3, 4, 5, 6, 7}
        /\ s[1] = "begin" /\ s[2] = "browser" /\ s[3] = "capture" /\ s[4] = "grab"
        /\ s[5] = "restart" /\ s[6] = "probe" /\ s[7] = "mark"
    BY <1>5, ScriptsAre
  <2> HIDE DEF s
  <2>1. CASE q.stage = "begin"
    <3>1. Position(q) = 1
      <4>1. /\ 1 \in 1 .. Len(s) /\ s[1] = q.stage
            /\ \A m \in 1 .. Len(s) : s[m] = q.stage => m = 1
        BY <2>0, <2>1
      <4> QED
        BY <4>1, PositionIs DEF s
    <3> QED
      BY <1>0, <1>5, <2>0, <2>1, <3>1 DEF Follows
  <2>2. CASE q.stage = "browser"
    <3>1. Position(q) = 2
      <4>1. /\ 2 \in 1 .. Len(s) /\ s[2] = q.stage
            /\ \A m \in 1 .. Len(s) : s[m] = q.stage => m = 2
        BY <2>0, <2>2
      <4> QED
        BY <4>1, PositionIs DEF s
    <3> QED
      BY <1>0, <1>5, <2>0, <2>2, <3>1 DEF Follows
  <2>3. CASE q.stage = "capture"
    <3>1. Position(q) = 3
      <4>1. /\ 3 \in 1 .. Len(s) /\ s[3] = q.stage
            /\ \A m \in 1 .. Len(s) : s[m] = q.stage => m = 3
        BY <2>0, <2>3
      <4> QED
        BY <4>1, PositionIs DEF s
    <3> QED
      BY <1>0, <1>5, <2>0, <2>3, <3>1 DEF Follows
  <2>4. CASE q.stage = "grab"
    <3>1. Position(q) = 4
      <4>1. /\ 4 \in 1 .. Len(s) /\ s[4] = q.stage
            /\ \A m \in 1 .. Len(s) : s[m] = q.stage => m = 4
        BY <2>0, <2>4
      <4> QED
        BY <4>1, PositionIs DEF s
    <3> QED
      BY <1>0, <1>5, <2>0, <2>4, <3>1 DEF Follows
  <2>5. CASE q.stage = "restart"
    <3>1. Position(q) = 5
      <4>1. /\ 5 \in 1 .. Len(s) /\ s[5] = q.stage
            /\ \A m \in 1 .. Len(s) : s[m] = q.stage => m = 5
        BY <2>0, <2>5
      <4> QED
        BY <4>1, PositionIs DEF s
    <3> QED
      BY <1>0, <1>5, <2>0, <2>5, <3>1 DEF Follows
  <2>6. CASE q.stage = "probe"
    <3>1. Position(q) = 6
      <4>1. /\ 6 \in 1 .. Len(s) /\ s[6] = q.stage
            /\ \A m \in 1 .. Len(s) : s[m] = q.stage => m = 6
        BY <2>0, <2>6
      <4> QED
        BY <4>1, PositionIs DEF s
    <3> QED
      BY <1>0, <1>5, <2>0, <2>6, <3>1 DEF Follows
  <2>7. CASE q.stage = "mark"
    <3>1. Position(q) = 7
      <4>1. /\ 7 \in 1 .. Len(s) /\ s[7] = q.stage
            /\ \A m \in 1 .. Len(s) : s[m] = q.stage => m = 7
        BY <2>0, <2>7
      <4> QED
        BY <4>1, PositionIs DEF s
    <3> QED
      BY <2>0, <3>1 DEF s
  <2> QED
    BY <1>5, <2>1, <2>2, <2>3, <2>4, <2>5, <2>6, <2>7 DEF StageOK, NoRequest
<1> QED
  BY <1>1, <1>2, <1>3, <1>4, <1>5 DEF RouteRow

LEMMA AdvanceSteps ==
    ASSUME LoginInv, NEW r \in Requests, request[r].op # "none", Advanced(r)
    PROVE  Abandoned(r) \/ \E next : Follows(request[r], next) /\ StepsTo(r, next)
<1>1. request[r] \in RouteRow /\ StageOK(request[r])
  BY DEF LoginInv, RoutesTypeOK, RouteOK
<1>2. CASE request[r].stage = "rollback" \/ Position(request[r]) = Len(Script[request[r].op])
  BY <1>2 DEF Advanced, Abandoned
<1>3. CASE ~(request[r].stage = "rollback" \/ Position(request[r]) = Len(Script[request[r].op]))
  <2>1. Follows(request[r], Following(request[r]))
    BY <1>1, <1>3, RouteFollows
  <2>2. StepsTo(r, Following(request[r]))
    BY <1>3, Zenon DEF Advanced, StepsTo
  <2> QED
    BY <2>1, <2>2
<1> QED
  BY <1>2, <1>3

\* A thread that nobody waits for any more ends like one that failed.
LEMMA OrphanLeaves ==
    ASSUME LoginInv, NEW r \in Requests, request[r].op = "none", Orphan(r) PROVE Abandoned(r)
<1>1. request[r] = NoRequest /\ request \in [Requests -> RouteRow]
  BY DEF LoginInv, RoutesTypeOK, RouteOK, StageOK
<1>2. request' = [request EXCEPT ![r] = NoRequest]
  BY <1>1 DEF Orphan
<1> QED
  BY <1>2 DEF Orphan, Abandoned, Ended

LEMMA FinishSteps ==
    ASSUME LoginInv, NEW r \in Requests, Finish(r)
    PROVE  Abandoned(r) \/ \E next : Follows(request[r], next) /\ StepsTo(r, next)
  BY AdvanceSteps, OrphanLeaves, Zenon DEF Finish

LEMMA FailLeaves ==
    ASSUME LoginInv, NEW r \in Requests, Fail(r) PROVE Abandoned(r)
  BY OrphanLeaves, Zenon DEF Fail

-----------------------------------------------------------------------------
(* What one route may do to the accounts the others are at work on. *)
EnvKept(r) ==
    /\ \A b \in Accounts :
          /\ account'[b] = account[b] \/ (request[r].op # "none" /\ request[r].on = b)
          /\ account'[b] = "ready" =>
                account[b] = "ready" \/ (request[r].op = "verify" /\ request[r].on = b)
          /\ stored'[b] = stored[b] \/ (request[r].op = "verify" /\ request[r].on = b)
          /\ loaded'[b] = loaded[b] \/ loaded'[b] = stored'[b]
          /\ runtime[b] = "running" =>
                runtime'[b] = "running" \/ (control[r].act = "rollback" /\ control[r].on = b)
          /\ runtime'[b] = runtime[b] \/ runtime[b] = "running" \/ lock \in {{}, {r}}
    /\ lock' = lock \/ lock \in {{}, {r}}

LEMMA RouteKeeps ==
    ASSUME LoginInv, NEW r \in Requests, HostTypeOK', EnvKept(r), ReadyIsLoaded', OneSession',
           NEW q \in RouteRow, NEW t \in ThreadRow,
           request' = [request EXCEPT ![r] = q], control' = [control EXCEPT ![r] = t],
           q.op = "none" \/ (q.op = request[r].op /\ q.on = request[r].on),
           t.act = "none" \/ (q.op # "none" /\ t.on = q.on)
               \/ (control[r].act # "none" /\ t.on = control[r].on),
           verifying' = IF q.op = "none" /\ request[r].op = "verify"
                        THEN verifying \ {request[r].on} ELSE verifying,
           RouteOK(r)',
           Making(r)' => Making(r) /\ account'[q.on] = "none",
           t.act = "rollback" => /\ account'[t.on] = "none"
                                 /\ \/ control[r].act = "rollback" /\ t.on = control[r].on
                                    \/ Making(r) /\ t.on = request[r].on
    PROVE  LoginInv'
<1>1. /\ RoutesTypeOK' /\ request'[r] = q /\ control'[r] = t
      /\ \A x \in Requests \ {r} : request'[x] = request[x] /\ control'[x] = control[x]
      /\ \A x \in Requests : request[x] \in RouteRow /\ control[x] \in ThreadRow
  BY DEF LoginInv, RoutesTypeOK
<1>2. ASSUME NEW x \in Requests, x # r PROVE RouteOK(x)' /\ NewIsAlone(x)'
  <2>1. /\ request'[x] = request[x] /\ control'[x] = control[x]
        /\ request[x].on \in Accounts /\ control[x].on \in Accounts /\ RouteOK(x) /\ NewIsAlone(x)
        /\ NewIsAlone(r)
    BY <1>1, <1>2 DEF LoginInv, RouteRow, ThreadRow
  <2>2. Verifies(x)'
    <3>1. request[x].op = "verify" => ~(request[r].op = "verify" /\ request[r].on = request[x].on)
      BY <1>2 DEF LoginInv, OneVerifier
    <3> QED
      BY <2>1, <3>1 DEF EnvKept, Verifies, RouteOK
  <2>3. Works(x)'
    <3>1. control[r].act = "rollback" => control[r].on # control[x].on \/ control[x].act = "none"
      BY <1>2, <2>1 DEF NewIsAlone, Alone
    <3>2. control[x].at = "boot" => lock = {x} /\ lock \notin {{}, {r}}
      BY <1>2, <2>1 DEF RouteOK, Works
    <3> QED
      BY <2>1, <3>1, <3>2 DEF EnvKept, Works, RouteOK
  <2>4. RouteOK(x)'
    BY <2>1, <2>2, <2>3 DEF RouteOK, Paired
  <2>5. ASSUME NEW a \in Accounts, Alone(x, a) PROVE Alone(x, a)'
    <3>1. account'[a] = "none"
      BY <1>2, <2>5 DEF Alone, EnvKept
    <3>2. ASSUME NEW y \in Requests \ {x}
          PROVE  /\ request'[y].op # "none" => request'[y].on # a
                 /\ control'[y].act # "none" => control'[y].on # a
      <4>1. CASE y = r
        BY <1>1, <1>2, <2>5, <4>1 DEF Alone
      <4>2. CASE y # r
        BY <1>1, <2>5, <4>2 DEF Alone
      <4> QED
        BY <4>1, <4>2
    <3> QED
      BY <3>1, <3>2 DEF Alone
  <2>6. NewIsAlone(x)'
    BY <2>1, <2>5 DEF NewIsAlone, Making
  <2> QED
    BY <2>4, <2>6
<1>3. NewIsAlone(r)'
  <2>1. ASSUME NEW a \in Accounts, Alone(r, a), account'[a] = "none" PROVE Alone(r, a)'
    BY <1>1, <2>1 DEF Alone
  <2>2. NewIsAlone(r) /\ q.on \in Accounts /\ t.on \in Accounts
    BY DEF LoginInv, RouteRow, ThreadRow
  <2>3. Making(r)' => Alone(r, q.on)'
    <3> SUFFICES ASSUME Making(r)' PROVE Alone(r, q.on)'
      OBVIOUS
    <3>1. q.op # "none"
      BY <1>1 DEF Making
    <3> QED
      BY <2>1, <2>2, <3>1 DEF NewIsAlone
  <2>4. t.act = "rollback" => Alone(r, t.on)'
    BY <2>1, <2>2 DEF NewIsAlone
  <2> QED
    BY <1>1, <2>3, <2>4 DEF NewIsAlone
<1>4. OneVerifier'
  BY <1>1 DEF LoginInv, OneVerifier
<1> QED
  BY <1>1, <1>2, <1>3, <1>4 DEF LoginInv

-----------------------------------------------------------------------------
(* The three ways a step of a route leaves it: over, a stage further, or with *)
(* its thread elsewhere.                                                     *)
LEMMA LeaveKeeps ==
    ASSUME LoginAssumption, LoginInv, NEW r \in Requests, Abandoned(r),
           HostTypeOK', EnvKept(r), ReadyIsLoaded', OneSession'
    PROVE  LoginInv'
<1>1. /\ request' = [request EXCEPT ![r] = NoRequest] /\ control' = [control EXCEPT ![r] = NoThread]
      /\ verifying' = IF request[r].op = "verify" THEN verifying \ {request[r].on} ELSE verifying
  BY DEF Abandoned, Ended
<1>2. /\ request \in [Requests -> RouteRow] /\ control \in [Requests -> ThreadRow]
  BY DEF LoginInv, RoutesTypeOK
<1>3. request'[r] = NoRequest /\ control'[r] = NoThread
  BY <1>1, <1>2
<1>4. RouteOK(r)' /\ ~Making(r)'
  BY <1>3, NothingRows DEF RouteOK, StageOK, ThreadOK, Paired, Verifies, Works, Making
<1>5. /\ NoRequest \in RouteRow /\ NoThread \in ThreadRow /\ NoRequest.op = "none"
      /\ NoThread.act = "none"
  BY NothingRows
<1> QED
  BY <1>1, <1>4, <1>5, RouteKeeps

LEMMA StepKeeps ==
    ASSUME LoginAssumption, LoginInv, NEW r \in Requests, NEW next,
           \/ Follows(request[r], next)
           \/ request[r].op = "onboard" /\ request[r].stage = "create" /\ next = "rollback",
           StepsTo(r, next), HostTypeOK', EnvKept(r), ReadyIsLoaded', OneSession',
           request[r].op = "verify" =>
               /\ account'[request[r].on] # "ready"
               /\ next \in {"probe", "mark"} => loaded'[request[r].on] = stored'[request[r].on]
               /\ next = "mark" => stored'[request[r].on] # 0
               /\ next = "restart" => runtime'[request[r].on] = "running",
           next \in {"create", "rollback"} => account'[request[r].on] = "none"
    PROVE  LoginInv'
<1> DEFINE q == [request[r] EXCEPT !.stage = next]
           t == Thread(q)
<1>1. /\ request' = [request EXCEPT ![r] = q] /\ control' = [control EXCEPT ![r] = t]
      /\ verifying' = verifying
  BY DEF StepsTo, Enter
<1>2. /\ request \in [Requests -> RouteRow] /\ control \in [Requests -> ThreadRow]
      /\ RouteOK(r) /\ NewIsAlone(r)
  BY DEF LoginInv, RoutesTypeOK
<1>3. /\ q \in RouteRow /\ q.op = request[r].op /\ q.on = request[r].on /\ q.stage = next
      /\ q.op # "none"
  <2>1. request[r] \in RouteRow
    BY <1>2
  <2>2. next \in {"none", "create", "update", "begin", "status", "browser", "grab", "probe",
                  "mark", "provision", "rollback", "open", "cancel", "capture", "restart"}
    BY DEF Follows
  <2>3. request[r].op # "none"
    BY DEF Follows
  <2> QED
    BY <2>1, <2>2, <2>3 DEF RouteRow
<1>4. StageOK(q)
  BY <1>3 DEF StageOK, Follows
<1> HIDE DEF q
<1>5. /\ t \in ThreadRow /\ ThreadOK(t) /\ t.at \notin {"boot", "service"}
      /\ q.stage \in Calls => t.act = q.stage /\ t.on = q.on
      /\ q.stage \notin Calls => t = NoThread
  BY <1>3, ThreadStarts
<1> HIDE DEF t
<1>6. request'[r] = q /\ control'[r] = t
  BY <1>1, <1>2
<1>7. t.act = "restart" => q.op = "verify" /\ next = "restart" /\ t.on = q.on
  <2>1. next = "restart" => q.op = "verify"
    BY <1>3 DEF Follows
  <2> QED
    BY <1>3, <1>5, <2>1, NothingRows
<1>8. Verifies(r)' /\ Works(r)'
  BY <1>3, <1>5, <1>6, <1>7 DEF Verifies, Works
<1>9. RouteOK(r)'
  BY <1>4, <1>5, <1>6, <1>8 DEF RouteOK, Paired
<1>10. next \in {"provision", "create", "rollback"} /\ q.op = "onboard"
       => next \in {"create", "rollback"} /\ Making(r)
  BY <1>3 DEF Follows, Making
<1>11. Making(r)' => Making(r) /\ account'[q.on] = "none"
  BY <1>3, <1>6, <1>10 DEF Making
<1>12. t.act = "rollback" => Making(r) /\ t.on = request[r].on /\ account'[t.on] = "none"
  <2>1. t.act = "rollback" => next = "rollback" /\ t.on = q.on
    BY <1>3, <1>5, NothingRows
  <2>2. next = "rollback" => q.op = "onboard"
    BY <1>3 DEF Follows
  <2> QED
    BY <1>3, <1>10, <2>1, <2>2
<1>13. t.act = "none" \/ (q.op # "none" /\ t.on = q.on)
  BY <1>3, <1>5, NothingRows
<1> QED
  BY <1>1, <1>3, <1>5, <1>9, <1>11, <1>12, <1>13, RouteKeeps

LEMMA GoKeeps ==
    ASSUME LoginAssumption, LoginInv, NEW r \in Requests, control[r].act # "none",
           NEW at \in {"boot", "stop", "unlink", "launch", "spawn", "pid", "deadPid", "wait",
                       "issue", "revoke", "service"},
           Goes(r, at), HostTypeOK', EnvKept(r), OneSession', UNCHANGED <<account, loaded, stored>>,
           ThreadOK([control[r] EXCEPT !.at = at]),
           control[r].act = "restart" => runtime'[control[r].on] = "running",
           at = "boot" => runtime'[control[r].on] = "entry" /\ lock' = {r}
    PROVE  LoginInv'
<1> DEFINE t == [control[r] EXCEPT !.at = at]
<1>1. /\ request' = [request EXCEPT ![r] = request[r]] /\ control' = [control EXCEPT ![r] = t]
      /\ verifying' = verifying /\ request' = request
  BY DEF Goes, LoginInv, RoutesTypeOK
<1>2. /\ request \in [Requests -> RouteRow] /\ control \in [Requests -> ThreadRow]
      /\ RouteOK(r) /\ NewIsAlone(r) /\ request[r] \in RouteRow /\ control[r] \in ThreadRow
  BY DEF LoginInv, RoutesTypeOK
<1>3. t \in ThreadRow /\ t.act = control[r].act /\ t.on = control[r].on /\ t.at = at /\ ThreadOK(t)
  BY <1>2 DEF ThreadRow
<1> HIDE DEF t
<1>4. request'[r] = request[r] /\ control'[r] = t
  BY <1>1, <1>2
<1>5. Paired(r)'
  BY <1>2, <1>3, <1>4, NothingRows DEF RouteOK, Paired
<1>6. RouteOK(r)'
  BY <1>2, <1>3, <1>4, <1>5 DEF RouteOK, Verifies, Works
<1>7. Making(r)' => Making(r) /\ account'[request[r].on] = "none"
  BY <1>2, <1>4 DEF Making, NewIsAlone, Alone
<1>8. t.act = "rollback" => account'[t.on] = "none"
  BY <1>2, <1>3 DEF NewIsAlone, Alone
<1>9. ReadyIsLoaded'
  BY DEF LoginInv, ReadyIsLoaded
<1> QED
  BY <1>1, <1>2, <1>3, <1>6, <1>7, <1>8, <1>9, RouteKeeps

\* A step that leaves the accounts, the workers and the lock alone.
LEMMA QuietEnv ==
    ASSUME LoginInv, NEW r, UNCHANGED <<account, runtime, loaded, stored, lock>>
    PROVE  EnvKept(r) /\ ReadyIsLoaded'
  BY DEF LoginInv, ReadyIsLoaded, EnvKept

RuntimeStays == \A a \in Accounts : runtime[a] = "running" /\ runtime'[a] = "none" =>
    account[a] = "none" /\ stored[a] = 0

-----------------------------------------------------------------------------
(* The routes of the gateway. *)
LEMMA RouteFacts ==
    ASSUME LoginAssumption, LoginInv, NEW r \in Requests
    PROVE  /\ request[r] \in RouteRow /\ control[r] \in ThreadRow
           /\ RouteOK(r) /\ NewIsAlone(r) /\ request[r].on \in Accounts /\ control[r].on \in Accounts
           /\ request[r].stage # "none" => request[r].op # "none"
  BY NothingRows DEF LoginInv, RoutesTypeOK, RouteOK, StageOK, RouteRow, ThreadRow

\* The stages that one operation has.
LEMMA StageTells ==
    ASSUME LoginAssumption, LoginInv, NEW r \in Requests
    PROVE  /\ request[r].stage \in {"create", "rollback"} => request[r].op = "onboard"
           /\ request[r].stage = "update" => request[r].op = "prepare"
           /\ request[r].stage = "status" => request[r].op = "start"
           /\ request[r].stage \in {"browser", "capture", "grab", "restart", "probe", "mark"} =>
                request[r].op = "verify"
<1>1. StageOK(request[r]) /\ NoRequest.stage = "none"
  BY RouteFacts, NothingRows DEF RouteOK
<1> QED
  BY <1>1 DEF StageOK

LEMMA GivesUpStep ==
    ASSUME LoginAssumption, LoginInv, NEW r \in Requests, GatewayGivesUp(r)
    PROVE  LoginInv' /\ RuntimeStays
<1>1. /\ request' = [request EXCEPT ![r] = NoRequest] /\ control' = [control EXCEPT ![r] = control[r]]
      /\ verifying' = IF request[r].op = "verify" THEN verifying \ {request[r].on} ELSE verifying
      /\ UNCHANGED <<account, runtime, loaded, stored, lock, profile, chrome, pidFile, session>>
      /\ control' = control
  BY DEF GatewayGivesUp, Ended, hostVars, LoginInv, RoutesTypeOK
<1>2. HostTypeOK' /\ OneSession' /\ EnvKept(r) /\ ReadyIsLoaded'
  BY <1>1, QuietEnv DEF LoginInv, HostTypeOK, OneSession
<1>3. request'[r] = NoRequest /\ control'[r] = control[r]
  BY <1>1 DEF LoginInv, RoutesTypeOK
<1>4. RouteOK(r)' /\ ~Making(r)'
  BY <1>1, <1>3, RouteFacts, NothingRows DEF RouteOK, StageOK, Paired, Verifies, Works, Making
<1>5. control[r].act = "rollback" => account'[control[r].on] = "none"
  BY <1>1, RouteFacts DEF NewIsAlone, Alone
<1>6. NoRequest \in RouteRow /\ NoRequest.op = "none"
  BY NothingRows
<1>7. LoginInv'
  BY <1>1, <1>2, <1>4, <1>5, <1>6, RouteFacts, RouteKeeps
<1> QED
  BY <1>1, <1>7 DEF RuntimeStays

\* Of the gateway's own records only the account's status changes.
LEMMA AccountEnv ==
    ASSUME LoginInv, NEW r \in Requests, NEW status \in {"new", "disabled", "reauth_required"},
           request[r].op # "none", UNCHANGED hostVars,
           account' = [account EXCEPT ![request[r].on] = status] \/ account' = account
    PROVE  HostTypeOK' /\ OneSession' /\ EnvKept(r) /\ ReadyIsLoaded' /\ RuntimeStays
<1>1. UNCHANGED <<runtime, loaded, stored, lock, profile, chrome, pidFile, session>>
  BY DEF hostVars
<1>2. account \in [Accounts -> {"none", "new", "disabled", "reauth_required", "ready"}]
  BY DEF LoginInv, HostTypeOK
<1>3. /\ account' \in [Accounts -> {"none", "new", "disabled", "reauth_required", "ready"}]
      /\ \A b \in Accounts : /\ account'[b] = account[b] \/ request[r].on = b
                             /\ account'[b] = "ready" => account[b] = "ready"
  BY <1>2
<1> QED
  BY <1>1, <1>3 DEF LoginInv, HostTypeOK, OneSession, EnvKept, ReadyIsLoaded, RuntimeStays

LEMMA CreateStep ==
    ASSUME LoginAssumption, LoginInv, NEW r \in Requests, Create(r) PROVE LoginInv' /\ RuntimeStays
<1>1. /\ request[r].op = "onboard" /\ request[r].stage = "create" /\ UNCHANGED hostVars
      /\ Alone(r, request[r].on) /\ request[r].on \in Accounts
  <2>1. request[r].stage = "create" /\ UNCHANGED hostVars
    BY DEF Create, At
  <2>2. request[r].op = "onboard"
    BY <2>1, StageTells
  <2> QED
    BY <2>1, <2>2, RouteFacts DEF NewIsAlone, Making
<1>2. HostTypeOK' /\ OneSession' /\ EnvKept(r) /\ ReadyIsLoaded' /\ RuntimeStays
  <2>1. account' = [account EXCEPT ![request[r].on] = "new"] \/ account' = account
    BY DEF Create
  <2> QED
    BY <1>1, <2>1, AccountEnv
<1>3. CASE Abandoned(r)
  BY <1>2, <1>3, LeaveKeeps
<1>4. CASE Advanced(r)
  <2>1. ASSUME NEW next, Follows(request[r], next), StepsTo(r, next) PROVE LoginInv'
    <3>1. next = "begin"
      BY <1>1, <2>1 DEF Follows
    <3> QED
      BY <1>1, <1>2, <2>1, <3>1, StepKeeps
  <2> QED
    BY <1>1, <1>2, <1>4, <2>1, AdvanceSteps, LeaveKeeps
<1>5. CASE Enter(r, [request[r] EXCEPT !.stage = "rollback"]) /\ UNCHANGED account
  <2>1. StepsTo(r, "rollback")
    BY <1>5 DEF StepsTo
  <2>2. account'[request[r].on] = "none"
    BY <1>1, <1>5 DEF Alone
  <2> QED
    BY <1>1, <1>2, <2>1, <2>2, StepKeeps
<1> QED
  BY <1>3, <1>4, <1>5 DEF Create

LEMMA UpdateStep ==
    ASSUME LoginAssumption, LoginInv, NEW r \in Requests, Update(r) PROVE LoginInv' /\ RuntimeStays
<1>1. /\ request[r].op = "prepare" /\ request[r].stage = "update" /\ UNCHANGED hostVars
      /\ account' = [account EXCEPT ![request[r].on] = "disabled"] /\ Advanced(r)
  <2>1. /\ request[r].stage = "update" /\ UNCHANGED hostVars /\ Advanced(r)
        /\ account' = [account EXCEPT ![request[r].on] = "disabled"]
    BY DEF Update, At
  <2> QED
    BY <2>1, StageTells
<1>2. HostTypeOK' /\ OneSession' /\ EnvKept(r) /\ ReadyIsLoaded' /\ RuntimeStays
  BY <1>1, AccountEnv
<1>3. ASSUME NEW next, Follows(request[r], next), StepsTo(r, next) PROVE LoginInv'
  <2>1. next = "begin"
    BY <1>1, <1>3 DEF Follows
  <2> QED
    BY <1>1, <1>2, <1>3, <2>1, StepKeeps
<1> QED
  BY <1>1, <1>2, <1>3, AdvanceSteps, LeaveKeeps

LEMMA BeginReauthStep ==
    ASSUME LoginAssumption, LoginInv, NEW r \in Requests, BeginReauth(r)
    PROVE  LoginInv' /\ RuntimeStays
<1>1. /\ request[r].op # "none" /\ request[r].stage = "begin" /\ UNCHANGED hostVars
      /\ request[r].on \in Accounts
  BY RouteFacts DEF BeginReauth, At
<1>2. HostTypeOK' /\ OneSession' /\ EnvKept(r) /\ ReadyIsLoaded' /\ RuntimeStays
  <2>1. account' = [account EXCEPT ![request[r].on] = "reauth_required"] \/ account' = account
    BY DEF BeginReauth
  <2> QED
    BY <1>1, <2>1, AccountEnv
<1>3. CASE Abandoned(r)
  BY <1>2, <1>3, LeaveKeeps
<1>4. CASE account' = [account EXCEPT ![request[r].on] = "reauth_required"] /\ Advanced(r)
  <2>1. ASSUME NEW next, Follows(request[r], next), StepsTo(r, next) PROVE LoginInv'
    <3>1. next \in {"open", "cancel", "browser"}
      BY <1>1, <2>1 DEF Follows
    <3>2. account'[request[r].on] = "reauth_required"
      BY <1>1, <1>4 DEF LoginInv, HostTypeOK
    <3> QED
      BY <1>1, <1>2, <2>1, <3>1, <3>2, StepKeeps
  <2> QED
    BY <1>1, <1>2, <1>4, <2>1, AdvanceSteps, LeaveKeeps
<1> QED
  BY <1>2, <1>3, <1>4 DEF BeginReauth

\* Looks, and goes on or gives up.
LEMMA LooksStep ==
    ASSUME LoginAssumption, LoginInv, NEW r \in Requests, Status(r) \/ CheckBrowser(r)
    PROVE  LoginInv' /\ RuntimeStays
<1>1. /\ request[r].stage \in {"status", "browser"} /\ UNCHANGED <<account, hostVars>>
      /\ Abandoned(r) \/ Advanced(r)
  BY DEF Status, CheckBrowser, At
<1>2. request[r].op # "none" /\ request[r].on \in Accounts /\ RouteOK(r)
  BY <1>1, RouteFacts
<1>3. HostTypeOK' /\ OneSession' /\ EnvKept(r) /\ ReadyIsLoaded' /\ RuntimeStays
  BY <1>1, <1>2, AccountEnv
<1>4. ASSUME NEW next, Follows(request[r], next), StepsTo(r, next) PROVE LoginInv'
  <2>1. next \in {"begin", "capture", "grab"}
    BY <1>1, <1>4 DEF Follows
  <2>2. request[r].op = "verify" => account'[request[r].on] # "ready"
    BY <1>1, <1>2 DEF RouteOK, Verifies
  <2> QED
    BY <1>2, <1>3, <1>4, <2>1, <2>2, StepKeeps
<1> QED
  BY <1>1, <1>2, <1>3, <1>4, AdvanceSteps, LeaveKeeps

LEMMA ProbeStep ==
    ASSUME LoginAssumption, LoginInv, NEW r \in Requests, Probe(r) PROVE LoginInv' /\ RuntimeStays
<1>1. /\ request[r].stage = "probe" /\ UNCHANGED <<account, hostVars>>
      /\ Abandoned(r) \/ (loaded[request[r].on] # 0 /\ Advanced(r))
  BY DEF Probe, At
<1>2. /\ request[r].op = "verify" /\ request[r].on \in Accounts /\ account[request[r].on] # "ready"
      /\ loaded[request[r].on] = stored[request[r].on]
  BY <1>1, RouteFacts, StageTells DEF RouteOK, Verifies
<1>3. HostTypeOK' /\ OneSession' /\ EnvKept(r) /\ ReadyIsLoaded' /\ RuntimeStays
  BY <1>1, <1>2, AccountEnv
<1>4. CASE Abandoned(r)
  BY <1>3, <1>4, LeaveKeeps
<1>5. CASE loaded[request[r].on] # 0 /\ Advanced(r)
  <2>1. ASSUME NEW next, Follows(request[r], next), StepsTo(r, next) PROVE LoginInv'
    <3>1. next = "mark"
      BY <1>1, <2>1 DEF Follows
    <3>2. /\ account'[request[r].on] # "ready" /\ loaded'[request[r].on] = stored'[request[r].on]
          /\ stored'[request[r].on] # 0
      BY <1>1, <1>2, <1>5 DEF hostVars
    <3> QED
      BY <1>2, <1>3, <2>1, <3>1, <3>2, StepKeeps
  <2> QED
    BY <1>2, <1>3, <1>5, <2>1, AdvanceSteps, LeaveKeeps
<1> QED
  BY <1>1, <1>3, <1>4, <1>5

LEMMA MarkStep ==
    ASSUME LoginAssumption, LoginInv, NEW r \in Requests, MarkProbe(r)
    PROVE  LoginInv' /\ RuntimeStays
<1>1. /\ request[r].stage = "mark" /\ UNCHANGED hostVars /\ Advanced(r)
      /\ account' = [account EXCEPT ![request[r].on] = "ready"]
  BY DEF MarkProbe, At
<1>2. /\ request[r].op = "verify" /\ request[r].on \in Accounts
      /\ loaded[request[r].on] = stored[request[r].on] /\ stored[request[r].on] # 0
  BY <1>1, RouteFacts, StageTells DEF RouteOK, Verifies
<1>3. /\ account' \in [Accounts -> {"none", "new", "disabled", "reauth_required", "ready"}]
      /\ \A b \in Accounts : account'[b] = account[b] \/ b = request[r].on
      /\ UNCHANGED <<runtime, loaded, stored, profile, chrome, pidFile, session, lock>>
  BY <1>1 DEF LoginInv, HostTypeOK, hostVars
<1>4. HostTypeOK' /\ OneSession' /\ EnvKept(r) /\ ReadyIsLoaded' /\ RuntimeStays
  BY <1>2, <1>3 DEF LoginInv, HostTypeOK, OneSession, EnvKept, ReadyIsLoaded, RuntimeStays
<1>5. ASSUME NEW next PROVE ~Follows(request[r], next)
  BY <1>1 DEF Follows
<1> QED
  BY <1>1, <1>2, <1>4, <1>5, AdvanceSteps, LeaveKeeps

LEMMA GrabStep ==
    ASSUME LoginAssumption, LoginInv, NEW r \in Requests, Grab(r) PROVE LoginInv' /\ RuntimeStays
<1> DEFINE a == request[r].on
<1>1. /\ request[r].stage = "grab"
      /\ UNCHANGED <<account, runtime, loaded, profile, chrome, pidFile, session, lock>>
      /\ \/ Abandoned(r) /\ UNCHANGED stored
         \/ /\ runtime[a] = "running" /\ Advanced(r)
            /\ stored' = [stored EXCEPT ![a] = profile[a]]
  BY DEF Grab, At
<1>2. request[r].op = "verify" /\ a \in Accounts /\ account[a] # "ready"
  BY <1>1, RouteFacts, StageTells DEF RouteOK, Verifies
<1> HIDE DEF a
<1>3. stored' \in [Accounts -> 0 .. MaxLogins] /\ \A b \in Accounts : stored'[b] = stored[b] \/ b = a
  <2>1. /\ stored \in [Accounts -> 0 .. MaxLogins] /\ profile[a] \in 0 .. MaxLogins
        /\ UNCHANGED stored \/ stored' = [stored EXCEPT ![a] = profile[a]]
    BY <1>1, <1>2 DEF LoginInv, HostTypeOK
  <2> QED
    BY <2>1
<1>4. HostTypeOK' /\ OneSession' /\ EnvKept(r) /\ ReadyIsLoaded' /\ RuntimeStays
  <2>1. HostTypeOK' /\ OneSession' /\ RuntimeStays
    BY <1>1, <1>3 DEF LoginInv, HostTypeOK, OneSession, RuntimeStays
  <2>2. EnvKept(r)
    BY <1>1, <1>2, <1>3 DEF EnvKept, a
  <2>3. ReadyIsLoaded'
    BY <1>1, <1>2, <1>3 DEF LoginInv, ReadyIsLoaded
  <2> QED
    BY <2>1, <2>2, <2>3
<1>5. CASE Abandoned(r)
  BY <1>4, <1>5, LeaveKeeps
<1>6. CASE runtime[a] = "running" /\ Advanced(r)
  <2>1. ASSUME NEW next, Follows(request[r], next), StepsTo(r, next) PROVE LoginInv'
    <3>1. next = "restart"
      BY <1>1, <2>1 DEF Follows
    <3>2. account'[request[r].on] # "ready" /\ runtime'[request[r].on] = "running"
      BY <1>1, <1>2, <1>6 DEF a
    <3> QED
      BY <1>2, <1>4, <2>1, <3>1, <3>2, StepKeeps
  <2> QED
    BY <1>2, <1>4, <1>6, <2>1, AdvanceSteps, LeaveKeeps
<1> QED
  BY <1>1, <1>4, <1>5, <1>6

LEMMA BeginStep ==
    ASSUME LoginAssumption, LoginInv, NEW r \in Requests, NEW op \in DOMAIN Script,
           NEW a \in Accounts, Begin(r, op, a)
    PROVE  LoginInv' /\ RuntimeStays
<1> DEFINE q == [op |-> op, on |-> a, stage |-> Script[op][1]]
           t == Thread(q)
<1>1. /\ request[r] = NoRequest /\ control[r] = NoThread
      /\ request' = [request EXCEPT ![r] = q] /\ control' = [control EXCEPT ![r] = t]
      /\ verifying' = IF op = "verify" THEN verifying \cup {a} ELSE verifying
      /\ op = "onboard" => Fresh(a)
      /\ op # "onboard" => account[a] # "none"
      /\ op = "verify" => a \notin verifying
      /\ UNCHANGED <<account, runtime, loaded, stored, profile, chrome, pidFile, session, lock>>
  BY DEF Begin, hostVars
<1>2. q \in RouteRow /\ StageOK(q) /\ q.op = op /\ q.on = a /\ op # "none"
      /\ (op = "verify" => q.stage = "begin") /\ q.stage \notin {"rollback", "restart", "none"}
      /\ (q.stage \in {"provision", "create", "rollback"} => op \in {"onboard", "prepare"})
  BY ScriptsAre DEF RouteRow, StageOK
<1> HIDE DEF q
<1>3. /\ t \in ThreadRow /\ ThreadOK(t) /\ t.at \notin {"boot", "service"}
      /\ q.stage \in Calls => t.act = q.stage /\ t.on = q.on
      /\ q.stage \notin Calls => t = NoThread
  BY <1>2, ThreadStarts
<1> HIDE DEF t
<1>4. /\ request'[r] = q /\ control'[r] = t /\ RoutesTypeOK'
      /\ \A x \in Requests \ {r} : request'[x] = request[x] /\ control'[x] = control[x]
  BY <1>1, <1>2, <1>3 DEF LoginInv, RoutesTypeOK
<1>5. HostTypeOK' /\ ReadyIsLoaded' /\ OneSession' /\ RuntimeStays
  BY <1>1 DEF LoginInv, HostTypeOK, ReadyIsLoaded, OneSession, RuntimeStays
<1>6. OneVerifier'
  BY <1>1, <1>2, <1>4 DEF LoginInv, OneVerifier
<1>7. t.act \notin {"rollback", "restart"} /\ (t.act # "none" => t.on = a)
  BY <1>2, <1>3, NothingRows
<1>8. RouteOK(r)'
  BY <1>2, <1>3, <1>4, <1>7 DEF RouteOK, Paired, Verifies, Works
<1>9. NewIsAlone(r)'
  <2>1. op = "onboard" => Alone(r, a)'
    BY <1>1, <1>4 DEF Fresh, Alone
  <2> QED
    BY <1>2, <1>4, <1>7, <2>1 DEF NewIsAlone, Making
<1>10. ASSUME NEW x \in Requests, x # r PROVE RouteOK(x)' /\ NewIsAlone(x)'
  <2>1. RouteOK(x)'
    BY <1>1, <1>4, <1>10 DEF LoginInv, RouteOK, Paired, Verifies, Works
  <2>2. ASSUME NEW b \in Accounts, Alone(x, b),
               \/ request[x].op # "none" /\ request[x].on = b
               \/ control[x].act # "none" /\ control[x].on = b
        PROVE  Alone(x, b)'
    <3>1. a # b
      BY <1>1, <2>2 DEF Fresh, Alone
    <3> QED
      BY <1>1, <1>2, <1>4, <1>7, <2>2, <3>1 DEF Alone
  <2>3. NewIsAlone(x)'
    BY <1>4, <1>10, <2>2, RouteFacts DEF NewIsAlone, Making
  <2> QED
    BY <2>1, <2>3
<1> QED
  BY <1>4, <1>5, <1>6, <1>8, <1>9, <1>10 DEF LoginInv

-----------------------------------------------------------------------------
(* The threads of the control service. *)
LEMMA ThreadFacts ==
    ASSUME LoginAssumption, LoginInv, NEW r \in Requests, control[r].at # "none"
    PROVE  /\ control[r] \in ThreadRow /\ ThreadOK(control[r]) /\ control[r].act # "none"
           /\ control[r].on \in Accounts
           /\ request[r].op # "none" => request[r].stage = control[r].act
                                        /\ request[r].on = control[r].on
  BY RouteFacts, NothingRows, CallsAre DEF RouteOK, ThreadOK, Paired

\* What a thread does but for the workers.
LEMMA QuietKeeps ==
    ASSUME LoginAssumption, LoginInv, NEW r \in Requests, HostTypeOK', OneSession',
           UNCHANGED <<account, runtime, loaded, stored, lock>>, control[r].at # "none",
           \/ Fail(r)
           \/ Finish(r) /\ control[r].act \in {"open", "cancel", "capture"}
           \/ \E at \in {"stop", "unlink"} :
                 Goes(r, at) /\ control[r].act \in {"open", "capture", "cancel", "restart"}
           \/ \E at \in {"launch", "spawn", "pid", "deadPid", "wait", "issue"} :
                 Goes(r, at) /\ control[r].act \in {"open", "capture"}
           \/ Goes(r, "revoke") /\ control[r].act \in {"cancel", "restart"}
           \/ Goes(r, "service") /\ control[r].act = "restart"
    PROVE  LoginInv' /\ RuntimeStays
<1>1. EnvKept(r) /\ ReadyIsLoaded' /\ RuntimeStays
  BY QuietEnv DEF RuntimeStays
<1>2. CASE Fail(r)
  BY <1>1, <1>2, FailLeaves, LeaveKeeps
<1>3. CASE Finish(r) /\ control[r].act \in {"open", "cancel", "capture"}
  <2>1. ASSUME NEW next, Follows(request[r], next), StepsTo(r, next) PROVE LoginInv'
    <3>1. request[r].op # "none" /\ request[r].stage \in {"open", "cancel", "capture"}
      BY <1>3, <2>1, ThreadFacts DEF Follows
    <3>2. next = "grab" /\ request[r].stage = "capture"
      BY <2>1, <3>1 DEF Follows
    <3>3. account'[request[r].on] # "ready"
      BY <3>1, <3>2, StageTells, RouteFacts DEF RouteOK, Verifies
    <3> QED
      BY <1>1, <2>1, <3>2, <3>3, StepKeeps
  <2> QED
    BY <1>1, <1>3, <2>1, FinishSteps, LeaveKeeps
<1>4. ASSUME NEW at \in {"stop", "unlink", "launch", "spawn", "pid", "deadPid", "wait", "issue",
                         "revoke", "service"},
             Goes(r, at), control[r].act \in {"open", "capture", "cancel", "restart"},
             ThreadOK([control[r] EXCEPT !.at = at])
      PROVE  LoginInv'
  <2>1. control[r].act = "restart" => runtime'[control[r].on] = "running"
    BY RouteFacts DEF RouteOK, Works
  <2> QED
    BY <1>1, <1>4, <2>1, GoKeeps
<1>5. ASSUME NEW at \in {"stop", "unlink"}, Goes(r, at),
             control[r].act \in {"open", "capture", "cancel", "restart"}
      PROVE  LoginInv'
  <2>1. ThreadOK([control[r] EXCEPT !.at = at])
    BY <1>5, ThreadFacts DEF ThreadOK, ThreadRow
  <2> QED
    BY <1>4, <1>5, <2>1
<1>6. ASSUME NEW at \in {"launch", "spawn", "pid", "deadPid", "wait", "issue"}, Goes(r, at),
             control[r].act \in {"open", "capture"}
      PROVE  LoginInv'
  <2>1. ThreadOK([control[r] EXCEPT !.at = at])
    BY <1>6, ThreadFacts DEF ThreadOK, ThreadRow
  <2> QED
    BY <1>4, <1>6, <2>1
<1>7. CASE Goes(r, "revoke") /\ control[r].act \in {"cancel", "restart"}
  <2>1. ThreadOK([control[r] EXCEPT !.at = "revoke"])
    BY <1>7, ThreadFacts DEF ThreadOK, ThreadRow
  <2> QED
    BY <1>1, <1>4, <1>7, <2>1
<1>8. CASE Goes(r, "service") /\ control[r].act = "restart"
  <2>1. ThreadOK([control[r] EXCEPT !.at = "service"])
    BY <1>8, ThreadFacts DEF ThreadOK, ThreadRow
  <2> QED
    BY <1>1, <1>4, <1>8, <2>1
<1> QED
  BY <1>1, <1>2, <1>3, <1>5, <1>6, <1>7, <1>8

\* Nothing else of the host has to do with that.
LEMMA HostKeeps ==
    ASSUME LoginInv,
           UNCHANGED <<account, runtime, loaded, stored, profile, session, lock>>,
           chrome' \in [Accounts -> {"none", "starting", "manual", "ready"}],
           pidFile' \in [Accounts -> {"none", "right", "dead"}]
    PROVE  HostTypeOK' /\ OneSession'
  BY DEF LoginInv, HostTypeOK, OneSession

LEMMA LookStep ==
    ASSUME LoginAssumption, LoginInv, NEW r \in Requests, Look(r) PROVE LoginInv' /\ RuntimeStays
<1> DEFINE step == FirstStep(control[r].act, control[r].on)
<1>1. /\ control[r].at = "look"
      /\ UNCHANGED <<account, runtime, loaded, stored, profile, chrome, pidFile, session, lock>>
  BY DEF Look, hostVars
<1>2. HostTypeOK' /\ OneSession'
  BY <1>1, HostKeeps DEF LoginInv, HostTypeOK
<1>3. control[r].act \in {"open", "capture", "cancel", "restart"}
  BY <1>1, ThreadFacts DEF ThreadOK, ThreadRow
<1>4. /\ step \in {"fail", "done", "stop", "launch"} /\ (step = "done" => control[r].act = "capture")
      /\ step = "launch" => control[r].act = "open"
  BY <1>3 DEF FirstStep
<1>5. CASE step = "fail"
  <2>1. Fail(r)
    BY <1>5 DEF Look
  <2> QED
    BY <1>1, <1>2, <2>1, QuietKeeps
<1>6. CASE step = "done"
  <2>1. Finish(r)
    BY <1>6 DEF Look
  <2> QED
    BY <1>1, <1>2, <1>4, <1>6, <2>1, QuietKeeps
<1>7. CASE step = "stop"
  <2>1. Goes(r, "stop")
    BY <1>7 DEF Look
  <2> QED
    BY <1>1, <1>2, <1>3, <2>1, QuietKeeps
<1>8. CASE step = "launch"
  <2>1. Goes(r, "launch")
    BY <1>8 DEF Look
  <2> QED
    BY <1>1, <1>2, <1>4, <1>8, <2>1, QuietKeeps
<1> QED
  BY <1>4, <1>5, <1>6, <1>7, <1>8

\* Where a thread goes once the browser is stopped.
LEMMA AfterStopping ==
    ASSUME LoginAssumption, LoginInv, NEW r \in Requests, control[r].at \in {"stop", "unlink"},
           Goes(r, AfterStop(control[r].act))
    PROVE  \/ Goes(r, "launch") /\ control[r].act \in {"open", "capture"}
           \/ Goes(r, "revoke") /\ control[r].act \in {"cancel", "restart"}
<1>1. control[r].act \in {"open", "capture", "cancel", "restart"}
  BY ThreadFacts DEF ThreadOK, ThreadRow
<1>2. CASE control[r].act \in {"open", "capture"}
  BY <1>2 DEF AfterStop
<1>3. CASE control[r].act \in {"cancel", "restart"}
  BY <1>3 DEF AfterStop
<1> QED
  BY <1>1, <1>2, <1>3

LEMMA StopStep ==
    ASSUME LoginAssumption, LoginInv, NEW r \in Requests, StopChrome(r) \/ Unlink(r)
    PROVE  LoginInv' /\ RuntimeStays
<1>1. /\ control[r].at \in {"stop", "unlink"}
      /\ UNCHANGED <<account, runtime, loaded, stored, profile, session, lock>>
      /\ \/ Fail(r) \/ Goes(r, AfterStop(control[r].act)) \/ Goes(r, "unlink")
      /\ chrome' = chrome \/ chrome' = [chrome EXCEPT ![control[r].on] = "none"]
      /\ pidFile' = pidFile \/ pidFile' = [pidFile EXCEPT ![control[r].on] = "none"]
  BY DEF StopChrome, Unlink
<1>2. HostTypeOK' /\ OneSession'
  <2>0. /\ chrome \in [Accounts -> {"none", "starting", "manual", "ready"}]
        /\ pidFile \in [Accounts -> {"none", "right", "dead"}]
    BY DEF LoginInv, HostTypeOK
  <2>1. /\ chrome' \in [Accounts -> {"none", "starting", "manual", "ready"}]
        /\ pidFile' \in [Accounts -> {"none", "right", "dead"}]
    BY <1>1, <2>0
  <2> QED
    BY <1>1, <2>1, HostKeeps
<1>3. control[r].act \in {"open", "capture", "cancel", "restart"}
  BY <1>1, ThreadFacts DEF ThreadOK, ThreadRow
<1> QED
  BY <1>1, <1>2, <1>3, AfterStopping, QuietKeeps

LEMMA OpenedKeeps ==
    ASSUME LoginAssumption, LoginInv, NEW r \in Requests, control[r].at \in {"launch", "wait"},
           HostTypeOK', OneSession', UNCHANGED <<account, runtime, loaded, stored, lock>>, Opened(r)
    PROVE  LoginInv' /\ RuntimeStays
<1>1. control[r].act \in {"open", "capture"}
  BY ThreadFacts DEF ThreadOK, ThreadRow
<1>2. CASE control[r].act = "open"
  <2>1. Goes(r, "issue")
    BY <1>2 DEF Opened
  <2> QED
    BY <1>1, <2>1, QuietKeeps
<1>3. CASE control[r].act = "capture"
  <2>1. Finish(r)
    BY <1>3 DEF Opened
  <2> QED
    BY <1>3, <2>1, QuietKeeps
<1> QED
  BY <1>1, <1>2, <1>3

LEMMA LaunchStep ==
    ASSUME LoginAssumption, LoginInv, NEW r \in Requests, Launch(r) \/ AwaitChrome(r)
    PROVE  LoginInv' /\ RuntimeStays
<1>1. /\ control[r].at \in {"launch", "wait"} /\ (Opened(r) \/ Fail(r) \/ Goes(r, "spawn"))
      /\ UNCHANGED <<account, runtime, loaded, stored, profile, chrome, pidFile, session, lock>>
  BY DEF Launch, AwaitChrome, hostVars
<1>2. HostTypeOK' /\ OneSession'
  BY <1>1, HostKeeps DEF LoginInv, HostTypeOK
<1>3. control[r].act \in {"open", "capture"}
  BY <1>1, ThreadFacts DEF ThreadOK, ThreadRow
<1> QED
  BY <1>1, <1>2, <1>3, OpenedKeeps, QuietKeeps

LEMMA SpawnStep ==
    ASSUME LoginAssumption, LoginInv, NEW r \in Requests, Spawn(r) \/ WritePid(r)
    PROVE  LoginInv' /\ RuntimeStays
<1>1. /\ control[r].at \in {"spawn", "pid", "deadPid"}
      /\ UNCHANGED <<account, runtime, loaded, stored, profile, session, lock>>
      /\ Goes(r, "pid") \/ Goes(r, "deadPid") \/ Goes(r, "wait") \/ Fail(r)
      /\ \E how \in {"manual", "starting"} :
            chrome' = chrome \/ chrome' = [chrome EXCEPT ![control[r].on] = how]
      /\ \E how \in {"right", "dead"} :
            pidFile' = pidFile \/ pidFile' = [pidFile EXCEPT ![control[r].on] = how]
  BY DEF Spawn, WritePid
<1>2. HostTypeOK' /\ OneSession'
  <2>0. /\ chrome \in [Accounts -> {"none", "starting", "manual", "ready"}]
        /\ pidFile \in [Accounts -> {"none", "right", "dead"}]
    BY DEF LoginInv, HostTypeOK
  <2>1. /\ chrome' \in [Accounts -> {"none", "starting", "manual", "ready"}]
        /\ pidFile' \in [Accounts -> {"none", "right", "dead"}]
    BY <1>1, <2>0
  <2> QED
    BY <1>1, <2>1, HostKeeps
<1>3. control[r].act \in {"open", "capture"}
  BY <1>1, ThreadFacts DEF ThreadOK, ThreadRow
<1> QED
  BY <1>1, <1>2, <1>3, QuietKeeps

-----------------------------------------------------------------------------
(* One-time sessions. *)
SessionRow == [on : Accounts, is : {"unused", "pending", "connection"}]
Open(x) == x.is \in {"pending", "connection"}

LEMMA RevokedSessions ==
    ASSUME LoginAssumption, LoginInv, NEW a \in Accounts
    PROVE  /\ Revoked(a) \in [1 .. MaxSessions -> SessionRow]
           /\ \A s \in 1 .. MaxSessions : Open(Revoked(a)[s]) =>
                 Revoked(a)[s] = session[s] /\ session[s].on # a
<1>1. session \in [1 .. MaxSessions -> SessionRow] /\ Unused \in SessionRow /\ Unused.is = "unused"
  BY NothingRows DEF LoginInv, HostTypeOK, SessionRow
<1>2. DOMAIN session = 1 .. MaxSessions
  BY <1>1
<1>3. /\ DOMAIN Revoked(a) = 1 .. MaxSessions
      /\ \A s \in 1 .. MaxSessions : Revoked(a)[s] =
            IF session[s].on = a /\ session[s].is \in {"pending", "connection"}
            THEN Unused ELSE session[s]
  BY <1>2 DEF Revoked
<1>4. Revoked(a) = [s \in 1 .. MaxSessions |-> Revoked(a)[s]]
  BY <1>2 DEF Revoked
<1> QED
  BY <1>1, <1>3, <1>4 DEF Open

\* Sessions that were there, and no other.
LEMMA FewerSessions ==
    ASSUME LoginInv,
           \A s \in 1 .. MaxSessions : Open(session'[s]) =>
               Open(session[s]) /\ session'[s].on = session[s].on,
           session' \in [1 .. MaxSessions -> SessionRow]
    PROVE  OneSession'
<1>1. /\ DOMAIN session = 1 .. MaxSessions /\ DOMAIN session' = 1 .. MaxSessions
  BY DEF LoginInv, HostTypeOK
<1> QED
  BY <1>1 DEF LoginInv, OneSession, Open

LEMMA IssueStep ==
    ASSUME LoginAssumption, LoginInv, NEW r \in Requests, IssueSession(r)
    PROVE  LoginInv' /\ RuntimeStays
<1> DEFINE a == control[r].on
           left == Revoked(a)
           opened == [on |-> a, is |-> "pending"]
<1>1. /\ control[r].at = "issue" /\ Finish(r)
      /\ UNCHANGED <<account, runtime, loaded, stored, profile, chrome, pidFile, lock>>
      /\ \E s \in DOMAIN session : session' = [left EXCEPT ![s] = opened]
  BY DEF IssueSession
<1>2. control[r].act \in {"open", "capture"} /\ a \in Accounts
  BY <1>1, ThreadFacts DEF ThreadOK, ThreadRow
<1>3. opened \in SessionRow /\ opened.on = a
  BY <1>2 DEF SessionRow
<1>4. /\ left \in [1 .. MaxSessions -> SessionRow]
      /\ \A s \in 1 .. MaxSessions : Open(left[s]) => left[s] = session[s] /\ session[s].on # a
  BY <1>2, RevokedSessions
<1>5. DOMAIN session = 1 .. MaxSessions
  BY DEF LoginInv, HostTypeOK
<1> HIDE DEF opened, left, a
<1>6. PICK s \in 1 .. MaxSessions : session' = [left EXCEPT ![s] = opened]
  BY <1>1, <1>5
<1>7. /\ session' \in [1 .. MaxSessions -> SessionRow] /\ session'[s] = opened
      /\ \A x \in 1 .. MaxSessions \ {s} : session'[x] = left[x]
      /\ DOMAIN session' = 1 .. MaxSessions
  BY <1>3, <1>4, <1>6
<1>8. OneSession'
  <2>1. ASSUME NEW x \in 1 .. MaxSessions, NEW y \in 1 .. MaxSessions,
               Open(session'[x]), Open(session'[y]), session'[x].on = session'[y].on
        PROVE  x = y
    <3>1. CASE x # s /\ y # s
      <4>1. /\ session'[x] = session[x] /\ session'[y] = session[y]
            /\ Open(session[x]) /\ Open(session[y])
        BY <1>4, <1>7, <2>1, <3>1
      <4> QED
        BY <1>5, <2>1, <4>1 DEF LoginInv, OneSession, Open
    <3>2. CASE x = s /\ y # s
      BY <1>3, <1>4, <1>7, <2>1, <3>2
    <3>3. CASE y = s /\ x # s
      BY <1>3, <1>4, <1>7, <2>1, <3>3
    <3> QED
      BY <3>1, <3>2, <3>3
  <2> QED
    BY <1>7, <2>1 DEF OneSession, Open
<1>9. HostTypeOK'
  BY <1>1, <1>7 DEF LoginInv, HostTypeOK, SessionRow
<1> QED
  BY <1>1, <1>2, <1>8, <1>9, QuietKeeps

LEMMA RevokeStep ==
    ASSUME LoginAssumption, LoginInv, NEW r \in Requests, Revoke(r) PROVE LoginInv' /\ RuntimeStays
<1>1. /\ control[r].at = "revoke" /\ session' = Revoked(control[r].on)
      /\ UNCHANGED <<account, runtime, loaded, stored, profile, chrome, pidFile, lock>>
  BY DEF Revoke
<1>2. control[r].act \in {"cancel", "restart"} /\ control[r].on \in Accounts
  BY <1>1, ThreadFacts DEF ThreadOK, ThreadRow
<1>3. OneSession' /\ HostTypeOK'
  <2>1. session' \in [1 .. MaxSessions -> SessionRow]
    BY <1>1, <1>2, RevokedSessions
  <2>2. OneSession'
    BY <1>1, <1>2, <2>1, RevokedSessions, FewerSessions
  <2> QED
    BY <1>1, <2>1, <2>2 DEF LoginInv, HostTypeOK, SessionRow
<1>4. CASE control[r].act = "restart"
  <2>1. Goes(r, "service")
    BY <1>4 DEF Revoke
  <2> QED
    BY <1>1, <1>3, <1>4, <2>1, QuietKeeps
<1>5. CASE control[r].act = "cancel"
  <2>1. Finish(r)
    BY <1>5 DEF Revoke
  <2> QED
    BY <1>1, <1>3, <1>5, <2>1, QuietKeeps
<1> QED
  BY <1>2, <1>4, <1>5

-----------------------------------------------------------------------------
(* The workers. *)
LEMMA RestartStep ==
    ASSUME LoginAssumption, LoginInv, NEW r \in Requests, RestartService(r)
    PROVE  LoginInv' /\ RuntimeStays
<1> DEFINE a == control[r].on
<1>1. /\ control[r].at = "service"
      /\ UNCHANGED <<account, stored, profile, chrome, pidFile, session, lock>>
      /\ \/ /\ runtime' = [runtime EXCEPT ![a] = "running"]
            /\ loaded' = [loaded EXCEPT ![a] = stored[a]] /\ (Finish(r) \/ Fail(r))
         \/ Fail(r) /\ UNCHANGED <<runtime, loaded>>
  BY DEF RestartService
<1>2. /\ control[r].act = "restart" /\ a \in Accounts /\ runtime[a] = "running"
      /\ request[r].op # "none" => request[r].stage = "restart" /\ request[r].on = a
  BY <1>1, ThreadFacts, RouteFacts DEF ThreadOK, RouteOK, Works
<1> HIDE DEF a
<1>3. UNCHANGED runtime
  BY <1>1, <1>2 DEF LoginInv, HostTypeOK
<1>4. CASE Fail(r) /\ UNCHANGED loaded
  BY <1>1, <1>2, <1>3, <1>4, QuietKeeps DEF LoginInv, HostTypeOK, OneSession
<1>5. CASE loaded' = [loaded EXCEPT ![a] = stored[a]] /\ (Finish(r) \/ Fail(r))
  <2>1. /\ loaded' \in [Accounts -> 0 .. MaxLogins] /\ loaded'[a] = stored[a]
        /\ \A b \in Accounts \ {a} : loaded'[b] = loaded[b]
    BY <1>2, <1>5 DEF LoginInv, HostTypeOK
  <2>2. HostTypeOK' /\ OneSession' /\ RuntimeStays
    BY <1>1, <1>3, <2>1 DEF LoginInv, HostTypeOK, OneSession, RuntimeStays
  <2>3. EnvKept(r) /\ ReadyIsLoaded'
    BY <1>1, <1>3, <2>1 DEF LoginInv, ReadyIsLoaded, EnvKept
  <2>4. CASE Fail(r)
    BY <2>2, <2>3, <2>4, FailLeaves, LeaveKeeps
  <2>5. ASSUME NEW next, Follows(request[r], next), StepsTo(r, next) PROVE LoginInv'
    <3>1. request[r].op # "none" /\ request[r].stage = "restart" /\ next = "probe"
      BY <1>2, <2>5 DEF Follows
    <3>2. account'[request[r].on] # "ready" /\ loaded'[request[r].on] = stored'[request[r].on]
      <4>1. request[r].op = "verify" /\ account[request[r].on] # "ready"
        BY <3>1, StageTells, RouteFacts DEF RouteOK, Verifies
      <4> QED
        BY <1>1, <1>2, <2>1, <3>1, <4>1
    <3> QED
      BY <2>2, <2>3, <2>5, <3>1, <3>2, StepKeeps
  <2>6. CASE Finish(r)
    BY <2>2, <2>3, <2>5, <2>6, FinishSteps, LeaveKeeps
  <2> QED
    BY <1>5, <2>2, <2>4, <2>6
<1> QED
  BY <1>1, <1>4, <1>5

\* A new account's or an existing one's runtime is there: the route goes on.
LEMMA ProvisionedSteps ==
    ASSUME LoginAssumption, LoginInv, NEW r \in Requests, control[r].act = "provision", Finish(r),
           HostTypeOK', EnvKept(r), ReadyIsLoaded', OneSession', UNCHANGED account
    PROVE  LoginInv'
<1>1. ASSUME NEW next, Follows(request[r], next), StepsTo(r, next) PROVE LoginInv'
  <2>1. request[r].op # "none" /\ request[r].stage = "provision"
    BY <1>1, RouteFacts, CallsAre, NothingRows DEF Follows, RouteOK, Paired
  <2>2. next \in {"create", "update"} /\ (next = "create" => request[r].op = "onboard")
        /\ request[r].op # "verify"
    BY <1>1, <2>1 DEF Follows
  <2>3. next = "create" => account'[request[r].on] = "none"
    BY <2>1, <2>2, RouteFacts DEF NewIsAlone, Making, Alone
  <2> QED
    BY <1>1, <2>2, <2>3, StepKeeps
<1> QED
  BY <1>1, FinishSteps, LeaveKeeps

LEMMA ProvisionStep ==
    ASSUME LoginAssumption, LoginInv, NEW r \in Requests, Provision(r)
    PROVE  LoginInv' /\ RuntimeStays
<1> DEFINE a == control[r].on
<1>1. /\ control[r].act = "provision" /\ control[r].at = "lock" /\ lock = {}
      /\ UNCHANGED <<account, loaded, stored, profile, chrome, pidFile, session>>
      /\ \/ runtime[a] # "none" /\ Finish(r) /\ UNCHANGED <<runtime, lock>>
         \/ /\ runtime[a] = "none" /\ runtime' = [runtime EXCEPT ![a] = "entry"] /\ lock' = {r}
            /\ Goes(r, "boot")
  BY DEF Provision, On
<1>2. a \in Accounts
  BY RouteFacts
<1> HIDE DEF a
<1>3. CASE Finish(r) /\ UNCHANGED <<runtime, lock>>
  <2>1. HostTypeOK' /\ OneSession' /\ EnvKept(r) /\ ReadyIsLoaded' /\ RuntimeStays
    BY <1>1, <1>3, QuietEnv DEF LoginInv, HostTypeOK, OneSession, RuntimeStays
  <2> QED
    BY <1>1, <1>3, <2>1, ProvisionedSteps
<1>4. CASE /\ runtime[a] = "none" /\ runtime' = [runtime EXCEPT ![a] = "entry"] /\ lock' = {r}
           /\ Goes(r, "boot")
  <2>1. /\ runtime' \in [Accounts -> {"none", "entry", "running"}] /\ runtime'[a] = "entry"
        /\ \A b \in Accounts \ {a} : runtime'[b] = runtime[b]
    BY <1>2, <1>4 DEF LoginInv, HostTypeOK
  <2>2. HostTypeOK' /\ OneSession' /\ RuntimeStays
    BY <1>1, <1>4, <2>1 DEF LoginInv, HostTypeOK, OneSession, RuntimeStays
  <2>3. EnvKept(r)
    BY <1>1, <1>4, <2>1 DEF EnvKept
  <2>4. ThreadOK([control[r] EXCEPT !.at = "boot"])
    BY <1>1, ThreadFacts DEF ThreadOK, ThreadRow
  <2>5. LoginInv'
    BY <1>1, <1>4, <2>1, <2>2, <2>3, <2>4, GoKeeps DEF a
  <2> QED
    BY <2>2, <2>5
<1> QED
  BY <1>1, <1>3, <1>4

LEMMA BootStep ==
    ASSUME LoginAssumption, LoginInv, NEW r \in Requests, Boot(r) PROVE LoginInv' /\ RuntimeStays
<1> DEFINE a == control[r].on
<1>1. /\ control[r].act = "provision" /\ control[r].at = "boot" /\ lock' = {}
      /\ UNCHANGED <<account, stored, profile, chrome, pidFile, session>>
      /\ \/ /\ runtime' = [runtime EXCEPT ![a] = "running"]
            /\ loaded' = [loaded EXCEPT ![a] = stored[a]] /\ Finish(r)
         \/ runtime' = [runtime EXCEPT ![a] = "none"] /\ Fail(r) /\ UNCHANGED loaded
  BY DEF Boot, On
<1>2. a \in Accounts /\ runtime[a] = "entry" /\ lock = {r}
  BY <1>1, RouteFacts DEF RouteOK, Works
<1> HIDE DEF a
<1>3. CASE /\ runtime' = [runtime EXCEPT ![a] = "running"]
           /\ loaded' = [loaded EXCEPT ![a] = stored[a]] /\ Finish(r)
  <2>1. /\ runtime' \in [Accounts -> {"none", "entry", "running"}] /\ runtime'[a] = "running"
        /\ loaded' \in [Accounts -> 0 .. MaxLogins] /\ loaded'[a] = stored[a]
        /\ \A b \in Accounts \ {a} : runtime'[b] = runtime[b] /\ loaded'[b] = loaded[b]
    BY <1>2, <1>3 DEF LoginInv, HostTypeOK
  <2>2. HostTypeOK' /\ OneSession' /\ RuntimeStays
    BY <1>1, <2>1 DEF LoginInv, HostTypeOK, OneSession, RuntimeStays
  <2>3. EnvKept(r) /\ ReadyIsLoaded'
    BY <1>1, <1>2, <2>1 DEF LoginInv, ReadyIsLoaded, EnvKept
  <2> QED
    BY <1>1, <1>3, <2>2, <2>3, ProvisionedSteps
<1>4. CASE runtime' = [runtime EXCEPT ![a] = "none"] /\ Fail(r) /\ UNCHANGED loaded
  <2>1. /\ runtime' \in [Accounts -> {"none", "entry", "running"}]
        /\ \A b \in Accounts \ {a} : runtime'[b] = runtime[b]
    BY <1>2, <1>4 DEF LoginInv, HostTypeOK
  <2>2. HostTypeOK' /\ OneSession' /\ RuntimeStays
    BY <1>1, <1>2, <1>4, <2>1 DEF LoginInv, HostTypeOK, OneSession, RuntimeStays
  <2>3. EnvKept(r) /\ ReadyIsLoaded'
    BY <1>1, <1>2, <1>4, <2>1 DEF LoginInv, ReadyIsLoaded, EnvKept
  <2> QED
    BY <1>4, <2>2, <2>3, FailLeaves, LeaveKeeps
<1> QED
  BY <1>1, <1>3, <1>4

LEMMA RollbackStep ==
    ASSUME LoginAssumption, LoginInv, NEW r \in Requests, Rollback(r)
    PROVE  LoginInv' /\ RuntimeStays
<1> DEFINE a == control[r].on
<1>1. /\ control[r].act = "rollback" /\ control[r].at = "lock" /\ lock = {}
      /\ UNCHANGED <<account, loaded, stored, profile, chrome, pidFile, session, lock>>
      /\ \/ Fail(r) /\ UNCHANGED runtime
         \/ stored[a] = 0 /\ runtime' = [runtime EXCEPT ![a] = "none"] /\ Finish(r)
  BY DEF Rollback, On
<1>2. a \in Accounts /\ account[a] = "none"
  BY <1>1, RouteFacts DEF NewIsAlone, Alone
<1>3. CASE Fail(r) /\ UNCHANGED runtime
  <2>1. HostTypeOK' /\ OneSession' /\ EnvKept(r) /\ ReadyIsLoaded' /\ RuntimeStays
    BY <1>1, <1>3, QuietEnv DEF LoginInv, HostTypeOK, OneSession, RuntimeStays
  <2> QED
    BY <1>3, <2>1, FailLeaves, LeaveKeeps
<1>4. CASE stored[a] = 0 /\ runtime' = [runtime EXCEPT ![a] = "none"] /\ Finish(r)
  <2>0. a = control[r].on
    OBVIOUS
  <2> HIDE DEF a
  <2>1. /\ runtime' \in [Accounts -> {"none", "entry", "running"}]
        /\ \A b \in Accounts \ {a} : runtime'[b] = runtime[b]
    BY <1>2, <1>4 DEF LoginInv, HostTypeOK
  <2>2. HostTypeOK' /\ OneSession' /\ RuntimeStays
    BY <1>1, <1>2, <1>4, <2>1 DEF LoginInv, HostTypeOK, OneSession, RuntimeStays
  <2>3. EnvKept(r) /\ ReadyIsLoaded'
    BY <1>1, <1>2, <2>0, <2>1 DEF LoginInv, ReadyIsLoaded, EnvKept
  <2>4. ASSUME NEW next PROVE ~Follows(request[r], next)
    <3>1. request[r].op # "none" => request[r].stage = "rollback"
      BY <1>1, ThreadFacts
    <3> QED
      BY <3>1 DEF Follows
  <2> QED
    BY <1>4, <2>2, <2>3, <2>4, FinishSteps, LeaveKeeps
<1> QED
  BY <1>1, <1>3, <1>4

-----------------------------------------------------------------------------
\* A crash ends every thread with the request that waits for it.
LEMMA CrashStep ==
    ASSUME LoginAssumption, LoginInv, ControlCrash PROVE LoginInv' /\ RuntimeStays
<1>1. /\ control' = [x \in Requests |-> NoThread] /\ lock' = {}
      /\ request' = [x \in Requests |-> IF control[x] # NoThread THEN NoRequest ELSE request[x]]
      /\ verifying' = verifying \ {request[x].on : x \in {y \in Requests :
                                       control[y] # NoThread /\ request[y].op = "verify"}}
      /\ UNCHANGED <<account, runtime, loaded, stored, profile, chrome, pidFile, session>>
  BY DEF ControlCrash
<1>2. HostTypeOK' /\ ReadyIsLoaded' /\ OneSession' /\ RuntimeStays
  BY <1>1 DEF LoginInv, HostTypeOK, ReadyIsLoaded, OneSession, RuntimeStays
<1>3. ASSUME NEW x \in Requests
      PROVE  /\ control'[x] = NoThread /\ request'[x] \in RouteRow
             /\ request'[x] = NoRequest
                \/ (request'[x] = request[x] /\ control[x] = NoThread)
  BY <1>1, RouteFacts, NothingRows
<1>4. RoutesTypeOK'
  <2>1. request' \in [Requests -> RouteRow]
    BY <1>1, <1>3
  <2>2. control' \in [Requests -> ThreadRow]
    BY <1>1, NothingRows
  <2>3. verifying' \subseteq Accounts
    BY <1>1 DEF LoginInv, RoutesTypeOK
  <2> QED
    BY <2>1, <2>2, <2>3 DEF RoutesTypeOK
<1>5. ASSUME NEW x \in Requests PROVE RouteOK(x)' /\ NewIsAlone(x)'
  <2>1. CASE request'[x] = NoRequest
    BY <1>3, <2>1, NothingRows DEF RouteOK, StageOK, ThreadOK, Paired, Verifies, Works, NewIsAlone,
       Making
  <2>2. CASE request'[x] = request[x] /\ control[x] = NoThread
    <3>1. RouteOK(x)'
      BY <1>1, <1>3, <2>2, RouteFacts, NothingRows DEF RouteOK, Paired, Verifies, Works
    <3>2. ASSUME NEW a \in Accounts, Alone(x, a) PROVE Alone(x, a)'
      BY <1>1, <1>3, <3>2, NothingRows DEF Alone
    <3> QED
      BY <1>3, <2>2, <3>1, <3>2, RouteFacts, NothingRows DEF NewIsAlone, Making
  <2> QED
    BY <1>3, <2>1, <2>2
<1>6. OneVerifier'
  <2>1. ASSUME NEW x \in Requests, request'[x].op = "verify"
        PROVE  request'[x] = request[x] /\ request[x].op = "verify" /\ control[x] = NoThread
    BY <1>3, <2>1, NothingRows
  <2>2. ASSUME NEW x \in Requests, request'[x].op = "verify" PROVE request'[x].on \in verifying'
    <3>1. request[x].on \in verifying
      BY <2>1, <2>2 DEF LoginInv, OneVerifier
    <3>2. ASSUME NEW y \in Requests, control[y] # NoThread, request[y].op = "verify"
          PROVE  request[y].on # request[x].on
      BY <2>1, <2>2, <3>2 DEF LoginInv, OneVerifier
    <3> QED
      BY <1>1, <2>1, <2>2, <3>1, <3>2
  <2>3. ASSUME NEW x \in Requests, NEW y \in Requests, request'[x].op = "verify",
               request'[y].op = "verify", request'[x].on = request'[y].on
        PROVE  x = y
    BY <2>1, <2>3 DEF LoginInv, OneVerifier
  <2> QED
    BY <2>2, <2>3 DEF OneVerifier
<1> QED
  BY <1>2, <1>4, <1>5, <1>6 DEF LoginInv

\* The browser and the desktop know nothing of the routes.
LEMMA DesktopStep ==
    ASSUME LoginAssumption, LoginInv,
           \/ \E a \in Accounts : ChromeReady(a) \/ SignIn(a) \/ CloseWindow(a)
           \/ \E s \in DOMAIN session : SessionStep(s)
           \/ UNCHANGED loginVars
    PROVE  LoginInv' /\ RuntimeStays
<1>1. /\ UNCHANGED <<account, runtime, loaded, stored, pidFile, lock, verifying, request, control>>
      /\ HostTypeOK' /\ OneSession'
  <2>1. /\ profile \in [Accounts -> 0 .. MaxLogins]
        /\ chrome \in [Accounts -> {"none", "starting", "manual", "ready"}]
        /\ session \in [1 .. MaxSessions -> SessionRow] /\ HostTypeOK /\ OneSession
        /\ MaxLogins \in Nat /\ DOMAIN session = 1 .. MaxSessions
    BY DEF LoginInv, HostTypeOK, SessionRow, LoginAssumption
  <2>2. ASSUME NEW a \in Accounts, ChromeReady(a) \/ CloseWindow(a)
        PROVE  /\ UNCHANGED <<account, runtime, loaded, stored, pidFile, lock, verifying, request,
                              control>>
               /\ HostTypeOK' /\ OneSession'
    <3>1. /\ UNCHANGED <<account, runtime, loaded, stored, profile, pidFile, session, lock, verifying,
                         request, control>>
          /\ \E how \in {"ready", "none"} : chrome' = [chrome EXCEPT ![a] = how]
      BY <2>2 DEF ChromeReady, CloseWindow
    <3>2. chrome' \in [Accounts -> {"none", "starting", "manual", "ready"}]
      BY <2>1, <3>1
    <3> QED
      BY <2>1, <3>1, <3>2 DEF HostTypeOK, OneSession
  <2>3. ASSUME NEW a \in Accounts, SignIn(a)
        PROVE  /\ UNCHANGED <<account, runtime, loaded, stored, pidFile, lock, verifying, request,
                              control>>
               /\ HostTypeOK' /\ OneSession'
    <3>1. /\ UNCHANGED <<account, runtime, loaded, stored, chrome, pidFile, session, lock, verifying,
                         request, control>>
          /\ profile[a] < MaxLogins /\ profile' = [profile EXCEPT ![a] = profile[a] + 1]
      BY <2>3 DEF SignIn
    <3>2. profile' \in [Accounts -> 0 .. MaxLogins]
      BY <2>1, <3>1
    <3> QED
      BY <2>1, <3>1, <3>2 DEF HostTypeOK, OneSession
  <2>4. ASSUME NEW s \in DOMAIN session, SessionStep(s)
        PROVE  /\ UNCHANGED <<account, runtime, loaded, stored, pidFile, lock, verifying, request,
                              control>>
               /\ HostTypeOK' /\ OneSession'
    <3>1. /\ UNCHANGED <<account, runtime, loaded, stored, profile, chrome, pidFile, lock, verifying,
                         request, control>>
          /\ \/ session[s].is = "pending" /\ session' = [session EXCEPT ![s].is = "connection"]
             \/ session' = [session EXCEPT ![s] = Unused]
      BY <2>4 DEF SessionStep
    <3>2. /\ s \in 1 .. MaxSessions /\ session[s] \in SessionRow
          /\ Unused \in SessionRow /\ Unused.is = "unused"
      BY <2>1, <2>4, NothingRows DEF SessionRow
    <3>3. CASE session[s].is = "pending" /\ session' = [session EXCEPT ![s].is = "connection"]
      <4> DEFINE opened == [session[s] EXCEPT !.is = "connection"]
      <4>1. opened \in SessionRow /\ opened.on = session[s].on /\ opened.is = "connection"
        BY <3>2 DEF SessionRow
      <4>2. session' = [session EXCEPT ![s] = opened]
        BY <3>3
      <4> HIDE DEF opened
      <4>3. /\ session' \in [1 .. MaxSessions -> SessionRow] /\ session'[s] = opened
            /\ \A x \in 1 .. MaxSessions \ {s} : session'[x] = session[x]
        BY <2>1, <3>2, <4>1, <4>2
      <4>4. OneSession'
        BY <3>3, <4>1, <4>3, FewerSessions DEF Open
      <4> QED
        BY <2>1, <3>1, <4>3, <4>4 DEF HostTypeOK, SessionRow
    <3>4. CASE session' = [session EXCEPT ![s] = Unused]
      <4>1. /\ session' \in [1 .. MaxSessions -> SessionRow] /\ session'[s] = Unused
            /\ \A x \in 1 .. MaxSessions \ {s} : session'[x] = session[x]
        BY <2>1, <3>2, <3>4
      <4>2. OneSession'
        BY <3>2, <4>1, FewerSessions DEF Open
      <4> QED
        BY <2>1, <3>1, <4>1, <4>2 DEF HostTypeOK, SessionRow
    <3> QED
      BY <3>1, <3>3, <3>4
  <2>5. CASE UNCHANGED loginVars
    BY <2>1, <2>5 DEF loginVars, hostVars, HostTypeOK, OneSession
  <2> QED
    BY <2>2, <2>3, <2>4, <2>5
<1>2. ReadyIsLoaded' /\ RoutesTypeOK' /\ OneVerifier' /\ RuntimeStays
  BY <1>1 DEF LoginInv, ReadyIsLoaded, RoutesTypeOK, OneVerifier, RuntimeStays
<1>3. ASSUME NEW x \in Requests PROVE RouteOK(x)' /\ NewIsAlone(x)'
  BY <1>1 DEF LoginInv, RouteOK, Paired, Verifies, Works, NewIsAlone, Making, Alone
<1> QED
  BY <1>1, <1>2, <1>3 DEF LoginInv

-----------------------------------------------------------------------------
LEMMA LoginStart == ASSUME LoginAssumption, LoginInit PROVE LoginInv
<1>1. HostTypeOK
  BY NothingRows DEF LoginInit, HostTypeOK, LoginAssumption
<1>2. RoutesTypeOK /\ OneVerifier
  BY NothingRows DEF LoginInit, RoutesTypeOK, OneVerifier
<1>3. ASSUME NEW r \in Requests PROVE RouteOK(r) /\ NewIsAlone(r)
  BY NothingRows DEF LoginInit, RouteOK, StageOK, ThreadOK, Paired, Verifies, Works, NewIsAlone,
     Making
<1>4. ReadyIsLoaded /\ OneSession
  BY NothingRows DEF LoginInit, ReadyIsLoaded, OneSession
<1> QED
  BY <1>1, <1>2, <1>3, <1>4 DEF LoginInv

LEMMA LoginStep ==
    ASSUME LoginAssumption, LoginInv, [LoginNext]_loginVars PROVE LoginInv' /\ RuntimeStays
<1>1. ASSUME NEW r \in Requests, RouteStep(r) PROVE LoginInv' /\ RuntimeStays
  BY <1>1, BeginStep, GivesUpStep, CreateStep, UpdateStep, BeginReauthStep, LooksStep, GrabStep,
     ProbeStep, MarkStep DEF RouteStep
<1>2. ASSUME NEW r \in Requests, ControlStep(r) PROVE LoginInv' /\ RuntimeStays
  BY <1>2, ProvisionStep, BootStep, RollbackStep, LookStep, StopStep, LaunchStep, SpawnStep,
     IssueStep, RevokeStep, RestartStep DEF ControlStep
<1> QED
  BY <1>1, <1>2, CrashStep, DesktopStep DEF LoginNext

\* Whatever requests log accounts in at the same time, outlive their clients
\* or die with the control service: an account goes back to work only with a
\* worker that runs with the login captured last, a worker that was up stays
\* up, and one link at a time opens an account's desktop (app.py,
\* login_control.py, chrome_launcher.py, remote_browser_sessions.py).
THEOREM LoginsStandApart == ASSUME LoginAssumption PROVE LoginSpec => LoginSafety
<1>1. LoginInit => LoginInv
  BY LoginStart
<1>2. LoginInv /\ [LoginNext]_loginVars => LoginInv'
  BY LoginStep
<1>3. LoginInv /\ [LoginNext]_loginVars =>
      [\A a \in Accounts : runtime[a] = "running" /\ runtime'[a] = "none" =>
          account[a] = "none" /\ stored[a] = 0]_loginVars
  BY LoginStep DEF RuntimeStays
<1>4. LoginInv => LoginTypeOK /\ ReadyIsLoaded /\ OneSession
  BY LoginTypes DEF LoginInv
<1> QED
  BY <1>1, <1>2, <1>3, <1>4, PTL DEF LoginSpec, LoginSafety, RuntimeKept
=============================================================================
