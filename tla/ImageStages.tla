----------------------------- MODULE ImageStages -----------------------------
(***************************************************************************)
(* Reference images that are sent to an account before the prompt is       *)
(* (image_stage.py, and the two handlers of app.py around it).  Stagers    *)
(* are requests of one browser session to /internal/image-media/stage,     *)
(* tasks are requests to /v1/images/generations.  A stage remembers which  *)
(* account holds the images; a task that presents its token is sent there. *)
(*                                                                         *)
(* A stage and a lock are named after the stager that made them.  Time is  *)
(* not counted: _prune() runs at the head of every call of the registry    *)
(* and a stage is looked at nowhere else, so a stage that lapses, or that  *)
(* is the oldest of too many, may go at any moment (Prune).                *)
(***************************************************************************)
EXTENDS Naturals, FiniteSets

CONSTANTS
    Stagers, Tasks,
    Images,          \* turtle_media_id
    Profiles,        \* required_quota_profiles of a request
    Hosts, NoHost,   \* accounts of the pool
    Nobody,          \* in place of a stager: no stage, no lock
    MaxTries         \* account_failover_max_attempts

ASSUME StageAssumption ==
    /\ Nobody \notin Stagers /\ NoHost \notin Hosts
    /\ MaxTries \in Nat \ {0}

VARIABLES
    stage,      \* every ImageStage made so far
    byToken,    \* _by_token
    bySession,  \* _by_session of the one session
    door,       \* _locks of the one session
    stager,     \* the handlers of the stagers
    task,       \* the handlers of the tasks
    uploaded,   \* what an account has been sent: <<account, image>>
    tracked     \* what upstream_cleanup will delete

imageVars == <<stage, byToken, bySession, door, stager, task, uploaded, tracked>>

NoStage == [host |-> NoHost, images |-> {}, profile |-> {}, claimed |-> FALSE]
NewStager == [at |-> "idle", image |-> {}, profile |-> {}, lock |-> Nobody,
              existing |-> Nobody, lease |-> NoHost, token |-> Nobody]
NewTask == [at |-> "idle", images |-> {}, profile |-> {}, stage |-> Nobody,
            lease |-> NoHost, tried |-> {}]

Inside == {"leasing", "uploading", "keeping", "tracking", "releasing"}

ImageTypeOK ==
    /\ stage \in [Stagers -> [host : Hosts \cup {NoHost}, images : SUBSET Images,
                              profile : SUBSET Profiles, claimed : BOOLEAN]]
    /\ byToken \subseteq Stagers
    /\ bySession \in byToken \cup {Nobody}
    /\ door \in Stagers \cup {Nobody}
    /\ stager \in [Stagers -> [at : {"idle", "waiting", "over", "cut"} \cup Inside,
                               image : SUBSET Images, profile : SUBSET Profiles,
                               lock : Stagers \cup {Nobody}, existing : Stagers \cup {Nobody},
                               lease : Hosts \cup {NoHost}, token : Stagers \cup {Nobody}]]
    /\ task \in [Tasks -> [at : {"idle", "leasing", "sending", "over"},
                           images : SUBSET Images, profile : SUBSET Profiles,
                           stage : Stagers \cup {Nobody}, lease : Hosts \cup {NoHost},
                           tried : SUBSET Hosts]]
    /\ uploaded \subseteq Hosts \X Images /\ tracked \subseteq Hosts \X Images

ImageInit ==
    /\ stage = [s \in Stagers |-> NoStage]
    /\ byToken = {} /\ bySession = Nobody /\ door = Nobody
    /\ stager = [s \in Stagers |-> NewStager]
    /\ task = [t \in Tasks |-> NewTask]
    /\ uploaded = {} /\ tracked = {}

-----------------------------------------------------------------------------
(* The registry. *)

Locked == \E s \in Stagers : stager[s].at \in Inside /\ stager[s].lock = door

\* _discard(): the lock goes with the stage unless somebody holds it.  A
\* waiter that was woken but has not run yet does not count as a holder.
Discard(k) ==
    /\ byToken' = byToken \ {k}
    /\ IF bySession = k
       THEN bySession' = Nobody /\ door' = IF Locked THEN door ELSE Nobody
       ELSE UNCHANGED <<bySession, door>>

Keep == UNCHANGED <<byToken, bySession, door>>

Prune(k) ==
    /\ k \in byToken
    /\ Discard(k)
    /\ UNCHANGED <<stage, stager, task, uploaded, tracked>>

\* current()
Usable(k, profile) == k # Nobody /\ ~stage[k].claimed /\ stage[k].profile = profile

\* claim(): one task only, the same caller and profiles, staged images only.
Claimable(k, images, profile) ==
    /\ k \in byToken /\ ~stage[k].claimed
    /\ stage[k].profile = profile
    /\ images # {} /\ images \subseteq stage[k].images

-----------------------------------------------------------------------------
(* stage_image_media() *)

Proceed(s, fields) == stager' = [stager EXCEPT ![s] = fields]
Leave(s, at) == [stager[s] EXCEPT !.at = at, !.lease = NoHost]

Waiting(i, p, lock) ==
    [NewStager EXCEPT !.at = "waiting", !.image = {i}, !.profile = {p}, !.lock = lock]
Leased(s, h) == [stager[s] EXCEPT !.at = "uploading", !.lease = h]

\* session_lock(): setdefault(), then wait.
Stage(s) ==
    /\ stager[s].at = "idle"
    /\ \E i \in Images, p \in Profiles :
          /\ door' = IF door = Nobody THEN s ELSE door
          /\ Proceed(s, Waiting(i, p, door'))
    /\ UNCHANGED <<stage, byToken, bySession, task, uploaded, tracked>>

Admit(s) ==
    /\ stager[s].at = "waiting"
    /\ \A o \in Stagers : stager[o].at \in Inside => stager[o].lock # stager[s].lock
    /\ LET found == Usable(bySession, stager[s].profile)
       IN  /\ Proceed(s, [stager[s] EXCEPT !.at = "leasing",
                                            !.existing = IF found THEN bySession ELSE Nobody])
           /\ IF bySession = Nobody \/ found THEN Keep
              ELSE /\ byToken' = byToken \ {bySession} /\ bySession' = Nobody
                   /\ door' = IF Locked \/ stager[s].lock = door THEN door ELSE Nobody
    /\ UNCHANGED <<stage, task, uploaded, tracked>>

\* required_account_id
StageHost(s) == IF stager[s].existing = Nobody THEN Hosts ELSE {stage[stager[s].existing].host}

StageLease(s) ==
    /\ stager[s].at = "leasing"
    /\ \/ \E h \in StageHost(s) : Proceed(s, Leased(s, h))
       \/ Proceed(s, Leave(s, "over"))
    /\ UNCHANGED <<stage, byToken, bySession, door, task, uploaded, tracked>>

Upload(s) ==
    /\ stager[s].at = "uploading"
    /\ uploaded' = uploaded \cup ({stager[s].lease} \X stager[s].image)
    /\ Proceed(s, [stager[s] EXCEPT !.at = "keeping"])
    /\ UNCHANGED <<stage, byToken, bySession, door, task, tracked>>

\* The upload fails, or the browser goes away: the account may or may not
\* have the image, nobody will delete it.
UploadFails(s) ==
    /\ stager[s].at = "uploading"
    /\ Proceed(s, Leave(s, "over"))
    /\ uploaded' \in {uploaded, uploaded \cup ({stager[s].lease} \X stager[s].image)}
    /\ UNCHANGED <<stage, byToken, bySession, door, task, tracked>>

\* remember(): the stage found before the upload gets the image even when it
\* was claimed or has lapsed meanwhile; a new one takes the session over.
Remember(s) ==
    LET k == stager[s].existing
    IN  /\ stager[s].at = "keeping"
        /\ IF k # Nobody
           THEN stage' = [stage EXCEPT ![k].images = @ \cup stager[s].image] /\ Keep
           ELSE /\ stage' = [stage EXCEPT ![s] = [host |-> stager[s].lease, images |-> stager[s].image,
                                                  profile |-> stager[s].profile, claimed |-> FALSE]]
                /\ byToken' = (byToken \ {bySession}) \cup {s}
                /\ bySession' = s
                /\ door' = IF bySession # Nobody /\ ~Locked THEN Nobody ELSE door
        /\ Proceed(s, [stager[s] EXCEPT !.at = "tracking",
                                         !.token = IF k # Nobody THEN k ELSE s])
        /\ UNCHANGED <<task, uploaded, tracked>>

\* upstream_cleanup.record(): no handler gives the lease back when the
\* request is cancelled here.
TrackImages(s) ==
    /\ stager[s].at = "tracking"
    /\ tracked' = tracked \cup ({stager[s].lease} \X stager[s].image)
    /\ Proceed(s, [stager[s] EXCEPT !.at = "releasing"])
    /\ UNCHANGED <<stage, byToken, bySession, door, task, uploaded>>

TrackImagesCut(s) ==
    /\ stager[s].at = "tracking"
    /\ Proceed(s, [stager[s] EXCEPT !.at = "cut", !.token = Nobody])
    /\ UNCHANGED <<stage, byToken, bySession, door, task, uploaded, tracked>>

StageRelease(s) ==
    /\ stager[s].at = "releasing"
    /\ Proceed(s, Leave(s, "over"))
    /\ UNCHANGED <<stage, byToken, bySession, door, task, uploaded, tracked>>

-----------------------------------------------------------------------------
(* image_generations() *)

Advance(t, fields) ==
    /\ task' = [task EXCEPT ![t] = fields]
    /\ UNCHANGED <<byToken, bySession, door, stager, uploaded, tracked>>

Done(t, at) == [task[t] EXCEPT !.at = at, !.lease = NoHost]

Tokens == {stager[s].token : s \in {s \in Stagers : stager[s].at = "over"}} \ {Nobody}

Asking(images, p, k) ==
    [NewTask EXCEPT !.at = "leasing", !.images = images, !.profile = {p}, !.stage = k]
Sending(t, h, k) ==
    [task[t] EXCEPT !.at = "sending", !.lease = h, !.tried = @ \cup {h}, !.stage = k]
ClaimedNow(k) == [stage[k] EXCEPT !.claimed = TRUE]

\* A task names the images it wants and the token it was told, if any.
Generate(t) ==
    /\ task[t].at = "idle"
    /\ \E images \in SUBSET Images, p \in Profiles, k \in Tokens \cup {Nobody} :
          /\ k # Nobody => images # {}
          /\ IF Claimable(k, images, {p})
             THEN stage' = [stage EXCEPT ![k] = ClaimedNow(k)] /\ Advance(t, Asking(images, p, k))
             ELSE UNCHANGED stage /\ Advance(t, Asking(images, p, Nobody))

First(t) == task[t].tried = {}

\* The first attempt goes to the stage's account or, when the pool does not
\* give it, to any other without the stage.
TaskLease(t) ==
    /\ task[t].at = "leasing" /\ Cardinality(task[t].tried) < MaxTries
    /\ \E h \in Hosts \ task[t].tried, fallback \in BOOLEAN :
          /\ First(t) /\ task[t].stage # Nobody /\ ~fallback => stage[task[t].stage].host = h
          /\ Advance(t, Sending(t, h, IF First(t) /\ fallback THEN Nobody ELSE task[t].stage))
    /\ UNCHANGED stage

TaskGivesUp(t) ==
    /\ task[t].at = "leasing"
    /\ Advance(t, Done(t, "over"))
    /\ UNCHANGED stage

\* Mutant: the next account is told to take them from there too.
PreparedStill(t) == task[t].stage

\* The stage the upstream is told to take the images from.
Prepared(t) == IF Cardinality(task[t].tried) = 1 THEN task[t].stage ELSE Nobody

\* A status that proves that the account has not begun: the next account.
TaskFailsOver(t) ==
    /\ task[t].at = "sending"
    /\ Advance(t, Done(t, "leasing"))
    /\ UNCHANGED stage

\* An answer, any other failure, or the client has gone: the lease ends.
TaskEnds(t) ==
    /\ task[t].at = "sending"
    /\ Advance(t, Done(t, "over"))
    /\ UNCHANGED stage

-----------------------------------------------------------------------------
ImageNext ==
    \/ \E k \in Stagers : Prune(k)
    \/ \E s \in Stagers : \/ Stage(s) \/ Admit(s) \/ StageLease(s) \/ Upload(s) \/ UploadFails(s)
                          \/ Remember(s) \/ TrackImages(s) \/ TrackImagesCut(s) \/ StageRelease(s)
    \/ \E t \in Tasks : Generate(t) \/ TaskLease(t) \/ TaskGivesUp(t) \/ TaskFailsOver(t) \/ TaskEnds(t)

ImageSpec == ImageInit /\ [][ImageNext]_imageVars

-----------------------------------------------------------------------------
\* An account that is told to take a task's images from a stage was really
\* sent every one of them, whatever was staged, claimed, dropped and staged
\* again in between (required_account_id in both handlers, claim()).
PreparedHasImages ==
    \A t \in Tasks : task[t].at = "sending" /\ Prepared(t) # Nobody
                     => {task[t].lease} \X task[t].images \subseteq uploaded

\* A handler that is over has given its lease back, and what it told the
\* browser is staged will be deleted from the account; the one await that
\* keeps neither promise is the call of upstream_cleanup.record().
StagersPayUp ==
    \A s \in Stagers :
       /\ stager[s].at = "over" => stager[s].lease = NoHost
       /\ stager[s].at = "over" /\ stager[s].token # Nobody
            => {stage[stager[s].token].host} \X stager[s].image \subseteq tracked

\* What a stage promises holds: its images are where a task is sent, and the
\* handlers that filled it leave neither a lease nor a file behind that nobody
\* knows of (stage_image_media, image_generations).
StageSafety == ImageTypeOK /\ PreparedHasImages /\ StagersPayUp
=============================================================================
