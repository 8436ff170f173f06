----------------------------- MODULE ChatMetering -----------------------------
(***************************************************************************)
(* What a turn of the web client costs its user (turtle_chat/metering.py   *)
(* and the quota tables of turtle_chat/store.py): one row of chat_usage    *)
(* per turn, reserved before the model is asked and committed or released  *)
(* afterwards, counted in the allowance window of its model.  The rows are *)
(* one user's: every statement names its user and runs under that user's   *)
(* lock.  How the turn gets its concurrency lease is RedisCoordinator's    *)
(* matter; here it is only had or given back.                              *)
(*                                                                         *)
(* Every statement runs in a worker thread.  A request that is cancelled   *)
(* while it awaits the thread goes on at once, and the thread, unless it   *)
(* had not started, carries out its statement all the same.                *)
(***************************************************************************)
EXTENDS Integers, FiniteSets, FiniteSetsExt

CONSTANTS
    Turns,
    Models,         \* selection keys
    NoModel,
    Fallback,       \* fallback_key of a model's rule, or NoModel
    Unlimited,      \* in place of a limit: NULL
    Policies,       \* the rules an administrator may give the user's groups
    Reports,        \* image units an upstream may report
    MaxUnits,       \* the most units one image task is charged
    MaxWindows,     \* bound on the windows that are opened
    MaxCuts         \* bound on cancellations and failures

ASSUME MeteringAssumption ==
    /\ NoModel \notin Models /\ Fallback \in [Models -> Models \cup {NoModel}]
    /\ IsFiniteSet(Models) /\ IsFiniteSet(Turns)
    /\ Unlimited \notin Nat /\ Reports \subseteq Int
    /\ MaxUnits \in Nat \ {0} /\ MaxWindows \in Nat /\ MaxCuts \in Nat

Rule == [enabled : BOOLEAN, limit : (Nat \ {0}) \cup {Unlimited}]

\* A set of rules is refused unless every fallback leads to a model in use.
ASSUME PolicyAssumption == \A p \in Policies :
    /\ p \in [Models -> Rule]
    /\ \A m \in Models : p[m].enabled /\ p[m].limit # Unlimited /\ Fallback[m] # NoModel
          => p[Fallback[m]].enabled

VARIABLES
    rules,      \* chat_group_rule, as the user's policy resolves it
    windows,    \* chat_quota_window: the id of a model's window, 0 for none
    ended,      \* models whose window's time is over
    opened,     \* window ids given out
    usages,     \* chat_usage; of a row to come, the model asked for
    phase,      \* where the handler of a turn is
    kind,       \* a chat, a background task, or an image
    lease,      \* turns that hold a concurrency lease
    jobs,       \* statements worker threads still have to carry out
    content,    \* turns whose context has first_content_at_ms set
    counted,    \* turns whose context has usage_committed set
    shown,      \* turns that have shown their user content
    left,       \* how a turn left its row behind
    cuts

meteringVars == <<rules, windows, ended, opened, usages, phase, kind, lease,
                  jobs, content, counted, shown, left, cuts>>
windowVars == <<windows, ended, opened>>
handlerVars == <<phase, kind, lease, jobs, content, counted, shown, left, cuts>>

NoUsage == [status |-> "none", model |-> NoModel, asked |-> NoModel, window |-> 0,
            units |-> 1, old |-> FALSE]
Usage == [status : {"none", "reserved", "committed", "released"},
          model : Models \cup {NoModel}, asked : Models \cup {NoModel},
          window : 0 .. MaxWindows, units : 1 .. MaxUnits, old : BOOLEAN]
Phase == {"idle", "queued", "reserving", "asking", "returned", "streaming",
          "counting", "committing", "shown", "closing", "over"}

MeteringTypeOK ==
    /\ rules \in Policies
    /\ windows \in [Models -> 0 .. opened] /\ ended \subseteq Models
    /\ opened \in 0 .. MaxWindows
    /\ usages \in [Turns -> Usage]
    /\ phase \in [Turns -> Phase] /\ kind \in [Turns -> {"chat", "task", "image"}]
    /\ lease \subseteq Turns /\ content \subseteq Turns
    /\ counted \subseteq Turns /\ shown \subseteq Turns
    /\ jobs \in [Turns -> SUBSET {"reserve", "commit", "release"}]
    /\ left \in [Turns -> {"no", "reserve", "open", "settle"}]
    /\ cuts \in 0 .. MaxCuts

MeteringInit ==
    /\ rules \in Policies
    /\ windows = [m \in Models |-> 0] /\ ended = {} /\ opened = 0
    /\ usages = [t \in Turns |-> NoUsage]
    /\ phase = [t \in Turns |-> "idle"] /\ kind = [t \in Turns |-> "chat"]
    /\ lease = {} /\ content = {} /\ counted = {} /\ shown = {}
    /\ jobs = [t \in Turns |-> {}] /\ left = [t \in Turns |-> "no"]
    /\ cuts = 0

-----------------------------------------------------------------------------
(***************************************************************************)
(* The allowance.  _cleanup_stale() and _model_statuses() run first in     *)
(* every transaction: reservations older than an hour are released, and    *)
(* the windows that are over are deleted.                                  *)
(***************************************************************************)
Cleaned(rows) ==
    [t \in Turns |-> IF rows[t].status = "reserved" /\ rows[t].old
                     THEN [rows[t] EXCEPT !.status = "released"] ELSE rows[t]]

Limited(m) == rules[m].enabled /\ rules[m].limit # Unlimited
CurrentWindow(m) == IF Limited(m) /\ m \in ended THEN 0 ELSE windows[m]

InWindow(rows, m, w, statuses) ==
    {t \in Turns : rows[t].window = w /\ rows[t].model = m /\ rows[t].status \in statuses}
\* Mutant: what is only reserved is not counted.
WindowCommitted(rows, m, w) ==
    MapThenSumSet(LAMBDA t : rows[t].units, InWindow(rows, m, w, {"committed"}))
WindowCount(rows, m, w) ==
    MapThenSumSet(LAMBDA t : rows[t].units, InWindow(rows, m, w, {"reserved", "committed"}))

Available(rows, m) ==
    /\ rules[m].enabled
    /\ Limited(m) /\ CurrentWindow(m) # 0
          => WindowCount(rows, m, CurrentWindow(m)) < rules[m].limit

SetRules ==
    /\ \E policy \in Policies : rules' = policy /\ rules' # rules
    /\ UNCHANGED <<windowVars, usages, handlerVars>>

ResetWindows ==
    /\ \E models \in {Models} \cup {{m} : m \in Models} :
          /\ windows' = [m \in Models |-> IF m \in models THEN 0 ELSE windows[m]]
          /\ ended' = ended \ models
    /\ windows' # windows
    /\ UNCHANGED <<rules, opened, usages, handlerVars>>

WindowEnds(m) ==
    /\ windows[m] # 0 /\ m \notin ended
    /\ ended' = ended \cup {m}
    /\ UNCHANGED <<rules, windows, opened, usages, handlerVars>>

\* An hour passes.
GrowsOld(t) ==
    /\ usages[t].status = "reserved" /\ ~usages[t].old
    /\ usages' = [usages EXCEPT ![t].old = TRUE]
    /\ UNCHANGED <<rules, windowVars, handlerVars>>

\* The client asks what is left of the allowance.
QuotaSummary ==
    /\ usages' = Cleaned(usages)
    /\ windows' = [m \in Models |-> CurrentWindow(m)]
    /\ ended' = {m \in ended : ~Limited(m)}
    /\ <<usages', windows'>> # <<usages, windows>>
    /\ UNCHANGED <<rules, opened, handlerVars>>

-----------------------------------------------------------------------------
(***************************************************************************)
(* reserve().  The model asked for, or the first of its fallbacks with     *)
(* something left; a window is opened with the first reservation in it.  A *)
(* refusal rolls everything back.                                          *)
(***************************************************************************)
Chain(m) == LET c[n \in 0 .. Cardinality(Models)] ==
                    IF n = 0 THEN m
                    ELSE IF c[n - 1] = NoModel \/ ~Limited(c[n - 1]) THEN NoModel
                    ELSE Fallback[c[n - 1]]
            IN c

Effective(m, rows) ==
    LET allowed(n) == Chain(m)[n] \in Models /\ rules[Chain(m)[n]].enabled
        first == {n \in DOMAIN Chain(m) :
                    /\ allowed(n) /\ Available(rows, Chain(m)[n])
                    /\ \A i \in 0 .. n - 1 : allowed(i) /\ ~Available(rows, Chain(m)[i])}
    IN {Chain(m)[n] : n \in first}

Goto(t, label) == phase' = [phase EXCEPT ![t] = label]
Drop(t, job) == jobs' = [jobs EXCEPT ![t] = @ \ {job}]
Cut == cuts < MaxCuts /\ cuts' = cuts + 1

Reserved(t, m) ==
    LET fresh == Limited(m) /\ CurrentWindow(m) = 0
    IN /\ fresh => opened < MaxWindows
       /\ opened' = IF fresh THEN opened + 1 ELSE opened
       /\ windows' = [x \in Models |-> IF x = m /\ fresh THEN opened + 1 ELSE CurrentWindow(x)]
       /\ ended' = {x \in ended : ~Limited(x)}
       /\ usages' = [Cleaned(usages) EXCEPT ![t] =
                       [@ EXCEPT !.status = "reserved", !.model = m, !.asked = NoModel,
                                 !.window = IF Limited(m) THEN windows'[m] ELSE 0]]

Reserve(t) ==
    /\ "reserve" \in jobs[t]
    /\ \E m \in Effective(usages[t].asked, Cleaned(usages)) : Reserved(t, m)
    /\ Drop(t, "reserve")
    /\ Goto(t, IF phase[t] = "reserving" THEN "asking" ELSE "over")
    /\ UNCHANGED <<rules, kind, lease, content, counted, shown, left, cuts>>

\* Nothing is left, or the model is forbidden: 429 or 403.
Refuse(t) ==
    /\ "reserve" \in jobs[t]
    /\ Effective(usages[t].asked, Cleaned(usages)) = {}
    /\ Drop(t, "reserve") /\ Goto(t, "over")
    /\ lease' = lease \ {t}
    /\ usages' = [usages EXCEPT ![t].asked = NoModel]
    /\ UNCHANGED <<rules, windowVars, kind, content, counted, shown, left, cuts>>

-----------------------------------------------------------------------------
(***************************************************************************)
(* finalize().  A row is settled once; the units of a chat are 1, those of *)
(* an image are brought into range.                                        *)
(***************************************************************************)
Clamped(n) == IF n < 1 THEN 1 ELSE IF n > MaxUnits THEN MaxUnits ELSE n

Finalized(t, status, units) ==
    usages' = IF usages[t].status = "reserved"
              THEN [usages EXCEPT ![t] = [@ EXCEPT !.status = status, !.units = units]]
              ELSE usages

Commit(t) ==
    /\ "commit" \in jobs[t]
    /\ IF kind[t] = "image" THEN \E n \in Reports : Finalized(t, "committed", Clamped(n))
       ELSE Finalized(t, "committed", 1)
    /\ Drop(t, "commit")
    /\ IF phase[t] = "committing"
       THEN /\ counted' = counted \cup {t} /\ shown' = shown \cup {t} /\ Goto(t, "shown")
       ELSE /\ Goto(t, IF kind[t] = "image" THEN "over" ELSE phase[t])
            /\ UNCHANGED <<counted, shown>>
    /\ UNCHANGED <<rules, windowVars, kind, lease, content, left, cuts>>

Release(t) ==
    /\ "release" \in jobs[t]
    /\ Finalized(t, "released", 1)
    /\ Drop(t, "release")
    /\ Goto(t, "over") /\ lease' = lease \ {t}
    /\ UNCHANGED <<rules, windowVars, kind, content, counted, shown, left, cuts>>

-----------------------------------------------------------------------------
(***************************************************************************)
(* The handler: prepare_chat_request(), the call of the model, the stream. *)
(***************************************************************************)
Arrive(t, k, m) ==
    /\ phase[t] = "idle" /\ Goto(t, "queued")
    /\ kind' = [kind EXCEPT ![t] = k]
    /\ usages' = [usages EXCEPT ![t].asked = IF k = "task" THEN NoModel ELSE m]
    /\ UNCHANGED <<rules, windowVars, lease, jobs, content, counted, shown, left, cuts>>

\* prepare_image_generation(): no queue, no lease.
ArriveImage(t, m) ==
    /\ phase[t] = "idle" /\ Goto(t, "reserving")
    /\ kind' = [kind EXCEPT ![t] = "image"]
    /\ usages' = [usages EXCEPT ![t].asked = m]
    /\ jobs' = [jobs EXCEPT ![t] = {"reserve"}]
    /\ UNCHANGED <<rules, windowVars, lease, content, counted, shown, left, cuts>>

\* The queue's wait may be long: the subscription, looked at on arrival, is not
\* looked at again.
Admit(t) ==
    /\ phase[t] = "queued"
    /\ lease' = lease \cup {t}
    /\ IF kind[t] = "task" THEN Goto(t, "asking") /\ UNCHANGED jobs
       ELSE Goto(t, "reserving") /\ jobs' = [jobs EXCEPT ![t] = {"reserve"}]
    /\ UNCHANGED <<rules, windowVars, usages, kind, content, counted, shown, left, cuts>>

\* The queue's timeout, no capacity, or the client has gone.
TurnAway(t) ==
    /\ phase[t] = "queued" /\ Goto(t, "over")
    /\ usages' = [usages EXCEPT ![t].asked = NoModel]
    /\ UNCHANGED <<rules, windowVars, kind, lease, jobs, content, counted,
                   shown, left, cuts>>

\* A stream to be iterated later, or a whole reply.
Answered(t) ==
    /\ phase[t] = "asking" /\ kind[t] # "image"
    /\ \E label \in {"returned", "streaming"} : Goto(t, label)
    /\ UNCHANGED <<rules, windowVars, usages, kind, lease, jobs, content, counted,
                   shown, left, cuts>>

Iterate(t) ==
    /\ phase[t] = "returned" /\ Goto(t, "streaming")
    /\ UNCHANGED <<rules, windowVars, usages, kind, lease, jobs, content, counted,
                   shown, left, cuts>>

\* The first chunk with content is held back until it is recorded and counted.
FirstContent(t) ==
    /\ phase[t] = "streaming" /\ t \notin content
    /\ content' = content \cup {t}
    /\ IF kind[t] = "task" THEN Goto(t, "shown") /\ shown' = shown \cup {t}
       ELSE Goto(t, "counting") /\ UNCHANGED shown
    /\ UNCHANGED <<rules, windowVars, usages, kind, lease, jobs, counted, left, cuts>>

RecordFirstContent(t) ==
    /\ phase[t] = "counting" /\ Goto(t, "committing")
    /\ jobs' = [jobs EXCEPT ![t] = @ \cup {"commit"}]
    /\ UNCHANGED <<rules, windowVars, usages, kind, lease, content, counted, shown,
                   left, cuts>>

\* Mutant: a turn that had content is taken for a counted one.
CompleteByContent(t) ==
    IF kind[t] = "task" \/ t \in content
    THEN Goto(t, "over") /\ lease' = lease \ {t}
    ELSE Goto(t, "closing") /\ UNCHANGED lease
\* _complete_context(): what was not counted is released, the lease goes back last.
Complete(t) ==
    IF kind[t] = "task" \/ t \in counted
    THEN Goto(t, "over") /\ lease' = lease \ {t}
    ELSE Goto(t, "closing") /\ UNCHANGED lease

Completed(t) == Complete(t) /\ jobs' = [jobs EXCEPT ![t] =
                  IF phase'[t] = "closing" THEN @ \cup {"release"} ELSE @]

\* The end of the stream or of the reply, or the upstream's error.
Ends(t) ==
    /\ phase[t] \in {"asking", "streaming", "shown"} /\ kind[t] # "image"
    /\ Completed(t)
    /\ UNCHANGED <<rules, windowVars, usages, kind, content, counted, shown, left, cuts>>

\* finalize_image_generation(): completed first, then committed or released.
ImageEnds(t) ==
    /\ phase[t] = "asking" /\ kind[t] = "image"
    /\ Goto(t, "closing")
    /\ \E job \in {"commit", "release"} : jobs' = [jobs EXCEPT ![t] = {job}]
    /\ content' = IF "commit" \in jobs'[t] THEN content \cup {t} ELSE content
    /\ UNCHANGED <<rules, windowVars, usages, kind, lease, counted, shown, left, cuts>>

-----------------------------------------------------------------------------
(***************************************************************************)
(* The client goes away, or the store fails: at an await whose thread goes *)
(* on or has not started.                                                  *)
(***************************************************************************)
Abandoned(t, job) == \/ UNCHANGED jobs
                     \/ Drop(t, job)

CutReserving(t) ==
    /\ phase[t] = "reserving" /\ Cut
    /\ Goto(t, "over") /\ lease' = lease \ {t}
    /\ Abandoned(t, "reserve")
    /\ left' = [left EXCEPT ![t] = "reserve"]
    /\ UNCHANGED <<rules, windowVars, usages, kind, content, counted, shown>>

\* A stream that nobody has begun to iterate has no handler; neither has an
\* image before its upstream is asked.
CutOpen(t) ==
    /\ phase[t] = "returned" \/ (phase[t] = "asking" /\ kind[t] = "image")
    /\ Cut /\ Goto(t, "over")
    /\ left' = [left EXCEPT ![t] = "open"]
    /\ UNCHANGED <<rules, windowVars, usages, kind, lease, jobs, content, counted, shown>>

CutCounting(t) ==
    /\ phase[t] \in {"counting", "committing"} /\ Cut
    /\ Complete(t)
    /\ \E kept \in SUBSET jobs[t] :
          jobs' = [jobs EXCEPT ![t] = IF phase'[t] = "closing" THEN kept \cup {"release"} ELSE kept]
    /\ UNCHANGED <<rules, windowVars, usages, kind, content, counted, shown, left>>

CutClosing(t) ==
    /\ phase[t] = "closing" /\ Cut
    /\ Goto(t, "over") /\ lease' = lease \ {t}
    /\ \E kept \in SUBSET jobs[t] : jobs' = [jobs EXCEPT ![t] = kept]
    /\ left' = [left EXCEPT ![t] = "settle"]
    /\ UNCHANGED <<rules, windowVars, usages, kind, content, counted, shown>>

Threads(t) == Reserve(t) \/ Refuse(t) \/ Commit(t) \/ Release(t)
Handler(t) ==
    \/ \E k \in {"chat", "task"}, m \in Models : Arrive(t, k, m)
    \/ \E m \in Models : ArriveImage(t, m)
    \/ Admit(t) \/ TurnAway(t) \/ Answered(t) \/ Iterate(t) \/ FirstContent(t)
    \/ RecordFirstContent(t) \/ Ends(t) \/ ImageEnds(t)
Cuts(t) == CutReserving(t) \/ CutOpen(t) \/ CutCounting(t) \/ CutClosing(t)

MeteringNext ==
    \/ \E t \in Turns : Threads(t) \/ Handler(t) \/ Cuts(t) \/ GrowsOld(t)
    \/ \E m \in Models : WindowEnds(m)
    \/ SetRules \/ ResetWindows \/ QuotaSummary

MeteringSpec == MeteringInit /\ [][MeteringNext]_meteringVars

-----------------------------------------------------------------------------
\* A reservation finds room in its model's window, whatever was reserved,
\* settled, cleaned up or reset in the meantime: no window holds more turns
\* than the limit in force (store.py, reserve).
RoomWhenReserved ==
    [][\A t \in Turns : usages[t].status = "none" /\ usages'[t].status = "reserved"
          => LET m == usages'[t].model
                 w == usages'[t].window
             IN w # 0 => Cardinality(InWindow(usages', m, w, {"reserved", "committed"}))
                           <= rules[m].limit]_meteringVars

\* A row is settled once: a late commit or release, of a thread that outlives
\* its request or of a turn that took too long, changes nothing (finalize).
SettledOnce ==
    [][\A t \in Turns : usages[t].status \in {"committed", "released"}
          => usages'[t] = usages[t]]_meteringVars

\* A user is charged only for a turn that produced content (metering.py).
ChargedForContent == \A t \in Turns : usages[t].status = "committed" => t \in content

\* Content that reaches the user has been counted, unless its reservation was
\* an hour old and another request has released it (tracked_chat_stream).
ShownIsCounted == \A t \in shown :
    kind[t] = "chat" => usages[t].status = "committed" \/ usages[t].old

\* A turn that is over has given its lease back, unless its stream was never
\* begun (_complete_context, prepare_chat_request).
LeaseReturned == \A t \in lease : phase[t] = "over" => left[t] = "open"

\* A reservation that nobody will settle belongs to a turn that was cut off.
OwnedOrCut == \A t \in Turns :
    usages[t].status = "reserved" /\ phase[t] = "over" /\ jobs[t] = {} => left[t] # "no"

\* Every way out of a turn settles it: what is shown is charged, what is
\* charged was shown to begin, and neither a lease nor a reservation stays
\* behind unless the turn was cut off where the code does not see it.
TurnsSettled == MeteringTypeOK /\ ChargedForContent /\ ShownIsCounted /\ LeaseReturned /\ OwnedOrCut

\* Reserving and settling at once keep to the limits and to one verdict per turn.
AllowanceKept == RoomWhenReserved /\ SettledOnce
=============================================================================
