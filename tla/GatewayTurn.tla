----------------------------- MODULE GatewayTurn -----------------------------
(***************************************************************************)
(* One chat completion of the gateway (app.py, completions()), from the    *)
(* arrival of the HTTP request to the end of its answer: the reservation   *)
(* of project credit, the attempts on one account after another, the       *)
(* stream, and the two debts a turn leaves, a lease to give back and a     *)
(* call to record.  The ledger is ProjectLedger's and moves only as its    *)
(* own actions say.  Of the account pool only the slots are kept here;     *)
(* which account it offers, and how a lease lapses, is AccountPool's.      *)
(*                                                                         *)
(* A client may go away at every await, and the store may fail in every    *)
(* call.  At some awaits a handler for it pays both debts; Unprotected     *)
(* lists the others.  The calls of the store run in threads: one whose     *)
(* caller was cancelled runs on.                                           *)
(***************************************************************************)
EXTENDS ProjectLedger

CONSTANTS
    Turns,          \* HTTP requests
    Master,         \* in place of a project call: a turn of Open WebUI itself
    Accounts, Slots,
    MaxAttempts,    \* account_failover_max_attempts
    NoAccount,
    MaxFaults       \* bound on failures and cancellations

ASSUME TurnAssumption ==
    /\ Master \notin Calls
    /\ IsFiniteSet(Accounts) /\ NoAccount \notin Accounts
    /\ Slots \in [Accounts -> Nat \ {0}]
    /\ MaxAttempts \in Nat \ {0} /\ MaxFaults \in Nat

VARIABLES
    pc,         \* where the handler of a turn is
    call,       \* the project call it is made for
    leased,     \* the account whose lease it holds
    tried,      \* attempted_account_ids
    failure,    \* last_safe_failure: the status to answer with
    reply,      \* the status the caller has got
    let,        \* turns whose project call has been authorized
    asked,      \* accounts that may have begun to work on the prompt
    empty,      \* accounts that have answered with an empty stream
    cut,        \* where a turn was stopped at an await nothing protects
    stray,      \* turns that were stopped while a thread worked for them
    unreleased, \* turns whose release failed
    unrecorded, \* turns whose record was not written or not even tried
    faults

debtVars == <<cut, stray, unreleased, unrecorded>>
turnVars == <<pc, call, leased, tried, failure, reply, let, asked, empty, debtVars>>
gatewayVars == <<ledgerVars, turnVars, faults>>

PC == {"idle", "arrived", "trying", "tracking", "connecting", "sending", "answered",
       "prefetching", "opened", "relaying", "finalizing", "closing", "releasing",
       "retreating", "dropping", "settling", "over"}
Status == {"none", "200", "401", "402", "403", "409", "429", "4xx", "499", "502", "503"}

\* What comes after the lease is given back: the record, the next attempt, or
\* nothing any more; finalize() gives it back in a place of its own.
After == [releasing |-> "settling", retreating |-> "trying", dropping |-> "over",
          closing |-> "settling"]

\* Awaits at which a cancellation, or an error of the store, ends the handler
\* although a debt is open or is about to be run up: the reservation, the pool,
\* the tracking before and after the upstream's work, an error of the first
\* chunks that is no UpstreamFailure, the response whose body is never
\* iterated, finalize() itself, which has set `finalized' already, each
\* release, and the record at the end.
Unprotected == {"arrived", "trying", "tracking", "answered", "prefetching", "opened",
                "finalizing", "settling"} \cup DOMAIN After

GatewayTypeOK ==
    /\ LedgerTypeOK
    /\ pc \in [Turns -> PC]
    /\ call \in [Turns -> Calls \cup {Master}]
    /\ leased \in [Turns -> Accounts \cup {NoAccount}]
    /\ tried \in [Turns -> SUBSET Accounts]
    /\ failure \in [Turns -> Status] /\ reply \in [Turns -> Status]
    /\ asked \in [Turns -> SUBSET Accounts] /\ empty \in [Turns -> SUBSET Accounts]
    /\ cut \in [Turns -> Unprotected \cup {"nowhere"}]
    /\ let \subseteq Turns /\ stray \subseteq Turns
    /\ unreleased \subseteq Turns /\ unrecorded \subseteq Turns
    /\ faults \in 0 .. MaxFaults

GatewayInit ==
    /\ LedgerInit
    /\ pc = [t \in Turns |-> "idle"]
    /\ call = [t \in Turns |-> Master]
    /\ leased = [t \in Turns |-> NoAccount]
    /\ tried = [t \in Turns |-> {}]
    /\ failure = [t \in Turns |-> "none"]
    /\ reply = [t \in Turns |-> "none"]
    /\ asked = [t \in Turns |-> {}] /\ empty = [t \in Turns |-> {}]
    /\ cut = [t \in Turns |-> "nowhere"]
    /\ let = {} /\ stray = {} /\ unreleased = {} /\ unrecorded = {}
    /\ faults = 0

Goto(t, label) == pc' = [pc EXCEPT ![t] = label]
Answer(t, status) == reply' = [reply EXCEPT ![t] = status]
Fault == faults < MaxFaults /\ faults' = faults + 1

Mine(t) == call[t]
IsProject(t) == call[t] # Master

\* The attempt has failed safely: its lease goes back, the loop goes on.
TryNext(t, status) ==
    /\ failure' = [failure EXCEPT ![t] = status]
    /\ Goto(t, "retreating")
    /\ UNCHANGED <<call, leased, reply, let, debtVars>>

\* The lease goes back, then the call is recorded.
Pay(t, status, label) ==
    /\ Answer(t, status) /\ Goto(t, label)
    /\ UNCHANGED <<call, leased, tried, failure, let, asked, empty, debtVars>>

\* AccountLease.release()
Release(t) ==
    /\ pc[t] \in DOMAIN After
    /\ leased' = [leased EXCEPT ![t] = NoAccount]
    /\ Goto(t, After[pc[t]])
    /\ UNCHANGED <<ledgerVars, call, tried, failure, reply, let, asked, empty, debtVars, faults>>

\* It raises when the store does: finalize() forgets that and records the call,
\* every other caller ends there.
ReleaseFails(t) ==
    /\ pc[t] \in DOMAIN After /\ Fault
    /\ unreleased' = unreleased \cup {t}
    /\ IF pc[t] = "closing"
       THEN Goto(t, "settling") /\ UNCHANGED unrecorded
       ELSE Goto(t, "over") /\ unrecorded' = unrecorded \cup {t}
    /\ UNCHANGED <<ledgerVars, call, leased, tried, failure, reply, let, asked, empty, cut, stray>>

-----------------------------------------------------------------------------
(***************************************************************************)
(* record_project_usage(): a failure of the store is logged and forgotten. *)
(* Only an answer with token counts has a price.                           *)
(***************************************************************************)
Priced(t) == IF reply[t] \in {"200", "499"} THEN Prices \cup {0} ELSE {0}

\* Mutant: an error is not worth a record.
RecordedIfPriced(t, prices) ==
    IF ~IsProject(t) \/ prices = {0} THEN UNCHANGED <<ledgerVars, unrecorded, faults>>
    ELSE \/ /\ \E price \in prices : Record(Mine(t), price)
            /\ UNCHANGED <<unrecorded, faults>>
         \/ Mine(t) \in usage /\ UNCHANGED <<ledgerVars, unrecorded, faults>>

Recorded(t, prices) ==
    IF ~IsProject(t) THEN UNCHANGED <<ledgerVars, unrecorded, faults>>
    ELSE \/ /\ \E price \in prices : Record(Mine(t), price)
            /\ UNCHANGED <<unrecorded, faults>>
         \/ Mine(t) \in usage /\ UNCHANGED <<ledgerVars, unrecorded, faults>>
         \/ Fault /\ unrecorded' = unrecorded \cup {t} /\ UNCHANGED ledgerVars

Settle(t) ==
    /\ pc[t] = "settling"
    /\ Recorded(t, Priced(t))
    /\ Goto(t, "over")
    /\ UNCHANGED <<call, leased, tried, failure, reply, let, asked, empty, cut, stray, unreleased>>

-----------------------------------------------------------------------------
(* Before the first attempt. *)

\* A caller may send a call again, under the identifier it had before.
Arrive(t) ==
    /\ pc[t] = "idle"
    /\ \E c \in Calls \cup {Master} : call' = [call EXCEPT ![t] = c]
    /\ Goto(t, "arrived")
    /\ UNCHANGED <<ledgerVars, leased, tried, failure, reply, let, asked, empty, debtVars, faults>>

\* require_call_key()
Authenticated(t) == IsProject(t) => MayCall(Mine(t))

Unauthorized(t) ==
    /\ pc[t] = "arrived" /\ ~Authenticated(t)
    /\ Answer(t, "401") /\ Goto(t, "over")
    /\ UNCHANGED <<ledgerVars, call, leased, tried, failure, let, asked, empty, debtVars, faults>>

\* An unknown model, a selection or an image that is refused: the call is
\* recorded as an error before it was authorized.
Reject(t) ==
    /\ pc[t] = "arrived" /\ Authenticated(t)
    /\ Recorded(t, {0})
    /\ Answer(t, "4xx") /\ Goto(t, "over")
    /\ UNCHANGED <<call, leased, tried, failure, let, asked, empty, cut, stray, unreleased>>

Authorize(t) ==
    /\ pc[t] = "arrived" /\ Authenticated(t)
    /\ IF IsProject(t) THEN \E price \in Prices : Begin(Mine(t), price)
       ELSE UNCHANGED ledgerVars
    /\ let' = let \cup {t}
    /\ Goto(t, "trying")
    /\ UNCHANGED <<call, leased, tried, failure, reply, asked, empty, debtVars, faults>>

\* The owner is looked at first, then its credit, then the identifier.
Refusal(c, price) ==
    IF ~MayCall(c) THEN "403"
    ELSE IF ~Affordable(c, price) THEN "402"
    ELSE IF requests[c] # NoRequest THEN "409" ELSE "none"

Refuse(t) ==
    /\ pc[t] = "arrived" /\ IsProject(t) /\ Mine(t)[1] \in {k \in KeyIds : keys[k] # NoKey}
    /\ \E price \in Prices : /\ Refusal(Mine(t), price) # "none"
                             /\ Answer(t, Refusal(Mine(t), price))
    /\ Goto(t, "over")
    /\ UNCHANGED <<ledgerVars, call, leased, tried, failure, let, asked, empty, debtVars, faults>>

-----------------------------------------------------------------------------
(* The attempts. *)

Taken(a) == {t \in Turns : leased[t] = a}
Free(a) == Cardinality(Taken(a)) < Slots[a]

Acquire(t, a) ==
    /\ pc[t] = "trying" /\ Cardinality(tried[t]) < MaxAttempts
    /\ a \notin tried[t] /\ Free(a)
    /\ leased' = [leased EXCEPT ![t] = a]
    /\ tried' = [tried EXCEPT ![t] = @ \cup {a}]
    /\ Goto(t, "tracking")
    /\ UNCHANGED <<ledgerVars, call, failure, reply, let, asked, empty, debtVars, faults>>

AttemptsUsed(t) == Cardinality(tried[t]) >= MaxAttempts

\* AccountUnavailable, or the last attempt has failed too.
GiveUp(t) ==
    /\ pc[t] = "trying"
    /\ AttemptsUsed(t) \/ \A a \in Accounts \ tried[t] : ~Free(a)
    /\ Answer(t, IF failure[t] # "none" THEN failure[t] ELSE "503")
    /\ Goto(t, "settling")
    /\ UNCHANGED <<ledgerVars, call, leased, tried, failure, let, asked, empty, debtVars, faults>>

\* upstream_cleanup.record() of the conversation's cache key
Track(t) ==
    /\ pc[t] = "tracking"
    /\ Goto(t, "connecting")
    /\ UNCHANGED <<ledgerVars, call, leased, tried, failure, reply, let, asked, empty, debtVars, faults>>

\* client_for()
Connect(t) ==
    /\ pc[t] = "connecting"
    /\ Goto(t, "sending")
    /\ asked' = [asked EXCEPT ![t] = @ \cup {leased[t]}]
    /\ UNCHANGED <<ledgerVars, call, leased, tried, failure, reply, let, empty, debtVars, faults>>

ConnectFails(t) ==
    /\ pc[t] = "connecting" /\ Fault
    /\ TryNext(t, "502")
    /\ UNCHANGED <<ledgerVars, tried, asked, empty>>

\* 401, 403 and 429 prove that the account has not taken the prompt; the last
\* stands for all three.
SentSafely(t) ==
    /\ pc[t] = "sending" /\ Fault
    /\ TryNext(t, "429")
    /\ asked' = [asked EXCEPT ![t] = @ \ {leased[t]}]
    /\ UNCHANGED <<ledgerVars, tried, empty>>

\* Mutant: any failure of the upstream is taken over by the next account.
SendFailsOver(t) ==
    /\ pc[t] = "sending" /\ Fault
    /\ TryNext(t, "502")
    /\ UNCHANGED <<ledgerVars, tried, asked, empty>>

SendFails(t) ==
    /\ pc[t] = "sending" /\ Fault
    /\ Pay(t, "502", "releasing")
    /\ UNCHANGED ledgerVars

\* The answer of a request that does not stream, or the headers of a stream.
Sent(t) ==
    /\ pc[t] = "sending"
    /\ Goto(t, "answered") \/ Goto(t, "prefetching")
    /\ UNCHANGED <<ledgerVars, call, leased, tried, failure, reply, let, asked, empty, debtVars, faults>>

\* upstream_cleanup.record(), then the lease, then the call.
Complete(t) ==
    /\ pc[t] = "answered"
    /\ Pay(t, "200", "releasing")
    /\ UNCHANGED <<ledgerVars, faults>>

\* The client goes away while a handler for it is in place.
Cancelled(t) ==
    /\ pc[t] \in {"connecting", "sending"} /\ Fault
    /\ Pay(t, "499", "releasing")
    /\ UNCHANGED ledgerVars

-----------------------------------------------------------------------------
(* The stream. *)

\* There is content, or so much of it that the answer may begin.
Prefetched(t) ==
    /\ pc[t] = "prefetching"
    /\ Goto(t, "opened")
    /\ UNCHANGED <<ledgerVars, call, leased, tried, failure, reply, let, asked, empty, debtVars, faults>>

\* It ends, or reports an error, before any content.
PrefetchEmpty(t) ==
    /\ pc[t] = "prefetching" /\ Fault
    /\ TryNext(t, "502")
    /\ empty' = [empty EXCEPT ![t] = @ \cup {leased[t]}]
    /\ UNCHANGED <<ledgerVars, tried, asked>>

PrefetchFails(t) ==
    /\ pc[t] = "prefetching" /\ Fault
    /\ Pay(t, "502", "releasing")
    /\ UNCHANGED ledgerVars

\* The one handler that gives the lease back and does not record.
PrefetchCancelled(t) ==
    /\ pc[t] = "prefetching" /\ Fault
    /\ unrecorded' = unrecorded \cup {t}
    /\ Answer(t, "499") /\ Goto(t, "dropping")
    /\ UNCHANGED <<ledgerVars, call, leased, tried, failure, let, asked, empty, cut, stray, unreleased>>

\* The body of the response is iterated for the first time.
Relay(t) ==
    /\ pc[t] = "opened"
    /\ Goto(t, "relaying")
    /\ UNCHANGED <<ledgerVars, call, leased, tried, failure, reply, let, asked, empty, debtVars, faults>>

\* finalize() in the course of the loop: [DONE], an error event, a failure.
RelayEnds(t) ==
    /\ pc[t] = "relaying"
    /\ Goto(t, "finalizing")
    /\ UNCHANGED <<ledgerVars, call, leased, tried, failure, reply, let, asked, empty, debtVars, faults>>

\* Cancelled before finalize() has begun: a task of its own does it, which the
\* cancellation does not reach.
RelayCancelled(t) ==
    /\ pc[t] = "relaying" /\ Fault
    /\ Answer(t, "499") /\ Goto(t, "finalizing")
    /\ UNCHANGED <<ledgerVars, call, leased, tried, failure, let, asked, empty, debtVars>>

\* finalize() has tracked the upstream's resources, or failed to.
Finalize(t) ==
    /\ pc[t] = "finalizing"
    /\ \E status \in IF reply[t] = "499" THEN {"499"} ELSE {"200", "502"} :
          Pay(t, status, "closing")
    /\ UNCHANGED <<ledgerVars, faults>>

-----------------------------------------------------------------------------
(* Turns that are stopped, and the threads they leave behind. *)

Cut(t) ==
    /\ pc[t] \in Unprotected /\ Fault
    /\ pc[t] = "trying" => ~AttemptsUsed(t)
    /\ cut' = [cut EXCEPT ![t] = pc[t]]
    /\ stray' = IF pc[t] \in {"arrived", "trying", "settling"} \cup DOMAIN After
                THEN stray \cup {t} ELSE stray
    /\ Goto(t, "over")
    /\ UNCHANGED <<ledgerVars, call, leased, tried, failure, reply, let, asked, empty,
                   unreleased, unrecorded>>

\* begin_request() goes on for a handler that is gone.
StrayBegin(t) ==
    /\ cut[t] = "arrived" /\ IsProject(t)
    /\ \E price \in Prices : Begin(Mine(t), price)
    /\ let' = let \cup {t}
    /\ UNCHANGED leased

\* acquire() does: nobody will renew this lease, or give it back.
StrayAcquire(t, a) ==
    /\ cut[t] = "trying" /\ a \notin tried[t] /\ Free(a)
    /\ leased' = [leased EXCEPT ![t] = a]
    /\ UNCHANGED <<ledgerVars, let>>

StrayRelease(t) ==
    /\ cut[t] \in DOMAIN After
    /\ leased' = [leased EXCEPT ![t] = NoAccount]
    /\ UNCHANGED <<ledgerVars, let>>

StrayRecord(t) ==
    /\ cut[t] \in {"arrived", "settling"} /\ IsProject(t)
    /\ \E price \in Priced(t) : Record(Mine(t), price)
    /\ UNCHANGED <<leased, let>>

Stray(t) ==
    /\ t \in stray /\ stray' = stray \ {t}
    /\ \/ StrayBegin(t) \/ StrayRelease(t) \/ StrayRecord(t)
       \/ \E a \in Accounts : StrayAcquire(t, a)
    /\ UNCHANGED <<pc, call, tried, failure, reply, asked, empty, cut, unreleased, unrecorded, faults>>

-----------------------------------------------------------------------------
Step(t) ==
    \/ Unauthorized(t) \/ Reject(t) \/ Authorize(t) \/ Refuse(t)
    \/ (\E a \in Accounts : Acquire(t, a)) \/ GiveUp(t)
    \/ Track(t) \/ Connect(t) \/ Sent(t) \/ Complete(t) \/ Prefetched(t)
    \/ Relay(t) \/ RelayEnds(t) \/ Finalize(t) \/ Release(t) \/ Settle(t)

Trouble(t) ==
    \/ ConnectFails(t) \/ SentSafely(t) \/ SendFails(t) \/ Cancelled(t)
    \/ PrefetchEmpty(t) \/ PrefetchFails(t) \/ PrefetchCancelled(t)
    \/ RelayCancelled(t) \/ ReleaseFails(t) \/ Cut(t) \/ Stray(t)

Surroundings ==
    /\ Administer \/ \E c \in Calls : Lapse(c)
    /\ UNCHANGED <<turnVars, faults>>

GatewayNext == Surroundings \/ \E t \in Turns : Arrive(t) \/ Step(t) \/ Trouble(t)

GatewaySpec == GatewayInit /\ [][GatewayNext]_gatewayVars

-----------------------------------------------------------------------------
(***************************************************************************)
(* Properties.                                                             *)
(***************************************************************************)
\* A handler that is over holds no lease, unless the release failed or the
\* handler was stopped between the call of the pool and the end of a release
\* (app.py 2352, 2411, 2557, 2663, 2870, 2941 and each release; the heartbeat
\* goes on renewing such a lease, but for one that a thread took or that was
\* about to be given back).
LeaseGivenBack ==
    \A t \in Turns : (pc[t] = "over" /\ leased[t] # NoAccount)
        => t \in unreleased \/ cut[t] \notin {"nowhere", "arrived", "settling"}

\* A call whose reservation was made ends up in the usage table, unless its
\* record failed, was never tried (after a release that raised, but in
\* finalize(), and after a cancellation while the stream is prefetched) or the
\* handler was stopped.
LetMeansRecorded ==
    \A t \in Turns : (pc[t] = "over" /\ t \in let /\ IsProject(t))
        => Mine(t) \in usage \/ cut[t] # "nowhere" \/ t \in unrecorded

\* A completion that is over has paid both debts it runs up, the lease of an
\* account and the record of a call that was let through, on whatever path it
\* ended and whoever went away when, but at the awaits of Unprotected and for
\* the failures listed above (app.py 2127, 2346-2450, 2480-2700, 2733-2805,
\* 2863-2940, 3137-3189).
DebtsPaid == LeaseGivenBack /\ LetMeansRecorded

\* However a call is repeated, at once or later, one turn at most is let
\* through to the upstream for it.
LetOnce ==
    \A t, s \in let : (IsProject(t) /\ Mine(t) = Mine(s)) => t = s

\* A prompt that an account may have begun to work on is not given to another
\* one, but for an account that gave an empty stream (_safe_failover_reason:
\* "Ambiguous transport and 5xx failures are intentionally excluded").
AskedAgainOnlyIfEmpty ==
    \A t \in Turns : pc[t] = "sending" => asked[t] \ {leased[t]} \subseteq empty[t]

\* However often a call of the project API is sent, at once, after a refusal,
\* an administrator's change or the lapse of its reservation, it reaches the
\* upstream once, it is charged once, and it is charged only if its record is
\* there; nor is a grant of credit entered twice (project_usage.py 1367-1384,
\* 1208-1232 and the unique keys of 918-949).
PaidOnce == LetOnce /\ EnteredOnce /\ ChargedIfRecorded

\* The turns use accounts as the pool hands them out: a turn asks for a slot
\* when it has none, after every account that failed it, keeps to the account
\* it got, and never takes a lease up again that it gave back (app.py
\* 2346-2402, 2506-2526).  That a chat has one turn is the pool's own rule.
Slotted == INSTANCE SlotLeases
             WITH Holders <- Turns, at <- leased, RivalsOf <- [t \in Turns |-> {}]

UsesSlots == Slotted!Spec
=============================================================================
