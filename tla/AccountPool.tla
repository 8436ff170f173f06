----------------------------- MODULE AccountPool -----------------------------
(***************************************************************************)
(* The pool of upstream accounts behind the gateway                        *)
(* (src/chatgpt_web_gateway/account_pool.py): chat turns lease an account  *)
(* for as long as they run, a monitor tries lanes that were rate-limited,  *)
(* administrators edit accounts and log them in again.                     *)
(*                                                                         *)
(* A database transaction is one action, except the monitor's claim, which *)
(* does not lock the account it has read. One pool; accounts without a     *)
(* quota profile, so that no lane is ever exhausted.                       *)
(***************************************************************************)
EXTENDS Integers, FiniteSets

CONSTANTS
    Accounts,
    Lanes,           \* selection keys: model and thinking effort
    Turns,           \* chat turns; each may try several accounts
    Probes,          \* recovery probes that may run at a time
    Chats,
    ChatOf, LaneOf,  \* of each turn
    MaxConcurrency,  \* of each account
    LeaseTime,       \* lease_seconds, in beats of the heartbeat
    ClaimTime,       \* claim_seconds of a recovery lease
    CoolTime,        \* cooldown of an account after a failure
    BlockTime,       \* the longest time to the next probe of a lane
    Threshold,       \* failures that make an account unhealthy
    MaxAttempts,     \* account_failover_max_attempts
    Managed,         \* bound: accounts that are checked, edited and logged in
    MaxFaults        \* bound: lost commands and crashes

Holders == Turns \cup Probes
NoAccount == "no account"
NoLane == "no lane"

ASSUME PoolAssumption ==
    /\ NoAccount \notin Accounts /\ NoLane \notin Lanes
    /\ Turns \cap Probes = {}
    /\ IsFiniteSet(Turns) /\ IsFiniteSet(Probes)
    /\ ChatOf \in [Turns -> Chats] /\ LaneOf \in [Turns -> Lanes]
    /\ MaxConcurrency \in [Accounts -> Nat \ {0}]
    /\ LeaseTime \in Nat \ {0} /\ ClaimTime \in Nat \ {0}
    /\ Managed \subseteq Accounts
    /\ CoolTime \in Nat /\ BlockTime \in Nat /\ ClaimTime <= BlockTime
    /\ Threshold \in Nat \ {0} /\ MaxAttempts \in Nat /\ MaxFaults \in Nat

VARIABLES
    account,  \* the rows of chat_account
    limited,  \* lanes of accounts with a row in chat_account_lane_state
    until,    \* time until their blocked_until
    bound,    \* preferred_account_id of each chat's affinity row
    lease,    \* the last lease of each turn and each probe
    pc,       \* where each of them is
    beat,     \* heartbeats of the turns
    tried,    \* accounts that a turn has tried
    login,    \* the login of each account that an administrator has begun
    faults

rows == <<account, limited, until, bound, lease>>
vars == <<rows, pc, beat, tried, login, faults>>

Status == {"ready", "disabled", "cooldown", "reauth_required"}
Session == {"valid", "expired", "unknown"}
Health == {"unknown", "healthy", "degraded", "unhealthy"}
Account == [enabled: BOOLEAN, status: Status, session: Session,
            health: Health, failures: 0..Threshold, cool: 0..CoolTime]
Login == {"none", "begun", "raced"}
Lease == [state: {"none", "active", "expired", "ended"},
          account: Accounts \cup {NoAccount}, lane: Lanes \cup {NoLane},
          left: 0..(LeaseTime + ClaimTime)]

Deployed == [enabled |-> TRUE, status |-> "ready", session |-> "valid",
             health |-> "unknown", failures |-> 0, cool |-> 0]
NoLease == [state |-> "none", account |-> NoAccount, lane |-> NoLane,
            left |-> 0]

Init ==
    /\ account = [a \in Accounts |-> Deployed]
    /\ limited = {}
    /\ until = [s \in Accounts \X Lanes |-> 0]
    /\ bound = [c \in Chats |-> NoAccount]
    /\ lease = [h \in Holders |-> NoLease]
    /\ pc = [h \in Holders |-> "idle"]
    /\ beat = [t \in Turns |-> "off"]
    /\ tried = [t \in Turns |-> {}]
    /\ login = [a \in Accounts |-> "none"]
    /\ faults = 0

Goto(h, label) == pc' = [pc EXCEPT ![h] = label]

Fault ==
    /\ faults < MaxFaults
    /\ faults' = faults + 1

-----------------------------------------------------------------------------
(* What the transactions have in common. *)

\* Mutant of Cooled: an account that has cooled down is always ready.
CooledToReady(acc) ==
    IF acc.status = "cooldown" /\ acc.cool = 0
    THEN [acc EXCEPT !.status = "ready", !.health = "unknown"] ELSE acc

\* _expire(): leases whose time is up, and accounts that have cooled down.
Cooled(acc) ==
    IF acc.status = "cooldown" /\ acc.cool = 0
    THEN [acc EXCEPT
            !.status = IF acc.enabled /\ acc.session = "valid"
                       THEN "ready" ELSE "disabled",
            !.health = "unknown"]
    ELSE acc

\* Mutant of Ended: leases are never marked expired.
NeverEnded(l) == l

Ended(l) ==
    IF l.state = "active" /\ l.left = 0
    THEN [l EXCEPT !.state = "expired"] ELSE l

AccountsNow == [a \in Accounts |-> Cooled(account[a])]
LeasesNow == [h \in Holders |-> Ended(lease[h])]

\* The leases that count: active and expires_at > now.
Active(a) ==
    {h \in Holders :
        /\ lease[h].state = "active" /\ lease[h].left > 0
        /\ lease[h].account = a}

\* Mutant of HasRoom: recovery leases are not counted.
HasRoomForTurns(a) == Cardinality(Active(a) \cap Turns) < MaxConcurrency[a]

HasRoom(a) == Cardinality(Active(a)) < MaxConcurrency[a]

Usable(acc) ==
    /\ acc.enabled /\ acc.status = "ready" /\ acc.session = "valid"
    /\ acc.health \in {"unknown", "healthy"}

\* The advisory lock of the pool is held by a claim until it commits.
PoolLocked == \E p \in Probes : pc[p] = "claiming"

-----------------------------------------------------------------------------
(* Leases of chat turns. *)

\* Mutant of ChatBusy: a lease that has only one beat left does not count.
ChatBusyForLong(t) ==
    \E u \in Turns :
        /\ ChatOf[u] = ChatOf[t]
        /\ lease[u].state = "active" /\ lease[u].left > 1

ChatBusy(t) ==
    \E u \in Turns :
        /\ ChatOf[u] = ChatOf[t]
        /\ lease[u].state = "active" /\ lease[u].left > 0

\* _choose_account(): a chat stays with its account while that has room; the
\* order among the others is left open.
Choice(t) ==
    LET able == {a \in Accounts \ tried[t] :
                    /\ Usable(AccountsNow[a]) /\ AccountsNow[a].cool = 0
                    /\ <<a, LaneOf[t]>> \notin limited
                    /\ HasRoom(a)}
    IN  IF bound[ChatOf[t]] \in able THEN {bound[ChatOf[t]]} ELSE able

Acquire(t, a) ==
    /\ pc[t] = "idle" /\ ~PoolLocked
    /\ ~ChatBusy(t) /\ a \in Choice(t)
    /\ account' = AccountsNow
    /\ lease' = [LeasesNow EXCEPT ![t] =
                    [state |-> "active", account |-> a, lane |-> LaneOf[t],
                     left |-> LeaseTime]]
    /\ bound' = [bound EXCEPT ![ChatOf[t]] = a]
    /\ Goto(t, "working")
    /\ beat' = [beat EXCEPT ![t] = "waiting"]
    /\ tried' = [tried EXCEPT ![t] = @ \cup {a}]
    /\ UNCHANGED <<limited, until, login, faults>>

\* AccountUnavailable: the transaction is rolled back and the turn fails.
Refuse(t) ==
    /\ pc[t] = "idle" /\ ~PoolLocked
    /\ ChatBusy(t) \/ Choice(t) = {}
    /\ Goto(t, "over")
    /\ UNCHANGED <<rows, beat, tried, login, faults>>

\* Mutant of Renew: the row is touched but expires_at stays.
RenewWithoutEffect(t) ==
    /\ beat[t] = "due"
    /\ account' = AccountsNow /\ lease' = LeasesNow
    /\ beat' = [beat EXCEPT ![t] =
                IF LeasesNow[t].state = "active" THEN "waiting" ELSE "off"]
    /\ UNCHANGED <<limited, until, bound, pc, tried, login, faults>>

\* The heartbeat of a lease; it stops when the lease is no longer renewed.
Renew(t) ==
    /\ beat[t] = "due"
    /\ account' = AccountsNow
    /\ IF LeasesNow[t].state = "active"
       THEN /\ lease' = [LeasesNow EXCEPT ![t].left = LeaseTime]
            /\ beat' = [beat EXCEPT ![t] = "waiting"]
       ELSE /\ lease' = LeasesNow
            /\ beat' = [beat EXCEPT ![t] = "off"]
    /\ UNCHANGED <<limited, until, bound, pc, tried, login, faults>>

RenewFails(t) ==
    /\ beat[t] = "due" /\ Fault
    /\ beat' = [beat EXCEPT ![t] = "waiting"]
    /\ UNCHANGED <<rows, pc, tried, login>>

\* _apply_account_result()
Outcome == {"success", "cancelled", "denied", "limited", "error"}
OneMore(acc) ==
    IF acc.failures < Threshold THEN acc.failures + 1 ELSE Threshold
Ready(acc) == IF acc.enabled THEN "ready" ELSE "disabled"

Result(acc, outcome) ==
    CASE outcome = "success" ->
            [acc EXCEPT !.status = Ready(acc), !.session = "valid",
                        !.health = "healthy", !.failures = 0, !.cool = 0]
      [] outcome = "cancelled" -> acc
      [] outcome = "denied" ->
            [acc EXCEPT !.status = "reauth_required", !.session = "expired",
                        !.health = "unhealthy", !.failures = OneMore(acc)]
      [] outcome = "limited" ->
            [acc EXCEPT !.status = Ready(acc), !.session = "valid",
                        !.health = "healthy", !.failures = OneMore(acc),
                        !.cool = 0]
      [] outcome = "error" ->
            [acc EXCEPT
                !.status = IF acc.enabled THEN "cooldown" ELSE "disabled",
                !.health = IF OneMore(acc) = Threshold
                           THEN "unhealthy" ELSE "degraded",
                !.failures = OneMore(acc), !.cool = CoolTime]

\* release(): a 429 blocks the lane, a success clears it. It has no effect
\* when the lease has been marked expired before.
Settle(h, outcome) ==
    LET a == lease[h].account
        s == <<a, lease[h].lane>>
    IN  /\ lease' = [lease EXCEPT ![h] = [NoLease EXCEPT !.state = "ended"]]
        /\ account' = [account EXCEPT ![a] = Result(@, outcome)]
        /\ IF outcome = "limited"
           THEN /\ limited' = limited \cup {s}
                /\ \E n \in 1..BlockTime : until' = [until EXCEPT ![s] = n]
           ELSE /\ limited' = limited \ {x \in {s} : outcome = "success"}
                /\ until' = until

\* A claim that has not committed yet keeps the lane's row locked.
RowFree(h, outcome) ==
    outcome \in {"success", "limited"} => \A p \in Probes :
        pc[p] = "claiming" => \/ lease[p].account # lease[h].account
                              \/ lease[p].lane # lease[h].lane

\* Mutant of Released: the answer counts although the lease has expired.
ReleasedLate(h, outcome) ==
    IF lease[h].state \in {"active", "expired"}
    THEN RowFree(h, outcome) /\ Settle(h, outcome) /\ UNCHANGED bound
    ELSE UNCHANGED rows

Released(h, outcome) ==
    IF lease[h].state = "active"
    THEN RowFree(h, outcome) /\ Settle(h, outcome) /\ UNCHANGED bound
    ELSE UNCHANGED rows

\* A turn ends with what the upstream answered, or tries another account as
\* long as nothing has been sent to the client (401, 403, 429, an empty
\* stream, no connection to the worker).
Finish(t, outcome) ==
    /\ pc[t] = "working"
    /\ Released(t, outcome)
    /\ beat' = [beat EXCEPT ![t] = "off"]
    /\ \/ Goto(t, "over")
       \/ /\ outcome \in {"denied", "limited", "error"}
          /\ Cardinality(tried[t]) < MaxAttempts
          /\ Goto(t, "idle")
    /\ UNCHANGED <<tried, login, faults>>

\* A process dies, or its release fails: nobody renews the lease.
Die(h) ==
    /\ pc[h] \in {"working", "claiming"} /\ Fault
    /\ IF h \in Turns
       THEN Goto(h, "over") /\ beat' = [beat EXCEPT ![h] = "off"]
       ELSE Goto(h, "idle") /\ UNCHANGED beat
    /\ UNCHANGED <<rows, tried, login>>

-----------------------------------------------------------------------------
(* The rate-limit recovery monitor. *)

\* Mutant of Due: accounts of unknown health, such as those that have just
\* cooled down, are left out.
DueIfHealthy(a, l) ==
    /\ <<a, l>> \in limited /\ until[<<a, l>>] = 0
    /\ Usable(AccountsNow[a]) /\ AccountsNow[a].health = "healthy"

Due(a, l) ==
    /\ <<a, l>> \in limited /\ until[<<a, l>>] = 0
    /\ Usable(AccountsNow[a])

\* claim_rate_limit_recoveries(): the statement that reads the account and
\* counts its leases locks neither. (A probe of the model is used again when
\* its lease is closed; a monitor that restarted uses another one.)
Claim(p, a, l) ==
    /\ pc[p] = "idle" /\ lease[p].state # "active" /\ ~PoolLocked
    /\ Due(a, l) /\ HasRoom(a)
    /\ account' = AccountsNow
    /\ lease' = [LeasesNow EXCEPT ![p] =
                    [state |-> "none", account |-> a, lane |-> l, left |-> 0]]
    /\ Goto(p, "claiming")
    /\ UNCHANGED <<limited, until, bound, beat, tried, login, faults>>

Commit(p) ==
    /\ pc[p] = "claiming"
    /\ lease' = [lease EXCEPT ![p].state = "active", ![p].left = ClaimTime]
    /\ until' = [until EXCEPT ![<<lease[p].account, lease[p].lane>>] = ClaimTime]
    /\ Goto(p, "working")
    /\ UNCHANGED <<account, limited, bound, beat, tried, login, faults>>

\* With nothing due a poll commits what _expire() has done.
Poll ==
    /\ Probes # {} /\ ~PoolLocked
    /\ account' = AccountsNow /\ lease' = LeasesNow
    /\ UNCHANGED <<limited, until, bound, pc, beat, tried, login, faults>>

\* _probe_rate_limit_recovery()
Probed(p, outcome) ==
    /\ pc[p] = "working"
    /\ Released(p, outcome)
    /\ Goto(p, "idle")
    /\ UNCHANGED <<beat, tried, login, faults>>

-----------------------------------------------------------------------------
(* Health checks and administration. *)

\* _apply_probe()
Seen == {"ready", "auth_required", "offline", "error"}
KeepsScheduling(acc) ==
    /\ acc.enabled /\ acc.status = "ready" /\ acc.session = "valid"
    /\ acc.health = "healthy" /\ OneMore(acc) < Threshold

Checked(acc, seen, allowReauth) ==
    CASE seen = "ready" /\ acc.status = "reauth_required" /\ ~allowReauth ->
            [acc EXCEPT !.health = "healthy", !.failures = 0, !.cool = 0]
      [] seen = "ready" /\ (acc.status # "reauth_required" \/ allowReauth) ->
            [acc EXCEPT !.status = Ready(acc), !.session = "valid",
                        !.health = "healthy", !.failures = 0, !.cool = 0]
      [] seen = "auth_required" ->
            [acc EXCEPT !.status = "reauth_required", !.session = "expired",
                        !.health = "unhealthy"]
      [] seen = "offline" ->
            [acc EXCEPT !.health = "unhealthy", !.failures = OneMore(acc)]
      [] seen = "error" ->
            [acc EXCEPT
                !.health = IF KeepsScheduling(acc) THEN "healthy" ELSE "degraded",
                !.failures = OneMore(acc)]

MarkProbe(a, seen) ==
    /\ account' = [account EXCEPT ![a] = Checked(@, seen, FALSE)]
    /\ UNCHANGED <<limited, until, bound, lease, pc, beat, tried, login, faults>>

\* A recovery claim that has read the account does not ask again before it
\* inserts its lease: such a login is raced.
BeginReauth(a) ==
    /\ Active(a) = {}
    /\ account' = [AccountsNow EXCEPT ![a] =
                    [@ EXCEPT !.status = "reauth_required",
                              !.session = "expired", !.health = "unhealthy",
                              !.cool = 0]]
    /\ lease' = LeasesNow
    /\ login' = [login EXCEPT ![a] =
            IF \E p \in Probes : pc[p] = "claiming" /\ lease[p].account = a
            THEN "raced" ELSE "begun"]
    /\ UNCHANGED <<limited, until, bound, pc, beat, tried, faults>>

\* verify_account_reauth(): the captured login is tried on the worker.
CompleteReauth(a, seen) ==
    /\ login[a] # "none"
    /\ account' = [account EXCEPT ![a] = Checked(@, seen, TRUE)]
    /\ login' = IF seen = "ready" THEN [login EXCEPT ![a] = "none"] ELSE login
    /\ UNCHANGED <<limited, until, bound, lease, pc, beat, tried, faults>>

\* update_account(): a new worker has to be probed first. An administrator
\* who disables or moves an account gives up the login.
Updated(acc, enabled, moved) ==
    LET new == [acc EXCEPT !.enabled = enabled]
    IN  IF moved
        THEN [new EXCEPT !.status = "disabled", !.session = "unknown",
                         !.health = "unknown", !.failures = 0, !.cool = 0]
        ELSE IF ~enabled THEN [new EXCEPT !.status = "disabled"]
        ELSE IF acc.session = "valid" /\ acc.health = "healthy"
        THEN [new EXCEPT !.status = "ready"] ELSE new

UpdateAccount(a, enabled, moved) ==
    /\ account' = [account EXCEPT ![a] = Updated(@, enabled, moved)]
    /\ login' = IF enabled /\ ~moved THEN login ELSE [login EXCEPT ![a] = "none"]
    /\ UNCHANGED <<limited, until, bound, lease, pc, beat, tried, faults>>

-----------------------------------------------------------------------------
(* Time: a tick is the interval of the heartbeats. *)

Less(n) == IF n > 0 THEN n - 1 ELSE 0

Tick ==
    /\ ~PoolLocked /\ \A t \in Turns : beat[t] # "due"
    /\ account' = [a \in Accounts |->
                    [account[a] EXCEPT !.cool = Less(account[a].cool)]]
    /\ until' = [s \in Accounts \X Lanes |-> Less(until[s])]
    /\ lease' = [h \in Holders |->
                    [lease[h] EXCEPT !.left = Less(lease[h].left)]]
    /\ beat' = [t \in Turns |-> IF beat[t] = "waiting" THEN "due" ELSE beat[t]]
    /\ UNCHANGED <<limited, bound, pc, tried, login, faults>>

Turn(t) ==
    \/ \E a \in Accounts : Acquire(t, a)
    \/ Refuse(t)
    \/ Renew(t) \/ RenewFails(t)
    \/ \E outcome \in Outcome : Finish(t, outcome)

Monitor(p) ==
    \/ \E a \in Accounts, l \in Lanes : Claim(p, a, l)
    \/ Commit(p)
    \/ \E outcome \in Outcome : Probed(p, outcome)

Administer(a) ==
    \/ \E seen \in Seen : MarkProbe(a, seen) \/ CompleteReauth(a, seen)
    \/ BeginReauth(a)
    \/ \E enabled, moved \in BOOLEAN : UpdateAccount(a, enabled, moved)

Next ==
    \/ \E t \in Turns : Turn(t)
    \/ \E p \in Probes : Monitor(p)
    \/ \E h \in Holders : Die(h)
    \/ \E a \in Managed : Administer(a)
    \/ Poll \/ Tick

Spec == Init /\ [][Next]_vars

-----------------------------------------------------------------------------
(* Properties. *)

PC == {"idle", "claiming", "working", "over"}

\* Every variable keeps its type: whatever answers come late, an account and a
\* lease have states the code knows, and blocked lanes have a probe time.
TypeOK ==
    /\ account \in [Accounts -> Account]
    /\ limited \subseteq Accounts \X Lanes
    /\ until \in [Accounts \X Lanes -> 0..BlockTime]
    /\ bound \in [Chats -> Accounts \cup {NoAccount}]
    /\ lease \in [Holders -> Lease]
    /\ pc \in [Holders -> PC]
    /\ beat \in [Turns -> {"off", "waiting", "due"}]
    /\ tried \in [Turns -> SUBSET Accounts]
    /\ login \in [Accounts -> Login]
    /\ faults \in 0..MaxFaults

\* Who is using account a: turns that run, however long, and probes that are
\* within the time they have claimed.
Working(a) ==
    {h \in Holders :
        /\ pc[h] = "working" /\ lease[h].account = a
        /\ h \in Probes => lease[h].left > 0}

\* Heartbeats have not failed for as long as a lease lasts.
Steady == faults <= LeaseTime - 2

\* No account works for more turns and probes at a time than its
\* max_concurrency: not after failovers, lapsed leases and deaths, nor when a
\* probe is claimed while turns come and go (acquire, renew, claim).
WithinCapacity ==
    Steady =>
        \A a \in Accounts : Cardinality(Working(a)) <= MaxConcurrency[a]

\* A chat never has two turns at work, also when the first has been running
\* for longer than a lease (the active-lease guard of acquire and heartbeat).
OneTurnPerChat ==
    Steady =>
        \A t, u \in Turns :
            /\ pc[t] = "working" /\ pc[u] = "working"
            /\ ChatOf[t] = ChatOf[u]
            => t = u

\* An account that is offered as ready is enabled and has a valid session,
\* in whatever order results, probes, edits and _expire() have written it.
ReadyIsUsable ==
    \A a \in Accounts :
        account[a].status = "ready" =>
            account[a].enabled /\ account[a].session = "valid"

\* From begin_reauth() until its login is verified (or an administrator
\* disables or moves it) an account waits for the login: nobody leases it,
\* and no late answer of a turn or a probe that had it before makes it ready.
\* Only a recovery claim that had read the account when the login was begun
\* may still come.
LoginUndisturbed ==
    \A a \in Accounts : login[a] = "begun" =>
        account[a].status = "reauth_required" /\ Active(a) = {}

\* The account whose slot a holder has, as the rows of the leases say.
Held ==
    [h \in Holders |->
        IF lease[h].state = "active" /\ lease[h].left > 0
        THEN lease[h].account ELSE NoAccount]

SameChat ==
    [h \in Holders |->
        IF h \in Turns THEN {t \in Turns : t # h /\ ChatOf[t] = ChatOf[h]} ELSE {}]

Pool == INSTANCE SlotLeases
            WITH at <- Held, Slots <- MaxConcurrency, RivalsOf <- SameChat

\* Through claims that read without a lock, renewals, late releases, expiry
\* and new logins the rows show the leases of SlotLeases: each begins while
\* its account has room and its chat no other, names one account until it
\* ends, and once it has lapsed no renewal brings it back.
LeasesAreSlots == Pool!Spec

\* Time passes, coroutines are scheduled, turns and probes end (the upstream
\* client has timeouts), and the monitor takes due lanes in the order of
\* blocked_until, so that none is passed over for ever.
Fairness ==
    /\ WF_vars(Tick) /\ WF_vars(Poll)
    /\ \A t \in Turns :
        /\ WF_vars(Renew(t))
        /\ WF_vars(\E outcome \in Outcome : Finish(t, outcome))
    /\ \A p \in Probes :
        /\ WF_vars(Commit(p))
        /\ WF_vars(\E outcome \in Outcome : Probed(p, outcome))
    /\ \A a \in Accounts, l \in Lanes :
        SF_vars(\E p \in Probes : Claim(p, a, l))

FairSpec == Spec /\ Fairness

\* Every lease comes to an end, also that of a process that died.
SlotReturned ==
    \A h \in Holders : lease[h].state = "active" ~> lease[h].state # "active"

\* A rate-limited lane of a usable account is probed in the end.
Probing(a, l) ==
    \E p \in Probes : pc[p] = "working" /\ lease[p].account = a /\ lease[p].lane = l

LaneRetried ==
    \A a \in Accounts, l \in Lanes :
        <<a, l>> \in limited ~>
            \/ <<a, l>> \notin limited \/ ~Usable(account[a])
            \/ Probing(a, l)
=============================================================================
