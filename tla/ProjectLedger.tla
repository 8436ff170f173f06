---------------------------- MODULE ProjectLedger ----------------------------
(***************************************************************************)
(* The prepaid ledger of the project API (project_usage.py, the PostgreSQL *)
(* store).  A user with a permission row owns keys; a call made with a key *)
(* is named by the key and the caller's request identifier.  begin_request *)
(* reserves credit before the upstream works, record charges what the call *)
(* did cost and gives the reservation back, and a reservation nobody gave  *)
(* back lapses after twenty minutes and is released by the next call of    *)
(* the same owner.                                                         *)
(*                                                                         *)
(* Each transaction that moves credit locks the permission row it moves it *)
(* on (FOR UPDATE, or an UPDATE of the row), so it is one action here.     *)
(* grant_credit also looks for its entry before it takes the lock: that    *)
(* look is an action of its own.                                           *)
(***************************************************************************)
EXTENDS Integers, FiniteSets

CONSTANTS
    Users, KeyIds,
    RequestIds,     \* identifiers a caller gives its calls
    GrantIds,       \* idempotency keys of grants
    Amounts,        \* what an administrator may grant at once
    Prices,         \* official prices of a call, estimated or measured
    Multipliers,    \* values of cost_multiplier_ppm
    Scale,          \* COST_MULTIPLIER_SCALE
    KeyLimits,      \* values of max_keys
    Legacy,         \* users whose row is older than the balance column
    NoBalance       \* the NULL such a row has for a balance

ASSUME LedgerAssumption ==
    /\ IsFiniteSet(KeyIds) /\ IsFiniteSet(RequestIds)
    /\ Amounts \subseteq Nat \ {0} /\ Prices \subseteq Nat
    /\ Multipliers \subseteq Nat /\ Scale \in Nat \ {0} /\ Scale \in Multipliers
    /\ KeyLimits \subseteq Nat \ {0} /\ KeyLimits # {}
    /\ Legacy \subseteq Users
    /\ NoBalance \notin Int
    /\ GrantIds \cap (KeyIds \X RequestIds) = {}

VARIABLES
    permission,     \* chat_project_api_user
    keys,           \* chat_project_api_key
    multiplier,     \* chat_project_api_config
    requests,       \* chat_project_api_request
    usage,          \* the dedupe keys of chat_project_api_usage
    ledger,         \* chat_project_api_credit_ledger
    looking         \* grants that found no entry and now ask for the row lock

ledgerVars == <<permission, keys, multiplier, requests, usage, ledger, looking>>

Calls == KeyIds \X RequestIds

NoRow == [exists |-> FALSE]
Row == [exists : {TRUE}, enabled : BOOLEAN, maxKeys : KeyLimits,
        balance : Int \cup {NoBalance}, reserved : Nat]

NoKey == [status |-> "none"]
Key == [status : {"active", "revoked"}, owner : Users]

NoRequest == [state |-> "none"]
Request == [state : {"reserved", "completed", "released"}, reserved : Nat,
            multiplier : Multipliers, lapsed : BOOLEAN]

Grant == [user : Users, idem : GrantIds, amount : Amounts]
Entry == [user : Users, idem : GrantIds \cup Calls, amount : Int, after : Int]

LedgerTypeOK ==
    /\ permission \in [Users -> Row \cup {NoRow}]
    /\ keys \in [KeyIds -> Key \cup {NoKey}]
    /\ multiplier \in Multipliers
    /\ requests \in [Calls -> Request \cup {NoRequest}]
    /\ usage \subseteq Calls
    /\ ledger \subseteq Entry
    /\ looking \subseteq Grant

(***************************************************************************)
(* Amounts.                                                                *)
(***************************************************************************)
\* What a call of an official price costs: rounded up to a whole unit.
Cost(price, rate) == (price * rate + Scale - 1) \div Scale

\* GREATEST(0, a - b)
Less(a, b) == IF a > b THEN a - b ELSE 0

Owner(c) == keys[c[1]].owner
Owned(u) == {c \in Calls : keys[c[1]] # NoKey /\ Owner(c) = u}
Live(u) == {c \in Owned(u) : requests[c].state = "reserved"}
Lapsed(u) == {c \in Live(u) : requests[c].lapsed}

\* The units of credit a set of calls reserves, and how many they are.
Units(S) == UNION {{c} \X (1 .. requests[c].reserved) : c \in S}
Held(S) == Cardinality(Units(S))

Balance(u) == permission[u].balance
Entries(u) == {e \in ledger : e.user = u}
Entered(u, id) == \E e \in Entries(u) : e.idem = id
ActiveKeys(u) == {k \in KeyIds : keys[k].status = "active" /\ keys[k].owner = u}

-----------------------------------------------------------------------------
LedgerInit ==
    /\ permission = [u \in Users |->
          IF u \in Legacy
          THEN [exists |-> TRUE, enabled |-> TRUE, maxKeys |-> CHOOSE n \in KeyLimits : TRUE,
                balance |-> NoBalance, reserved |-> 0]
          ELSE NoRow]
    /\ keys = [k \in KeyIds |-> NoKey]
    /\ multiplier = Scale
    /\ requests = [c \in Calls |-> NoRequest]
    /\ usage = {} /\ ledger = {} /\ looking = {}

SetMultiplier(m) ==
    /\ multiplier' = m
    /\ UNCHANGED <<permission, keys, requests, usage, ledger, looking>>

\* An upsert: a new row starts with no credit, an old one keeps what it has.
SetPermission(u, on, n) ==
    /\ permission' = [permission EXCEPT ![u] =
          IF @.exists THEN [@ EXCEPT !.enabled = on, !.maxKeys = n]
          ELSE [exists |-> TRUE, enabled |-> on, maxKeys |-> n, balance |-> 0, reserved |-> 0]]
    /\ UNCHANGED <<keys, multiplier, requests, usage, ledger, looking>>

Released(d) == [requests[d] EXCEPT !.state = "released"]

\* Refused while a call is under way; the keys stay, revoked.
DeletePermission(u) ==
    /\ permission[u].exists
    /\ Live(u) = Lapsed(u)
    /\ requests' = [c \in Calls |->
          IF c \in Lapsed(u) THEN Released(c) ELSE requests[c]]
    /\ keys' = [k \in KeyIds |->
          IF k \in ActiveKeys(u) THEN [keys[k] EXCEPT !.status = "revoked"] ELSE keys[k]]
    /\ permission' = [permission EXCEPT ![u] = NoRow]
    /\ UNCHANGED <<multiplier, usage, ledger, looking>>

CreateKey(k, u) ==
    /\ keys[k] = NoKey
    /\ permission[u].exists /\ permission[u].enabled
    /\ Cardinality(ActiveKeys(u)) < permission[u].maxKeys
    /\ keys' = [keys EXCEPT ![k] = [status |-> "active", owner |-> u]]
    /\ UNCHANGED <<permission, multiplier, requests, usage, ledger, looking>>

RevokeKey(k) ==
    /\ keys[k].status = "active"
    /\ keys' = [keys EXCEPT ![k].status = "revoked"]
    /\ UNCHANGED <<permission, multiplier, requests, usage, ledger, looking>>

-----------------------------------------------------------------------------
(***************************************************************************)
(* grant_credit.  A repeated grant finds the entry of the first and does   *)
(* nothing; two at once both find none and the lock decides.               *)
(***************************************************************************)
GrantLook(g) ==
    /\ g \notin looking
    /\ ~Entered(g.user, g.idem)
    /\ looking' = looking \cup {g}
    /\ UNCHANGED <<permission, keys, multiplier, requests, usage, ledger>>

Post(u, id, amount, after) ==
    ledger' = ledger \cup {[user |-> u, idem |-> id, amount |-> amount, after |-> after]}

Credited(u, amount) == (IF Balance(u) = NoBalance THEN 0 ELSE Balance(u)) + amount

\* The second look, under the lock.
NewNow(g) == ~Entered(g.user, g.idem)

GrantPost(g) ==
    /\ g \in looking
    /\ permission[g.user].exists /\ NewNow(g)
    /\ permission' = [permission EXCEPT ![g.user].balance = Credited(g.user, g.amount)]
    /\ Post(g.user, g.idem, g.amount, Credited(g.user, g.amount))
    /\ looking' = looking \ {g}
    /\ UNCHANGED <<keys, multiplier, requests, usage>>

\* The row is gone, or another grant of this name was entered meanwhile.
GrantRefused(g) ==
    /\ g \in looking
    /\ ~permission[g.user].exists \/ ~NewNow(g)
    /\ looking' = looking \ {g}
    /\ UNCHANGED <<permission, keys, multiplier, requests, usage, ledger>>

-----------------------------------------------------------------------------
(***************************************************************************)
(* begin_request.  Everything it does is rolled back when it refuses.      *)
(***************************************************************************)
MayCall(c) == keys[c[1]].status = "active" /\ permission[Owner(c)].exists /\ permission[Owner(c)].enabled

\* Mutant: the lapsed reservations are marked, and stay on the row.
StillReservedAll(u) == permission[u].reserved

\* What stays reserved once the lapsed reservations of the owner are released.
StillReserved(u) == Less(permission[u].reserved, Held(Lapsed(u)))

Affordable(c, price) ==
    Balance(Owner(c)) # NoBalance
        => Balance(Owner(c)) - StillReserved(Owner(c)) >= Cost(price, multiplier)

\* Mutant: an identifier may be used again when its call is over.
UnusedNow(c) == requests[c].state # "reserved"

\* The primary key of the request table.
Unused(c) == requests[c] = NoRequest

Begin(c, price) ==
    LET u == Owner(c)
        released == IF Held(Lapsed(u)) > 0 THEN Lapsed(u) ELSE {}
    IN
    /\ MayCall(c) /\ Unused(c) /\ Affordable(c, price)
    /\ requests' = [d \in Calls |->
          IF d = c THEN [state |-> "reserved", reserved |-> Cost(price, multiplier),
                         multiplier |-> multiplier, lapsed |-> FALSE]
          ELSE IF d \in released THEN Released(d)
          ELSE requests[d]]
    /\ permission' = [permission EXCEPT ![u].reserved =
                        StillReserved(u) + Cost(price, multiplier)]
    /\ UNCHANGED <<keys, multiplier, usage, ledger, looking>>

\* REQUEST_RESERVATION_TTL_SECONDS have passed.
Lapse(c) ==
    /\ requests[c].state = "reserved" /\ ~requests[c].lapsed
    /\ requests' = [requests EXCEPT ![c].lapsed = TRUE]
    /\ UNCHANGED <<permission, keys, multiplier, usage, ledger, looking>>

(***************************************************************************)
(* record.  A call is recorded once: a second record finds the dedupe key  *)
(* taken and changes nothing at all.  A call that was never begun (it was  *)
(* refused before) is recorded too.                                        *)
(***************************************************************************)
Began(c) == requests[c] # NoRequest
Charge(c, price) == Cost(price, IF Began(c) THEN requests[c].multiplier ELSE multiplier)

\* Mutant: the charge is taken and the reservation kept.
SettledInPart(row, c, charge) ==
    [row EXCEPT !.balance = IF @ # NoBalance /\ charge > 0 THEN @ - charge ELSE @]

\* Mutant: a balance that does not go below zero.
SettledAboveZero(row, c, charge) ==
    [row EXCEPT
        !.reserved = IF Began(c) THEN Less(@, requests[c].reserved) ELSE @,
        !.balance = IF @ # NoBalance /\ charge > 0 THEN Less(@, charge) ELSE @]

\* The owner's row after the reservation is given back and the charge is taken.
Settled(row, c, charge) ==
    [row EXCEPT
        !.reserved = IF Began(c) THEN Less(@, requests[c].reserved) ELSE @,
        !.balance = IF @ # NoBalance /\ charge > 0 THEN @ - charge ELSE @]

\* ON CONFLICT (dedupe_key) DO NOTHING
NotRecorded(c) == c \notin usage

Record(c, price) ==
    LET u == Owner(c)
        charge == Charge(c, price)
        row == permission[u]
    IN
    /\ keys[c[1]] # NoKey /\ NotRecorded(c)
    /\ usage' = usage \cup {c}
    /\ requests' = IF Began(c) THEN [requests EXCEPT ![c].state = "completed"] ELSE requests
    /\ permission' = IF row.exists THEN [permission EXCEPT ![u] = Settled(row, c, charge)]
                     ELSE permission
    /\ IF row.exists /\ row.balance # NoBalance /\ charge > 0 /\ ~Entered(u, c)
       THEN Post(u, c, -charge, row.balance - charge)
       ELSE UNCHANGED ledger
    /\ UNCHANGED <<keys, multiplier, looking>>

-----------------------------------------------------------------------------
Administer ==
    \/ \E m \in Multipliers : SetMultiplier(m)
    \/ \E u \in Users, on \in BOOLEAN, n \in KeyLimits : SetPermission(u, on, n)
    \/ \E u \in Users : DeletePermission(u)
    \/ \E k \in KeyIds, u \in Users : CreateKey(k, u)
    \/ \E k \in KeyIds : RevokeKey(k)
    \/ \E g \in Grant : GrantLook(g) \/ GrantPost(g) \/ GrantRefused(g)

LedgerNext ==
    \/ Administer
    \/ \E c \in Calls : Lapse(c)
    \/ \E c \in Calls : \/ \E price \in Prices : Begin(c, price)
                        \/ \E price \in Prices \cup {0} : Record(c, price)

LedgerSpec == LedgerInit /\ [][LedgerNext]_ledgerVars

-----------------------------------------------------------------------------
(***************************************************************************)
(* Properties.                                                             *)
(***************************************************************************)
\* No credit is held back for nobody: what a row has reserved never exceeds
\* what the calls under way of that user reserve, however reservations lapse,
\* are released, recorded late, or outlive a deleted and recreated row
\* (project_usage.py 1337-1358, 1714-1731).
CreditIsHeldByCalls ==
    \A u \in Users : permission[u].exists => permission[u].reserved <= Held(Live(u))

Exact == \A u \in Users : permission[u].exists => permission[u].reserved = Held(Live(u))

\* A call is recorded after its reservation was released.
RecordedLate(c) == requests[c].state = "released" /\ requests'[c].state = "completed"

\* What is reserved on a row is exactly what its calls hold, until a call is
\* recorded after its reservation had been released: then, and only then, the
\* same credit is given back twice (1724-1731) and calls are left uncovered.
ExactUntilLateRecord == [][Exact => Exact' \/ \E c \in Calls : RecordedLate(c)]_ledgerVars

\* As long as a user keeps its row, its balance moves only with an entry of
\* the credit ledger that says by how much and to what (1241-1266, 1741-1776).
BalanceMovesWithLedger ==
    [][\A u \in Users : (permission[u].exists /\ permission'[u].exists) =>
          LET before == IF Balance(u) = NoBalance THEN 0 ELSE Balance(u)
              after == IF Balance(u)' = NoBalance THEN 0 ELSE Balance(u)'
          IN \/ after = before /\ Entries(u)' = Entries(u)
             \/ \E e \in Entries(u)' \ Entries(u) :
                   /\ Entries(u)' = Entries(u) \cup {e}
                   /\ e.amount = after - before /\ e.after = after]_ledgerVars

\* A grant or a call is entered once in the ledger of a user, whatever is
\* repeated, sent twice at once or sent again after the row was deleted and
\* made anew (the unique index, 1189-1232, 1648-1693).
EnteredOnce ==
    \A d, e \in ledger : (d.user = e.user /\ d.idem = e.idem) => d = e

\* A charge stands in the ledger only for a call in the usage table, and a
\* call is completed exactly there.
ChargedIfRecorded ==
    /\ \A e \in ledger : e.idem \in Calls => e.idem \in usage
    /\ \A c \in Calls : requests[c].state = "completed" => c \in usage

\* ProjectBalanceInsufficient: "Raised before upstream work when prepaid
\* project credit is insufficient" (project_usage.py:43): when a call is let
\* through, the balance covers all the calls that are then under way.
AuthorizedIsCovered ==
    [][\A c \in Calls : (requests[c] = NoRequest /\ requests'[c] # NoRequest) =>
          LET u == Owner(c)
          IN (Balance(u) # NoBalance => Balance(u) >= Held(Live(u)))']_ledgerVars
=============================================================================
