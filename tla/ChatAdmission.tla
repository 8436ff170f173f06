--------------------------- MODULE ChatAdmission ---------------------------
(***************************************************************************)
(* What the chat concurrency coordinator promises its callers, with no     *)
(* mention of Redis, scripts, heartbeats or time: a request joins one      *)
(* line, is let in only when nobody earlier shares a first-come key with   *)
(* it and every key it belongs to has room, and leaves.  A key is one      *)
(* counting scope: the whole deployment, one user, one group, one provider *)
(* or one account pool.  RedisCoordinator is shown to implement this.      *)
(***************************************************************************)
EXTENDS Integers, FiniteSets

CONSTANTS
    Ids,        \* request identifiers
    Keys,       \* counting scopes
    FifoKeys,   \* the scopes served strictly in order of arrival
    KeysOf,     \* the scopes each request counts in
    Limit       \* the largest limit a scope is ever given

VARIABLES
    phase,      \* where each request is: none, queued, admitted or ended
    ticket,     \* its place in the line
    counted     \* the requests each scope counts as active

vars == <<phase, ticket, counted>>

\* Two requests compete for arrival order when they share a first-come scope.
Rivals(r, q) == KeysOf[r] \cap KeysOf[q] \cap FifoKeys # {}

Init ==
    /\ phase   = [r \in Ids |-> "none"]
    /\ ticket  = [r \in Ids |-> 0]
    /\ counted = [k \in Keys |-> {}]

\* A new request takes a place behind everybody who ever took one.
Join(r) ==
    /\ phase[r] = "none"
    /\ phase' = [phase EXCEPT ![r] = "queued"]
    /\ DOMAIN ticket' = Ids
    /\ \A q \in Ids : ticket'[r] > ticket[q]
    /\ \A q \in Ids \ {r} : ticket'[q] = ticket[q]
    /\ UNCHANGED counted

Admit(r) ==
    /\ phase[r] = "queued"
    /\ \A q \in Ids \ {r} :
          phase[q] = "queued" /\ Rivals(r, q) => ticket[r] < ticket[q]
    /\ \A k \in KeysOf[r] : Cardinality(counted[k]) < Limit[k]
    /\ phase'   = [phase EXCEPT ![r] = "admitted"]
    /\ counted' = [k \in Keys |-> IF k \in KeysOf[r] THEN counted[k] \cup {r}
                                                     ELSE counted[k]]
    /\ UNCHANGED ticket

\* The request is finished, cancelled or given up; nothing of it is counted.
Leave(r) ==
    /\ phase[r] \in {"queued", "admitted"}
    /\ phase'   = [phase EXCEPT ![r] = "ended"]
    /\ counted' = [k \in Keys |-> counted[k] \ {r}]
    /\ UNCHANGED ticket

\* A request that was let in and is not over is counted again, room or not: a
\* scope may have stopped counting it while it ran.
Recount(r) ==
    /\ phase[r] = "admitted"
    /\ counted' = [k \in Keys |-> IF k \in KeysOf[r] THEN counted[k] \cup {r}
                                                     ELSE counted[k]]
    /\ UNCHANGED <<phase, ticket>>

\* Time alone never lets anyone in: it only stops counting requests and
\* forgets them, and it forgets no request that is still counted.
Expire ==
    /\ DOMAIN phase' = Ids /\ DOMAIN counted' = Keys
    /\ \A r \in Ids : phase'[r] \in {phase[r], "none"}
    /\ \A k \in Keys : counted'[k] \subseteq {r \in counted[k] : phase'[r] = phase[r]}
    /\ UNCHANGED ticket

Next == (\E r \in Ids : Join(r) \/ Admit(r) \/ Recount(r) \/ Leave(r)) \/ Expire

Spec == Init /\ [][Next]_vars
=============================================================================
