------------------------ MODULE MCRedisCoordinator ------------------------
(***************************************************************************)
(* Small instances of RedisCoordinator.  Three scopes are enough to have   *)
(* every relation between two requests: r1 and r2 share a user, r2 and r3  *)
(* an account pool, r1 and r3 only the deployment.  Groups are counted and *)
(* ordered as users are, providers are counted as the deployment is.       *)
(***************************************************************************)
EXTENDS RedisCoordinator, TLC

CONSTANTS c1, c2, c3, r1, r2, r3, global, user, pool

MCCallers == {c1, c2, c3}
MCIds == {r1, r2, r3}
MCKeys == {global, user, pool}
MCFifoKeys == {user, pool}

\* The third call is a request of its own or a repeated send of the first one.
MCIdsOf == c1 :> {r1} @@ c2 :> {r2} @@ c3 :> {r1, r3}

\* Two requests of one user and one account pool: one waits for the other.
TwoCallers == {c1, c2}
TwoIds == {r1, r2}
TwoIdsOf == c1 :> {r1} @@ c2 :> {r2}
TwoKeysOf == r1 :> {global, user} @@ r2 :> {global, user, pool}

MCKeysOf == r1 :> {global, user} @@ r2 :> {global, user, pool} @@ r3 :> {global, pool}

MCLimit == global :> 2 @@ user :> 1 @@ pool :> 1

\* The account pool may lose its whole capacity while a request waits for it.
MCOffers == {MCLimit, [MCLimit EXCEPT ![pool] = 0]}
=============================================================================
