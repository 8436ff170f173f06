---------------------------- MODULE MCAccountPool ----------------------------
(***************************************************************************)
(* Instances of AccountPool: turns of the same chat and of another one, an *)
(* account with one slot and one with two.                                 *)
(***************************************************************************)
EXTENDS AccountPool, TLC

CONSTANTS a1, a2, t1, t2, t3, p1, c1, c2, l1, l2

\* Where they share chat and lane, two turns differ in nothing.
Interchangeable == Permutations({t1, t2})

MCChatOf == [t \in Turns |-> IF t = t3 THEN c2 ELSE c1]
MCLaneOf == [t \in Turns |-> IF t = t2 THEN l2 ELSE l1]
OneLane == [t \in Turns |-> l1]
MCMaxConcurrency == [a \in Accounts |-> IF a = a1 THEN 1 ELSE 2]
=============================================================================
