------------------------------ MODULE MCGateway ------------------------------
(***************************************************************************)
(* Small instances of the two request handlers of the gateway, side by     *)
(* side: a behaviour is one of GatewayTurn (two requests, which may be the *)
(* same call sent twice, two calls of one key, or turns of Open WebUI      *)
(* itself, on two accounts with one slot each) or one of ImageStages (two  *)
(* handlers that fill stages and a task that uses them).   `part' says of *)
(* which; the other component stays as it was in the beginning.  The turns *)
(* and the stagers, and the accounts, are the same model values, so that   *)
(* one permutation serves both.                                            *)
(***************************************************************************)
EXTENDS GatewayTurn, ImageStages, TLC

CONSTANTS u1, k1, x1, x2, g1, a1, a2, t1, t2, i1, i2, p1, q1, none, master

VARIABLE part

MCSlots == [a \in Accounts |-> 1]

Interchangeable ==
    Permutations({t1, t2}) \cup Permutations({x1, x2}) \cup Permutations({a1, a2})

PartInit == part \in {"turns", "images"} /\ GatewayInit /\ ImageInit

PartNext ==
    /\ part' = part
    /\ \/ part = "turns" /\ GatewayNext /\ UNCHANGED imageVars
       \/ part = "images" /\ ImageNext /\ UNCHANGED gatewayVars

PartSpec == PartInit /\ [][PartNext]_<<part, gatewayVars, imageVars>>
=============================================================================
