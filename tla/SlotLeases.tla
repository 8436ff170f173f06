----------------------------- MODULE SlotLeases -----------------------------
(***************************************************************************)
(* What the account pool promises to whoever leases an account, with no    *)
(* mention of rows, heartbeats, probes or time: a holder is given a slot   *)
(* of an account only while one is free and none of its rivals (turns of   *)
(* the same chat) has a slot anywhere, keeps that one account, and may     *)
(* lose the slot at any moment; one that was lost is never taken back, it  *)
(* is asked for anew.  AccountPool is shown to implement this, and         *)
(* GatewayTurn to use accounts in this way only.                           *)
(***************************************************************************)
EXTENDS Integers, FiniteSets

CONSTANTS
    Holders,    \* whoever may lease an account
    Accounts,
    NoAccount,
    Slots,      \* how many holders an account has room for
    RivalsOf    \* who must not have a slot beside each holder

VARIABLE at     \* the account each holder has a slot of

Init == at = [h \in Holders |-> NoAccount]

Taken(a) == {h \in Holders : at[h] = a}

Grant(h, a) ==
    /\ at[h] = NoAccount
    /\ \A g \in RivalsOf[h] : at[g] = NoAccount
    /\ Cardinality(Taken(a)) < Slots[a]
    /\ at' = [at EXCEPT ![h] = a]

\* Slots are given back, or lapse, any number of them at a time.
GiveBack ==
    /\ DOMAIN at' = Holders
    /\ \A h \in Holders : at'[h] \in {at[h], NoAccount}

Next == GiveBack \/ \E h \in Holders, a \in Accounts : Grant(h, a)

Spec == Init /\ [][Next]_at
=============================================================================
