------------------------ MODULE MCSubscriptionCache ------------------------
(* Small instances of SubscriptionCache. *)
EXTENDS SubscriptionCache, TLC

CONSTANTS r1, r2, m1, m2, p1, p2, user, pending

\* Readers in two processes, writers in one each.
FourProcesses == (r1 :> p1) @@ (r2 :> p2) @@ (m1 :> p1) @@ (m2 :> p2)
ThreeProcesses == (r1 :> p1) @@ (r2 :> p2) @@ (m1 :> p1)

\* A reader of the role that changes, and one of another role.
OneRole4 == [c \in {r1, r2, m1, m2} |-> user]
TwoRoles3 == (r1 :> user) @@ (r2 :> pending) @@ (m1 :> user)
=============================================================================
