------------------------ MODULE MCUpstreamCleanup ------------------------
(* Small instances of UpstreamCleanup. *)
EXTENDS UpstreamCleanup, TLC

CONSTANTS r1, r2, w1, w2, chat, other

Interchangeable == Permutations({w1, w2})

\* Two resources of one chat.
OneChat == (r1 :> chat) @@ (r2 :> chat)
Kept2 == [r \in {r1, r2} |-> 2]

\* Each resource of a chat of its own.
TwoChats == (r1 :> chat) @@ (r2 :> other)
=============================================================================
