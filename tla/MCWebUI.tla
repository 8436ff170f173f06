------------------------------- MODULE MCWebUI -------------------------------
(***************************************************************************)
(* Small instances of the components that work in the process and in the   *)
(* database of Open WebUI, side by side: a behaviour is one of             *)
(* ChatMetering, ChatGroups, Announcements, Subscriptions, StartupBatch,   *)
(* ChatHistory, MemoryCoordinator or SiteAccess.  `part' says of which;    *)
(* the others stay as they were in the beginning.  The two turns,          *)
(* administrators, editors, tabs, requests and rival calls are the same    *)
(* model values, so that one permutation serves all of them.               *)
(***************************************************************************)
EXTENDS ChatMetering, ChatGroups, Announcements, Subscriptions, StartupBatch,
        ChatHistory, MemoryCoordinator, SiteAccess, TLC

CONSTANTS y1, y2, m1, m2, u1, g0, g1, p0, p1, n1, A, B, r1, i1, b1, b2, c1, c2, c3,
          root, none, unlimited, all, mine

VARIABLE part

Interchangeable == Permutations({y1, y2})

MCFallback == [m \in Models |-> IF m = m1 THEN m2 ELSE NoModel]

RuleOf(on, n) == [enabled |-> on, limit |-> n]

\* Each model with a limit of its own; or the first one switched off and the
\* second one without a limit.
MCPolicies == {(m1 :> RuleOf(TRUE, 1) @@ m2 :> RuleOf(TRUE, 1)),
               (m1 :> RuleOf(FALSE, 1) @@ m2 :> RuleOf(TRUE, unlimited))}

MCProjection == g0 :> p0 @@ g1 :> p1

\* Two rivals and a call that meets them only in the deployment's limit.
MCScopesOf == y1 :> {all, mine} @@ y2 :> {all, mine} @@ c1 :> {all}
MCCeiling == all :> 2 @@ mine :> 1
MCLimits == {MCCeiling, [MCCeiling EXCEPT ![all] = 1], [MCCeiling EXCEPT ![mine] = 0]}

\* The administrator closes the site, or asks for Turnstile with its secret or
\* without.
FormOf(registration, turnstile, secret) ==
    [registration |-> registration, turnstile |-> turnstile, secret |-> secret]
MCForms == {FormOf(FALSE, FALSE, FALSE), FormOf(TRUE, TRUE, TRUE), FormOf(TRUE, TRUE, FALSE)}

\* Without turns, writers and readers of a chat there is no chat.
NoBatch == messages = {} /\ rows = {} /\ exists = FALSE /\ children = <<>> /\ turn = <<>>
NoHistory == chat = <<>> /\ index = <<>> /\ client = <<>> /\ second = 1 /\ overtaken = FALSE

PartInit ==
    /\ part \in {"metering", "groups", "announcements", "subscriptions", "batch", "history",
                "memory", "access"}
    /\ MeteringInit /\ GroupsInit /\ AnnouncementsInit /\ SubscriptionInit
    /\ MemoryInit /\ SiteInit
    /\ IF part = "batch" THEN BatchInit ELSE NoBatch
    /\ IF part = "history" THEN HistoryInit /\ Present(chat.body) = {root, b1} ELSE NoHistory
    /\ part # "metering" => rules = CHOOSE p \in Policies : TRUE
    /\ part # "groups" => groups[g0].name = A
    /\ part # "subscriptions" => member
    /\ part # "memory" => \A c \in Callers : caller[c].id = c1
    /\ part # "access" => accounts = {}

PartNext ==
    /\ part' = part
    /\ \/ part = "metering" /\ MeteringNext
          /\ UNCHANGED <<groupsVars, announcementVars, subscriptionVars, batchVars,
                         historyVars, memoryVars, siteVars>>
       \/ part = "groups" /\ GroupsNext
          /\ UNCHANGED <<meteringVars, announcementVars, subscriptionVars, batchVars,
                         historyVars, memoryVars, siteVars>>
       \/ part = "announcements" /\ AnnouncementsNext
          /\ UNCHANGED <<meteringVars, groupsVars, subscriptionVars, batchVars,
                         historyVars, memoryVars, siteVars>>
       \/ part = "subscriptions" /\ SubscriptionNext
          /\ UNCHANGED <<meteringVars, groupsVars, announcementVars, batchVars,
                         historyVars, memoryVars, siteVars>>
       \/ part = "batch" /\ BatchNext
          /\ UNCHANGED <<meteringVars, groupsVars, announcementVars, subscriptionVars,
                         historyVars, memoryVars, siteVars>>
       \/ part = "history" /\ HistoryNext
          /\ UNCHANGED <<meteringVars, groupsVars, announcementVars, subscriptionVars,
                         batchVars, memoryVars, siteVars>>
       \/ part = "memory" /\ MemoryNext
          /\ UNCHANGED <<meteringVars, groupsVars, announcementVars, subscriptionVars,
                         batchVars, historyVars, siteVars>>
       \/ part = "access" /\ SiteNext
          /\ UNCHANGED <<meteringVars, groupsVars, announcementVars, subscriptionVars,
                         batchVars, historyVars, memoryVars>>

PartSpec ==
    PartInit /\ [][PartNext]_<<part, meteringVars, groupsVars, announcementVars, subscriptionVars,
                               batchVars, historyVars, memoryVars, siteVars>>

\* What a chat shows is what was written to it: no turn loses what another
\* one wrote (startup_batch.py), and an index that looks current is the
\* document's (history.py).
ChatsSafety == (part = "batch" => BatchSafety) /\ (part = "history" => HistorySafety)
=============================================================================
