-------------------------- MODULE UpstreamCleanup --------------------------
(***************************************************************************)
(* Tracked clean-up of what Turtle leaves in a ChatGPT account             *)
(* (src/chatgpt_web_gateway/upstream_cleanup.py): the rows of              *)
(* chat_upstream_resource, the workers that claim and delete them, and the *)
(* chat turns that meanwhile go on using and recording the resources.      *)
(*                                                                         *)
(* One account; a resource that is cleaned up may come back under the same *)
(* identifier (a conversation cache key is derived from the chat).         *)
(***************************************************************************)
EXTENDS Integers, FiniteSets

CONSTANTS
    Resources,
    Workers,       \* loops of run_once(): gateways, and /upstream-cleanup/run
    Chats,         \* identifiers of local chats
    ChatOf,        \* the chat_id a resource is recorded with
    Derived,       \* conversation cache keys: known, and recorded, before use
    RetentionOf,   \* how long a resource is kept after it was last recorded
    BatchSize,     \* claim_due(limit)
    Lapse,         \* after this long a claim counts as interrupted (15 min)
    MaxBatch,      \* how long the work on one batch may take
    MaxDelay,      \* the longest delay of a retry
    MaxTurns,      \* bound: chat turns
    MaxFaults,     \* bound: failed clean-ups, crashes, lost calls
    RecordMayFail  \* are failures of record() among them?

ASSUME CleanupAssumption ==
    /\ Derived \subseteq Resources
    /\ RetentionOf \in [Resources -> Nat \ {0}]
    /\ BatchSize \in Nat \ {0} /\ Lapse \in Nat /\ MaxBatch \in Nat
    /\ MaxDelay \in Nat /\ MaxTurns \in Nat /\ MaxFaults \in Nat
    /\ RecordMayFail \in BOOLEAN

NoResource == "no resource"
ASSUME NoResourceAssumption == NoResource \notin Resources

VARIABLES
    row,    \* state of each resource's row, "absent" before the first record
    due,    \* time until delete_after
    next,   \* time until next_attempt_at
    claim,  \* time since last_attempt_at
    live,   \* the resources that exist in the account
    turn,   \* how far the chat turn is that uses a resource
    turns,  \* turns so far
    chats,  \* the local chats that exist
    hooks,  \* deleted chats whose schedule call is on its way
    pc,     \* where each worker is
    batch,  \* what a worker has claimed and not dealt with yet
    idle,   \* workers that found the account idle
    busy,   \* the resource a worker deals with
    spent,  \* time since a worker claimed its batch
    faults,
    \* history
    overtaken, \* what a worker has claimed and somebody else has written since
    lapsed,    \* what it has claimed and a later cycle took for interrupted
    untracked  \* resources whose record() failed, or whose row was closed by
               \* a worker that had lost the claim, since they were recorded

rows == <<row, due, next, claim>>
worker == <<pc, batch, idle, busy, spent>>
history == <<overtaken, lapsed, untracked>>
vars == <<rows, live, turn, turns, chats, hooks, worker, faults, history>>

State == {"absent", "active", "pending", "processing", "retry", "deleted"}
Open == {"active", "pending", "processing", "retry"}
TurnState == {"none", "leased", "recorded", "used"}
PC == {"asleep", "awake", "marked", "claimed", "working", "calling",
       "confirmed", "failed"}

Init ==
    /\ row = [r \in Resources |-> "absent"]
    /\ due = [r \in Resources |-> 0]
    /\ next = [r \in Resources |-> 0]
    /\ claim = [r \in Resources |-> 0]
    /\ live = {}
    /\ turn = [r \in Resources |-> "none"]
    /\ turns = 0
    /\ chats = Chats
    /\ hooks = {}
    /\ pc = [w \in Workers |-> "asleep"]
    /\ batch = [w \in Workers |-> {}]
    /\ idle = {}
    /\ busy = [w \in Workers |-> NoResource]
    /\ spent = [w \in Workers |-> 0]
    /\ faults = 0
    /\ overtaken = [w \in Workers |-> {}]
    /\ lapsed = [w \in Workers |-> {}]
    /\ untracked = {}

Goto(w, label) == pc' = [pc EXCEPT ![w] = label]

Fault ==
    /\ faults < MaxFaults
    /\ faults' = faults + 1

\* A resource that a worker has claimed and not dealt with yet.
Holds(w, r) == r \in batch[w] \/ busy[w] = r

\* record() and the schedule call write rows, whoever has claimed them.
Overtake(hit) ==
    /\ overtaken' = [w \in Workers |-> overtaken[w] \cup {r \in hit : Holds(w, r)}]
    /\ UNCHANGED lapsed

\* The claim is not the worker's any more.
Lost(w, r) == r \in overtaken[w] \cup lapsed[w]

-----------------------------------------------------------------------------
(* Chat turns and local deletions. *)

\* A turn leases the account, which is busy until the turn ends.
BeginTurn(r) ==
    /\ turns < MaxTurns
    /\ turn[r] = "none"
    /\ turn' = [turn EXCEPT ![r] = "leased"]
    /\ turns' = turns + 1
    /\ UNCHANGED <<rows, live, chats, hooks, worker, faults, history>>

\* record(): the row starts over as active, whatever state it was in.
Write(r) ==
    /\ row' = [row EXCEPT ![r] = "active"]
    /\ due' = [due EXCEPT ![r] = RetentionOf[r]]
    /\ next' = [next EXCEPT ![r] = 0]
    /\ UNCHANGED claim

\* A turn records a conversation cache key before it uses it, anything else
\* when it ends.
Before(r) == r \in Derived /\ turn[r] = "leased"
Afterwards(r) == r \notin Derived /\ turn[r] = "used"

Recorded(r) ==
    turn' = [turn EXCEPT ![r] = IF r \in Derived THEN "recorded" ELSE "none"]

Record(r) ==
    /\ Before(r) \/ Afterwards(r)
    /\ Write(r) /\ Recorded(r) /\ Overtake({r})
    /\ untracked' = untracked \ {r}
    /\ UNCHANGED <<live, turns, chats, hooks, worker, faults>>

\* A failure of record() is logged and the turn goes on; some turns that fail
\* end without recording what they have created.
RecordFails(r) ==
    /\ RecordMayFail /\ Fault
    /\ Before(r) \/ Afterwards(r)
    /\ Recorded(r)
    /\ untracked' = untracked \cup {r}
    /\ UNCHANGED <<rows, live, turns, chats, hooks, worker, overtaken, lapsed>>

\* The resource is used, or created, in the account.
Use(r) ==
    /\ turn[r] = (IF r \in Derived THEN "recorded" ELSE "leased")
    /\ turn' = [turn EXCEPT ![r] = "used"]
    /\ live' = live \cup {r}
    /\ UNCHANGED <<rows, turns, chats, hooks, worker, faults, history>>

\* The turn ends, or fails before it gets to the resource.
EndTurn(r) ==
    /\ turn[r] # "none" /\ ~Afterwards(r)
    /\ turn' = [turn EXCEPT ![r] = "none"]
    /\ UNCHANGED <<rows, live, turns, chats, hooks, worker, faults, history>>

\* The user deletes a chat; Open WebUI then calls the schedule endpoint.
DeleteChat(ch) ==
    /\ ch \in chats
    /\ chats' = chats \ {ch}
    /\ hooks' = hooks \cup {ch}
    /\ UNCHANGED <<rows, live, turn, turns, worker, faults, history>>

\* Mutant: the clause on the chat is missing.
ScheduleEverything(ch) ==
    /\ ch \in hooks
    /\ hooks' = hooks \ {ch}
    /\ LET hit == {r \in Resources : row[r] \in Open} IN
       /\ row' = [r \in Resources |-> IF r \in hit THEN "pending" ELSE row[r]]
       /\ next' = [r \in Resources |-> IF r \in hit THEN 0 ELSE next[r]]
       /\ Overtake(hit)
    /\ UNCHANGED <<due, claim, live, turn, turns, chats, worker, faults, untracked>>

\* The rows of the chat that are not deleted become due, those a worker is
\* just dealing with included.
Schedule(ch) ==
    /\ ch \in hooks
    /\ hooks' = hooks \ {ch}
    /\ LET hit == {r \in Resources : row[r] \in Open /\ ChatOf[r] = ch} IN
       /\ row' = [r \in Resources |-> IF r \in hit THEN "pending" ELSE row[r]]
       /\ next' = [r \in Resources |-> IF r \in hit THEN 0 ELSE next[r]]
       /\ Overtake(hit)
    /\ UNCHANGED <<due, claim, live, turn, turns, chats, worker, faults, untracked>>

LoseHook(ch) ==
    /\ Fault
    /\ ch \in hooks
    /\ hooks' = hooks \ {ch}
    /\ UNCHANGED <<rows, live, turn, turns, chats, worker, history>>

-----------------------------------------------------------------------------
(* run_once() *)

\* The chat the resource was recorded with does not exist.
Orphaned(r) == ChatOf[r] \notin chats

\* Mutant: interrupted claims are not looked for.
MarkDueOnly(w) ==
    /\ pc[w] = "awake"
    /\ Goto(w, "marked")
    /\ LET expired == {r \in Resources : row[r] = "active" /\ (due[r] = 0 \/ Orphaned(r))} IN
       /\ row' = [r \in Resources |-> IF r \in expired THEN "pending" ELSE row[r]]
       /\ next' = [r \in Resources |-> IF r \in expired THEN 0 ELSE next[r]]
    /\ UNCHANGED <<due, claim, live, turn, turns, chats, hooks, batch, idle, busy, spent, faults, history>>

\* mark_due: interrupted claims are retried; expired and orphaned rows are
\* scheduled.
MarkDue(w) ==
    /\ pc[w] = "awake"
    /\ Goto(w, "marked")
    /\ LET stopped == {r \in Resources : row[r] = "processing" /\ claim[r] >= Lapse}
           expired == {r \in Resources : row[r] = "active" /\ (due[r] = 0 \/ Orphaned(r))}
       IN
       /\ row' = [r \in Resources |-> IF r \in stopped THEN "retry"
                                      ELSE IF r \in expired THEN "pending" ELSE row[r]]
       /\ next' = [r \in Resources |-> IF r \in stopped \cup expired THEN 0 ELSE next[r]]
       /\ lapsed' = [v \in Workers |-> lapsed[v] \cup {r \in stopped : Holds(v, r)}]
    /\ UNCHANGED <<due, claim, live, turn, turns, chats, hooks, batch, idle, busy, spent, faults,
                   overtaken, untracked>>

Due(r) == row[r] \in {"pending", "retry"} /\ next[r] = 0

\* Mutant: claimed rows stay claimable.
ClaimWithoutState(w) ==
    /\ pc[w] = "marked"
    /\ \E rs \in SUBSET {r \in Resources : Due(r)} :
          /\ Cardinality(rs) <= BatchSize
          /\ batch' = [batch EXCEPT ![w] = rs]
          /\ claim' = [r \in Resources |-> IF r \in rs THEN 0 ELSE claim[r]]
    /\ Goto(w, "claimed")
    /\ spent' = [spent EXCEPT ![w] = 0]
    /\ overtaken' = [overtaken EXCEPT ![w] = {}]
    /\ lapsed' = [lapsed EXCEPT ![w] = {}]
    /\ UNCHANGED <<row, due, next, live, turn, turns, chats, hooks, idle, busy, faults, untracked>>

\* claim_due: up to BatchSize due rows, in one transaction.
ClaimDue(w) ==
    /\ pc[w] = "marked"
    /\ \E rs \in SUBSET {r \in Resources : Due(r)} :
          /\ Cardinality(rs) <= BatchSize
          /\ Cardinality(rs) < BatchSize => \A r \in Resources : Due(r) => r \in rs
          /\ row' = [r \in Resources |-> IF r \in rs THEN "processing" ELSE row[r]]
          /\ claim' = [r \in Resources |-> IF r \in rs THEN 0 ELSE claim[r]]
          /\ batch' = [batch EXCEPT ![w] = rs]
    /\ Goto(w, "claimed")
    /\ spent' = [spent EXCEPT ![w] = 0]
    /\ overtaken' = [overtaken EXCEPT ![w] = {}]
    /\ lapsed' = [lapsed EXCEPT ![w] = {}]
    /\ UNCHANGED <<due, next, live, turn, turns, chats, hooks, idle, busy, faults, untracked>>

\* No turn holds a lease on the account.
Unused == \A r \in Resources : turn[r] = "none"

\* The account pool's snapshot, taken once for the whole batch: the account is
\* idle, or a turn holds a lease on it, or it needs a new login.
Look(w) ==
    /\ pc[w] = "claimed"
    /\ Goto(w, "working")
    /\ \/ Unused /\ idle' = idle \cup {w} /\ UNCHANGED faults
       \/ ~Unused /\ idle' = idle \ {w} /\ UNCHANGED faults
       \/ Fault /\ idle' = idle \ {w}
    /\ UNCHANGED <<rows, live, turn, turns, chats, hooks, batch, busy, spent, history>>

\* The next resource of the batch, or sleep until the next cycle.
Take(w) ==
    /\ pc[w] = "working"
    /\ IF batch[w] = {}
       THEN Goto(w, "asleep") /\ UNCHANGED <<batch, busy>>
       ELSE \E r \in batch[w] :
               /\ batch' = [batch EXCEPT ![w] = @ \ {r}]
               /\ busy' = [busy EXCEPT ![w] = r]
               /\ Goto(w, IF w \in idle THEN "calling" ELSE "failed")
    /\ UNCHANGED <<rows, live, turn, turns, chats, hooks, idle, spent, faults, history>>

\* Mutant: an error answer counts as a confirmation.
CallAlwaysConfirmed(w) ==
    /\ pc[w] = "calling"
    /\ Goto(w, "confirmed")
    /\ \/ live' = live \ {busy[w]} /\ UNCHANGED faults
       \/ Fault /\ UNCHANGED live
    /\ UNCHANGED <<rows, turn, turns, chats, hooks, batch, idle, busy, spent, history>>

\* The account deletes the resource and confirms it; or the answer is an
\* error, with or without the deletion.
Call(w) ==
    /\ pc[w] = "calling"
    /\ \/ live' = live \ {busy[w]} /\ Goto(w, "confirmed") /\ UNCHANGED faults
       \/ Fault /\ Goto(w, "failed") /\ (live' = live \ {busy[w]} \/ UNCHANGED live)
    /\ UNCHANGED <<rows, turn, turns, chats, hooks, batch, idle, busy, spent, history>>

Done(w) ==
    /\ Goto(w, "working")
    /\ busy' = [busy EXCEPT ![w] = NoResource]
    /\ overtaken' = [v \in Workers |->
            IF v = w THEN overtaken[v] \ {busy[v]}
            ELSE overtaken[v] \cup
                    {r \in {busy[w]} : row[r] = "processing" /\ Holds(v, r)}]
    /\ lapsed' = [lapsed EXCEPT ![w] = @ \ {busy[w]}]
    /\ UNCHANGED <<due, claim, live, turn, turns, chats, hooks, batch, idle, spent, faults>>

\* complete() and retry() change a row only if it is still being processed,
\* not necessarily by this worker.
Complete(w) ==
    /\ pc[w] = "confirmed"
    /\ row' = [row EXCEPT ![busy[w]] = IF @ = "processing" THEN "deleted" ELSE @]
    /\ untracked' = IF row[busy[w]] = "processing" /\ Lost(w, busy[w])
                    THEN untracked \cup {busy[w]} ELSE untracked
    /\ UNCHANGED next
    /\ Done(w)

Retry(w) ==
    /\ pc[w] = "failed"
    /\ \/ /\ row[busy[w]] = "processing"
          /\ row' = [row EXCEPT ![busy[w]] = "retry"]
          /\ \E delay \in 0..MaxDelay : next' = [next EXCEPT ![busy[w]] = delay]
       \/ row[busy[w]] # "processing" /\ UNCHANGED <<row, next>>
    /\ UNCHANGED untracked
    /\ Done(w)

\* The process dies, or a database error ends the cycle: what was claimed is
\* left in processing.
Abandon(w) ==
    /\ Fault
    /\ pc[w] \notin {"asleep", "awake"}
    /\ Goto(w, "asleep")
    /\ batch' = [batch EXCEPT ![w] = {}]
    /\ busy' = [busy EXCEPT ![w] = NoResource]
    /\ overtaken' = [overtaken EXCEPT ![w] = {}]
    /\ lapsed' = [lapsed EXCEPT ![w] = {}]
    /\ UNCHANGED <<rows, live, turn, turns, chats, hooks, idle, spent, untracked>>

-----------------------------------------------------------------------------

Less(n) == IF n > 0 THEN n - 1 ELSE 0

\* Time passes while workers sleep or work; a cycle begins at every tick.
Tick ==
    /\ \A w \in Workers : pc[w] # "awake" /\ (pc[w] # "asleep" => spent[w] < MaxBatch)
    /\ due' = [r \in Resources |-> Less(due[r])]
    /\ next' = [r \in Resources |-> Less(next[r])]
    /\ claim' = [r \in Resources |-> IF claim[r] < Lapse THEN claim[r] + 1 ELSE claim[r]]
    /\ spent' = [w \in Workers |-> IF pc[w] = "asleep" THEN 0 ELSE spent[w] + 1]
    /\ pc' = [w \in Workers |-> IF pc[w] = "asleep" THEN "awake" ELSE pc[w]]
    /\ UNCHANGED <<row, live, turn, turns, chats, hooks, batch, idle, busy, faults, history>>

Work(w) ==
    \/ MarkDue(w) \/ ClaimDue(w) \/ Look(w) \/ Take(w) \/ Call(w)
    \/ Complete(w) \/ Retry(w)

Turn(r) == Record(r) \/ Use(r) \/ EndTurn(r)

Next ==
    \/ \E r \in Resources : BeginTurn(r) \/ Turn(r) \/ RecordFails(r)
    \/ \E ch \in Chats : DeleteChat(ch) \/ Schedule(ch) \/ LoseHook(ch)
    \/ \E w \in Workers : Work(w) \/ Abandon(w)
    \/ Tick

Spec == Init /\ [][Next]_vars

\* Time passes, workers go on, and turns end.
FairSpec ==
    /\ Spec
    /\ WF_vars(Tick)
    /\ \A w \in Workers : WF_vars(Work(w))
    /\ \A r \in Resources : WF_vars(Turn(r))

-----------------------------------------------------------------------------
(* What clean-up promises. *)

\* Every variable has its type; in particular no time left runs below zero.
TypeOK ==
    /\ row \in [Resources -> State]
    /\ due \in [Resources -> Nat]
    /\ next \in [Resources -> Nat]
    /\ claim \in [Resources -> Nat]
    /\ live \in SUBSET Resources
    /\ turn \in [Resources -> TurnState]
    /\ turns \in Nat
    /\ chats \in SUBSET Chats
    /\ hooks \in SUBSET Chats
    /\ pc \in [Workers -> PC]
    /\ batch \in [Workers -> SUBSET Resources]
    /\ idle \in SUBSET Workers
    /\ busy \in [Workers -> Resources \cup {NoResource}]
    /\ spent \in [Workers -> Nat]
    /\ faults \in Nat
    /\ overtaken \in [Workers -> SUBSET Resources]
    /\ lapsed \in [Workers -> SUBSET Resources]
    /\ untracked \in SUBSET Resources

\* Nothing is forgotten: what is in the account and no turn uses has a row
\* that clean-up will come back to.  complete() asks only for the row's id and
\* state, so that the late answer of a worker whose claim was taken over may
\* close the row of another; and a failure of record() is only logged.
Tracked == \A r \in live \ untracked : turn[r] = "none" => row[r] \in Open

\* Worker w is within its time, and nobody has written the row of r behind it:
\* no turn, no schedule call and no late answer of another worker.
Sound(w, r) == Holds(w, r) /\ r \notin overtaken[w] /\ spent[w] < Lapse

\* The claim is an exclusive one: of the workers that come to a resource at
\* most one has a claim that is still sound, and then the row is still its own
\* to close. Whoever works with it as well has been overtaken by a record(), a
\* schedule call or another worker's late answer, or has taken longer than the
\* 15 minutes after which a claim counts as interrupted.
OneCleaner ==
    \A w \in Workers : \A r \in Resources : Sound(w, r) =>
        /\ row[r] = "processing"
        /\ \A v \in Workers \ {w} : ~Sound(v, r)

\* A resource is kept for its retention after it was last recorded, unless the
\* chat it was recorded with is gone: the deletion of one chat takes nothing
\* from another.
KeptForRetention ==
    \A r \in Resources : row[r] = "pending" /\ due[r] > 0 => Orphaned(r)

\* The resources of a deleted chat leave the account in the end, although the
\* schedule call may be lost, a worker may die and a turn that was still
\* running records them again.
DeletedChatCleaned ==
    \A r \in Resources : ChatOf[r] \notin chats /\ r \in live ~> r \notin live
=============================================================================
