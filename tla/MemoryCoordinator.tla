-------------------------- MODULE MemoryCoordinator --------------------------
(***************************************************************************)
(* The memory backend of ChatConcurrencyCoordinator (concurrency.py        *)
(* 569-705, and the memory branches of release and of the heartbeat): one  *)
(* dictionary and one condition for all calls of the process.  A call has  *)
(* the condition from its entry until it is admitted or waits, also while  *)
(* it asks for the limits that hold now.                                   *)
(*                                                                         *)
(* Time is counted in ticks, far longer than a lookup of the limits; what  *)
(* an entry has left is its lease while it is admitted, its status time    *)
(* when it has ended.  The backend promises what ChatAdmission says.       *)
(***************************************************************************)
EXTENDS Integers, FiniteSets

CONSTANTS
    Callers,       \* acquire() calls
    CallIds,     \* request identifiers
    Scopes, FifoScopes,
    ScopesOf,    \* the scopes of an identifier
    Ceiling,     \* the highest limit of each scope
    Limits,      \* what the resolver may answer
    LeaseTicks, StatusTicks, QueueTicks, BeatTicks, RunTicks,
    Released     \* nobody has the condition

ASSUME MemoryAssumption ==
    /\ IsFiniteSet(CallIds) /\ FifoScopes \subseteq Scopes
    /\ ScopesOf \in [CallIds -> SUBSET Scopes]
    /\ Ceiling \in [Scopes -> Nat]
    /\ Limits \subseteq [Scopes -> Nat]
    /\ \A l \in Limits, k \in Scopes : l[k] <= Ceiling[k]
    /\ {QueueTicks, RunTicks} \subseteq Nat
    /\ {LeaseTicks, StatusTicks, BeatTicks} \subseteq Nat \ {0} /\ BeatTicks < LeaseTicks
    /\ Released \notin Callers

VARIABLES
    entries,    \* _memory_entries: an identifier's state and the time it has left
    numbered,   \* _memory_sequence
    number,     \* an entry's sequence
    condition,  \* the call that has _memory_condition, or Released
    caller        \* a call: where it is, its identifier, and its clocks

memoryVars == <<entries, numbered, number, condition, caller>>

Absent == [state |-> "none", left |-> 0]
NewCaller(r) == [at |-> "idle", id |-> r, wait |-> 0, beat |-> 0, run |-> 0]

MemoryTypeOK ==
    /\ entries \in [CallIds -> [state : {"none", "queued", "admitted", "expired", "ended"},
                                left : Nat]]
    /\ numbered \in Nat /\ number \in [CallIds -> Nat]
    /\ condition \in Callers \cup {Released}
    /\ caller \in [Callers -> [at : {"idle", "resolving", "waiting", "running", "closing", "over",
                                 "unresolved"},
                           id : CallIds, wait : Nat, beat : Nat, run : Nat]]

MemoryInit ==
    /\ entries = [r \in CallIds |-> Absent]
    /\ numbered = 0 /\ number = [r \in CallIds |-> 0]
    /\ condition = Released
    /\ caller \in [Callers -> {NewCaller(r) : r \in CallIds}]

-----------------------------------------------------------------------------
Place(c, at) == caller' = [caller EXCEPT ![c].at = at]
Entered(r, state, left) == [entries EXCEPT ![r] = [state |-> state, left |-> left]]

\* _memory_cleanup(): leases that lapsed, then records nobody asks for any more.
CleanedUp == [r \in CallIds |->
    IF entries[r].state = "admitted" /\ entries[r].left = 0
    THEN [state |-> "expired", left |-> StatusTicks]
    ELSE IF entries[r].state \in {"expired", "ended"} /\ entries[r].left = 0 THEN Absent
    ELSE entries[r]]

ActiveIn(k) == {r \in CallIds : CleanedUp[r].state = "admitted" /\ k \in ScopesOf[r]}

Earlier(r) == {q \in CallIds : entries[q].state = "queued" /\ number[q] < number[r]}

MayEnter(r, limits) ==
    /\ \A q \in Earlier(r) : ScopesOf[r] \cap ScopesOf[q] \cap FifoScopes = {}
    /\ \A k \in ScopesOf[r] : Cardinality(ActiveIn(k)) < limits[k]

\* Under the condition: refused, or in line and at the first attempt.
AskForPlace(c) == LET r == caller[c].id IN
    /\ caller[c].at = "idle" /\ condition = Released
    /\ IF entries[r].state # "none"
       THEN Place(c, "over") /\ UNCHANGED <<entries, numbered, number, condition>>
       ELSE /\ numbered' = numbered + 1 /\ number' = [number EXCEPT ![r] = numbered']
            /\ entries' = Entered(r, "queued", 0)
            /\ caller' = [caller EXCEPT ![c].at = "resolving", ![c].wait = QueueTicks]
            /\ condition' = c

\* One turn of the loop, once the limits are known.
Attempt(c, limits) == LET r == caller[c].id IN
    /\ caller[c].at = "resolving"
    /\ condition' = Released
    /\ IF MayEnter(r, limits)
       THEN /\ entries' = [CleanedUp EXCEPT ![r] = [state |-> "admitted", left |-> LeaseTicks]]
            /\ caller' = [caller EXCEPT ![c].at = "running", ![c].beat = BeatTicks, ![c].run = RunTicks]
       ELSE IF caller[c].wait = 0
       THEN /\ entries' = [CleanedUp EXCEPT ![r] = [state |-> "ended", left |-> StatusTicks]]
            /\ Place(c, "over")
       ELSE entries' = CleanedUp /\ Place(c, "waiting")
    /\ UNCHANGED <<numbered, number>>

\* The resolver raises: only a cancellation is caught, the entry stays in line.
LookupFails(c) ==
    /\ caller[c].at = "resolving"
    /\ condition' = Released /\ Place(c, "unresolved")
    /\ UNCHANGED <<entries, numbered, number>>

\* Notified, or a quarter of a second later.
WakeUp(c) ==
    /\ caller[c].at = "waiting" /\ condition = Released
    /\ condition' = c /\ Place(c, "resolving")
    /\ UNCHANGED <<entries, numbered, number>>

\* Mutant: the cancelled call leaves its entry alone.
CancelCallSilently(c) ==
    /\ \/ caller[c].at = "resolving"
       \/ caller[c].at = "waiting" /\ condition = Released
    /\ condition' = Released /\ Place(c, "over")
    /\ UNCHANGED <<entries, numbered, number>>

\* A wait that is cancelled takes the condition once more before it raises.
CancelCall(c) ==
    /\ \/ caller[c].at = "resolving"
       \/ caller[c].at = "waiting" /\ condition = Released
    /\ condition' = Released /\ Place(c, "over")
    /\ entries' = Entered(caller[c].id, "ended", StatusTicks)
    /\ UNCHANGED <<numbered, number>>

\* ConcurrencyLease.release(): the heartbeat is stopped at once, the entry is
\* ended under the condition, or not at all when the request is cancelled there.
RunEnds(c) ==
    /\ caller[c].at = "running"
    /\ caller' = [caller EXCEPT ![c].at = "closing", ![c].beat = 0, ![c].run = 0]
    /\ UNCHANGED <<entries, numbered, number, condition>>

GiveBack(c) ==
    /\ caller[c].at = "closing" /\ condition = Released
    /\ Place(c, "over")
    /\ entries' = IF entries[caller[c].id] = Absent THEN entries
                  ELSE Entered(caller[c].id, "ended", StatusTicks)
    /\ UNCHANGED <<numbered, number, condition>>

GiveBackCut(c) ==
    /\ caller[c].at = "closing" /\ Place(c, "over")
    /\ UNCHANGED <<entries, numbered, number, condition>>

\* A heartbeat that finds its entry ended stops, and the call runs on.
RenewLease(c) == LET r == caller[c].id IN
    /\ caller[c].at = "running" /\ caller[c].beat = 0 /\ condition = Released
    /\ entries[r].state = "admitted"
    /\ entries' = Entered(r, "admitted", LeaseTicks)
    /\ caller' = [caller EXCEPT ![c].beat = BeatTicks]
    /\ UNCHANGED <<numbered, number, condition>>

-----------------------------------------------------------------------------
Fewer(n) == IF n > 0 THEN n - 1 ELSE 0

Aged(entry) == [entry EXCEPT !.left = Fewer(entry.left)]
Later(r) == [r EXCEPT !.wait = Fewer(r.wait), !.beat = Fewer(r.beat), !.run = Fewer(r.run)]

\* Nobody has anything to do before time passes.
Idling ==
    /\ condition = Released
    /\ \A c \in Callers :
          /\ caller[c].at # "closing"
          /\ caller[c].at = "running" => caller[c].beat > 0 /\ caller[c].run > 0
          /\ caller[c].at = "waiting" => caller[c].wait > 0

MemoryTick ==
    /\ Idling
    /\ entries' = [r \in CallIds |-> Aged(entries[r])]
    /\ caller' = [c \in Callers |-> Later(caller[c])]
    /\ UNCHANGED <<numbered, number, condition>>

MemoryNext ==
    \/ \E c \in Callers :
          \/ AskForPlace(c) \/ (\E limits \in Limits : Attempt(c, limits))
          \/ LookupFails(c) \/ WakeUp(c) \/ CancelCall(c)
          \/ RunEnds(c) \/ GiveBack(c) \/ GiveBackCut(c) \/ RenewLease(c)
    \/ MemoryTick

MemorySpec == MemoryInit /\ [][MemoryNext]_memoryVars

-----------------------------------------------------------------------------
(***************************************************************************)
(* What the abstract specification sees: a lease that lapsed is not        *)
(* counted any more, and a record whose time is over is forgotten, before  *)
(* the next attempt of anybody writes it down.                             *)
(***************************************************************************)
Lapsed(r) == entries[r].state \in {"expired", "ended"} /\ entries[r].left = 0

Line == INSTANCE ChatAdmission WITH
    Ids <- CallIds, Keys <- Scopes, FifoKeys <- FifoScopes, KeysOf <- ScopesOf,
    Limit <- Ceiling,
    phase <- [r \in CallIds |-> IF Lapsed(r) THEN "none"
                                ELSE IF entries[r].state = "expired" THEN "admitted"
                                ELSE entries[r].state],
    ticket <- number,
    counted <- [k \in Scopes |-> {r \in CallIds :
        entries[r].state = "admitted" /\ entries[r].left > 0 /\ k \in ScopesOf[r]}]

\* A call that runs is counted in all its scopes, and no scope runs more calls
\* than its limit.
RunnersCounted ==
    /\ \A c \in Callers : caller[c].at = "running" =>
          entries[caller[c].id].state = "admitted" /\ entries[caller[c].id].left > 0
    /\ \A k \in Scopes : Cardinality({c \in Callers :
          caller[c].at = "running" /\ k \in ScopesOf[caller[c].id]}) <= Ceiling[k]

\* A place in the line belongs to a call that waits for it, or to one whose
\* lookup of the limits failed: that place is never given back.
NobodyStays == \A r \in CallIds : entries[r].state = "queued" =>
    \E c \in Callers : caller[c].id = r /\ caller[c].at \in {"resolving", "waiting", "unresolved"}

\* Line!Spec, with a step that leaves the backend alone told apart first.
MemoryImplements ==
    Line!Init /\ [][UNCHANGED memoryVars \/ [Line!Next]_(Line!vars)]_memoryVars

\* The memory backend is ChatAdmission too: first come, first served within the
\* limits, whatever calls are cancelled, time out or are never released
\* (_acquire_memory, release, _memory_cleanup).
MemorySafety == MemoryImplements /\ [](MemoryTypeOK /\ RunnersCounted /\ NobodyStays)
=============================================================================
