----------------------------- MODULE ChatProofs -----------------------------
(***************************************************************************)
(* Proofs about the two components that write a chat: the turns that start *)
(* in it at once (StartupBatch), and the index its pages are read from     *)
(* (ChatHistory).                                                          *)
(***************************************************************************)
EXTENDS MCWebUI, FiniteSetTheorems, TLAPS

-----------------------------------------------------------------------------
\* A set of numbers has a least element, which stands for induction: nothing
\* fails where there is no least number it fails at.
LEMMA LeastNumber ==
    ASSUME NEW T, T \subseteq Nat, T # {}
    PROVE  \E n \in T : \A m \in T : n <= m
<1> DEFINE Below == {0 .. n : n \in T}
<1>1. Below \subseteq FiniteSubsetsOf(Nat) /\ Below # {}
    <2>1. ASSUME NEW n \in T PROVE 0 .. n \in FiniteSubsetsOf(Nat)
        <3>1. n \in Int /\ 0 \in Int /\ 0 .. n \in SUBSET Nat
            OBVIOUS
        <3> QED BY <3>1, FS_Interval DEF FiniteSubsetsOf
    <2> QED BY <2>1
<1>2. PICK x \in Below : \A y \in Below : <<y, x>> \notin StrictSubsetOrdering(Nat)
    <2> HIDE DEF Below
    <2> QED BY <1>1, FS_StrictSubsetOrderingWellFounded, WFMin
<1>3. PICK n \in T : x = 0 .. n
    OBVIOUS
<1>4. ASSUME NEW m \in T, m < n
      PROVE  FALSE
    <2>1. 0 .. m \in Below /\ 0 .. m \in SUBSET Nat /\ x \in SUBSET Nat
        BY <1>3
    <2>2. 0 .. m \subseteq x /\ n \in x /\ n \notin 0 .. m
        BY <1>3, <1>4
    <2> HIDE DEF Below
    <2> QED BY <1>2, <2>1, <2>2 DEF StrictSubsetOrdering
<1> QED BY <1>4

-----------------------------------------------------------------------------
(***************************************************************************)
(* The turns of one chat: who has written, and what a copy knows.          *)
(***************************************************************************)
Links == [Messages -> SUBSET Messages]
TurnRow == [at : BatchSteps, parent : Messages, copy : Links, seen : SUBSET Messages]

BatchTables ==
    /\ messages \subseteq Messages /\ rows \subseteq Messages /\ exists \in BOOLEAN
    /\ children \in Links /\ turn \in [Sends -> TurnRow]

\* A turn asks under the first message or an answer; what is in the chat, and
\* what a turn has seen there, was written by a turn.
AskedRight == \A c \in Sends :
    /\ turn[c].parent \in {Root} \cup {ReplyTo(o) : o \in Sends}
    /\ turn[c].at \notin {"new", "failed"} => turn[c].parent \in turn[c].seen
WrittenBy(set) == \A c \in Sends : PromptOf(c) \in set \/ ReplyTo(c) \in set => InChat(c)
AllWritten == WrittenBy(messages) /\ \A c \in Sends : WrittenBy(turn[c].seen)

\* What a turn that is about to commit has staged.
StagedRight == \A c \in Sends : turn[c].at = "committing" =>
    PromptOf(c) \in turn[c].copy[turn[c].parent] /\ ReplyTo(c) \in turn[c].copy[PromptOf(c)]

\* Another turn under the same parent did not see this one.
Raced(c) == \E o \in Sends \ {c} : /\ InChat(o) /\ turn[o].parent = turn[c].parent
                                   /\ PromptOf(c) \notin turn[o].seen

\* The copy of a turn links every prompt it has seen to its parent, but those
\* that had lost the link before.
CopiesLinked == exists => \A o \in Sends : turn[o].at \in {"staging", "committing"} =>
    \A c \in Sends : PromptOf(c) \in turn[o].seen =>
        PromptOf(c) \in turn[o].copy[turn[c].parent] \/ Raced(c)

BatchInv ==
    /\ BatchTables /\ AskedRight /\ AllWritten /\ StagedRight /\ CopiesLinked
    /\ TurnsKept /\ LinkedOrRaced /\ RowsFollow

\* Messages of different turns differ, and a prompt is no answer.
LEMMA MessagesDiffer ==
    ASSUME BatchAssumption
    PROVE  /\ Root \in Messages
           /\ \A c \in Sends : /\ PromptOf(c) \in Messages /\ ReplyTo(c) \in Messages
                               /\ Root # PromptOf(c) /\ Root # ReplyTo(c)
                               /\ \A o \in Sends : /\ PromptOf(c) # ReplyTo(o)
                                                   /\ o # c => PromptOf(c) # PromptOf(o)
                                                   /\ o # c => ReplyTo(c) # ReplyTo(o)
BY DEF BatchAssumption, Messages, PromptOf, ReplyTo

LEMMA StepsNamed ==
    /\ "new" \in BatchSteps /\ "staging" \in BatchSteps /\ "committing" \in BatchSteps
    /\ "reconciling" \in BatchSteps /\ "saved" \in BatchSteps /\ "unlisted" \in BatchSteps
    /\ "failed" \in BatchSteps
BY DEF BatchSteps

LEMMA BatchBegins ==
    ASSUME BatchAssumption, BatchInit
    PROVE  BatchInv
<1> DEFINE empty == [m \in Messages |-> {}]
           new == [at |-> "new", parent |-> Root, seen |-> {}, copy |-> empty]
<1>1. empty \in Links
    BY DEF Links
<1>2. new \in TurnRow
    BY <1>1, MessagesDiffer, StepsNamed DEF TurnRow
<1>3. \A c \in Sends : turn[c] = new
    BY DEF BatchInit
<1>4. new.at = "new" /\ new.parent = Root /\ new.seen = {}
    OBVIOUS
<1>5. turn \in [Sends -> TurnRow] /\ children \in Links
    <2> HIDE DEF new
    <2>1. turn = [c \in Sends |-> new]
        BY DEF BatchInit, new
    <2> QED BY <1>1, <1>2, <2>1 DEF BatchInit
<1> HIDE DEF new, empty
<1>6. BatchTables
    BY <1>5, MessagesDiffer DEF BatchInit, BatchTables
<1>7. AskedRight /\ AllWritten /\ StagedRight /\ CopiesLinked
    BY <1>3, <1>4, MessagesDiffer
       DEF AskedRight, AllWritten, WrittenBy, StagedRight, CopiesLinked, BatchInit
<1>8. TurnsKept /\ LinkedOrRaced /\ RowsFollow
    BY <1>3, <1>4 DEF TurnsKept, LinkedOrRaced, RowsFollow, InChat
<1> QED BY <1>6, <1>7, <1>8 DEF BatchInv

\* A turn that has copied the chat keeps its parent and what it has seen, and
\* one that has written stays written.
Onward ==
    /\ \A c \in Sends : turn[c].at # "new" =>
          turn'[c].parent = turn[c].parent /\ turn'[c].seen = turn[c].seen
    /\ \A c \in Sends : InChat(c) => InChat(c)'
LEMMA RacedStays ==
    ASSUME Onward, NEW c \in Sends, InChat(c), Raced(c)
    PROVE  Raced(c)'
<1>1. PICK o \in Sends \ {c} : InChat(o) /\ turn[o].parent = turn[c].parent
                               /\ PromptOf(c) \notin turn[o].seen
    BY DEF Raced
<1>2. turn[o].at # "new" /\ turn[c].at # "new"
    BY <1>1 DEF InChat
<1> QED BY <1>1, <1>2 DEF Onward, Raced

\* A step of a turn, as the new contents of its handler.
LEMMA TurnMoves ==
    ASSUME BatchInv, NEW c \in Sends, NEW row \in TurnRow, turn' = [turn EXCEPT ![c] = row]
    PROVE  /\ turn' \in [Sends -> TurnRow] /\ turn'[c] = row
           /\ \A o \in Sends \ {c} : turn'[o] = turn[o]
BY DEF BatchInv, BatchTables

LEMMA StepMoves ==
    ASSUME BatchInv, NEW c \in Sends, NEW step \in BatchSteps, turn' = [turn EXCEPT ![c].at = step]
    PROVE  /\ turn' \in [Sends -> TurnRow] /\ turn'[c].at = step
           /\ \A o \in Sends : /\ turn'[o].parent = turn[o].parent /\ turn'[o].seen = turn[o].seen
                               /\ turn'[o].copy = turn[o].copy
                               /\ o # c => turn'[o].at = turn[o].at
BY DEF BatchInv, BatchTables, TurnRow

\* The copy: the chat as it is, with the links it has.
LEMMA CopyKeeps ==
    ASSUME BatchAssumption, BatchInv, NEW c \in Sends, CopyChat(c)
    PROVE  BatchInv'
<1>1. PICK m \in messages \cap ({Root} \cup {ReplyTo(o) : o \in Sends}) :
        turn' = [turn EXCEPT ![c] = [at |-> "staging", parent |-> m, seen |-> messages, copy |-> children]]
    BY DEF CopyChat
<1> DEFINE row == [at |-> "staging", parent |-> m, seen |-> messages, copy |-> children]
<1>2. row \in TurnRow /\ row.at = "staging" /\ row.parent = m /\ row.seen = messages /\ row.copy = children
    BY <1>1, StepsNamed DEF BatchInv, BatchTables, TurnRow
<1>3. turn' = [turn EXCEPT ![c] = row] /\ turn[c].at = "new" /\ exists
      /\ UNCHANGED <<messages, children, rows, exists>>
    BY <1>1 DEF CopyChat
<1> HIDE DEF row
<1>4. /\ turn' \in [Sends -> TurnRow] /\ turn'[c] = row
      /\ \A o \in Sends \ {c} : turn'[o] = turn[o]
    BY <1>2, <1>3, TurnMoves
<1>5. Onward /\ ~InChat(c)' /\ \A o \in Sends : InChat(o)' <=> InChat(o)
    BY <1>2, <1>3, <1>4 DEF Onward, InChat
<1>6. BatchTables' /\ AskedRight' /\ AllWritten' /\ StagedRight'
    <2>1. BatchTables'
        BY <1>3, <1>4 DEF BatchInv, BatchTables
    <2>2. AskedRight'
        BY <1>1, <1>2, <1>4 DEF BatchInv, AskedRight
    <2>3. AllWritten'
        BY <1>2, <1>3, <1>4, <1>5 DEF BatchInv, AllWritten, WrittenBy
    <2>4. StagedRight'
        BY <1>2, <1>4 DEF BatchInv, StagedRight
    <2> QED BY <2>1, <2>2, <2>3, <2>4
<1>7. \A o \in Sends : InChat(o) => turn'[o] = turn[o]
    BY <1>3, <1>4 DEF InChat
<1>8. TurnsKept' /\ RowsFollow'
    BY <1>2, <1>3, <1>4, <1>5 DEF BatchInv, TurnsKept, RowsFollow
<1>9. LinkedOrRaced'
    <2> SUFFICES ASSUME NEW o \in Sends, InChat(o)
                 PROVE  PromptOf(o) \in children[turn'[o].parent] \/ Raced(o)'
        BY <1>3, <1>5 DEF LinkedOrRaced, Raced
    <2>1. PromptOf(o) \in children[turn[o].parent] \/ Raced(o)
        BY <1>3 DEF BatchInv, LinkedOrRaced, Raced
    <2> QED BY <1>5, <1>7, <2>1, RacedStays
<1>10. CopiesLinked'
    <2> SUFFICES ASSUME NEW o \in Sends, turn'[o].at \in {"staging", "committing"},
                        NEW d \in Sends, PromptOf(d) \in turn'[o].seen
                 PROVE  PromptOf(d) \in turn'[o].copy[turn'[d].parent] \/ Raced(d)'
        BY DEF CopiesLinked
    <2>1. CASE o = c
        <3>1. InChat(d) /\ turn'[o].copy = children
            BY <1>2, <1>4, <2>1 DEF BatchInv, AllWritten, WrittenBy
        <3>2. PromptOf(d) \in children[turn[d].parent] \/ Raced(d)
            BY <1>3, <3>1 DEF BatchInv, LinkedOrRaced, Raced
        <3> QED BY <1>5, <1>7, <3>1, <3>2, RacedStays
    <2>2. CASE o # c
        <3>1. turn'[o] = turn[o] /\ InChat(d)
            BY <1>4, <2>2 DEF BatchInv, AllWritten, WrittenBy
        <3>2. PromptOf(d) \in turn[o].copy[turn[d].parent] \/ Raced(d)
            BY <1>3, <3>1 DEF BatchInv, CopiesLinked
        <3> QED BY <1>5, <1>7, <3>1, <3>2, RacedStays
    <2> QED BY <2>1, <2>2
<1> QED BY <1>6, <1>8, <1>9, <1>10 DEF BatchInv

\* What is staged: the turn's own links, beside all the copy had.
LEMMA StagingKeeps ==
    ASSUME BatchAssumption, BatchInv, NEW c \in Sends, StageTurn(c)
    PROVE  BatchInv'
<1> DEFINE old == turn[c]
           mid == [old EXCEPT !.at = "committing"]
           row == [mid EXCEPT !.copy = Staged(c)]
<1>1. old \in TurnRow /\ old.at = "staging" /\ UNCHANGED <<messages, children, rows, exists>>
    BY DEF StageTurn, BatchInv, BatchTables
<1>2. old.parent \in Messages /\ \A o \in Sends : old.parent # PromptOf(o)
    BY <1>1, MessagesDiffer DEF TurnRow, BatchInv, AskedRight
<1>3. /\ Staged(c) \in Links
      /\ PromptOf(c) \in Staged(c)[old.parent] /\ ReplyTo(c) \in Staged(c)[PromptOf(c)]
      /\ \A m \in Messages : m # PromptOf(c) => old.copy[m] \subseteq Staged(c)[m]
    BY <1>1, <1>2, MessagesDiffer DEF Staged, TurnRow, Links
<1>4. row \in TurnRow /\ row.at = "committing" /\ row.parent = old.parent /\ row.seen = old.seen
      /\ row.copy = Staged(c)
    <2>1. mid \in TurnRow /\ mid.at = "committing" /\ mid.parent = old.parent /\ mid.seen = old.seen
        BY <1>1, StepsNamed DEF TurnRow
    <2> HIDE DEF mid
    <2> QED BY <1>3, <2>1 DEF TurnRow
<1>5. turn' = [turn EXCEPT ![c] = row]
    <2>1. turn' = [turn EXCEPT ![c].at = "committing", ![c].copy = Staged(c)]
        BY DEF StageTurn
    <2> QED BY <2>1 DEF BatchInv, BatchTables
<1> HIDE DEF row
<1>6. /\ turn' \in [Sends -> TurnRow] /\ turn'[c] = row
      /\ \A o \in Sends \ {c} : turn'[o] = turn[o]
    BY <1>4, <1>5, TurnMoves
<1>7. \A o \in Sends : turn'[o].parent = turn[o].parent /\ turn'[o].seen = turn[o].seen
    BY <1>4, <1>6
<1>8. Onward /\ \A o \in Sends : InChat(o)' <=> InChat(o)
    BY <1>1, <1>4, <1>6, <1>7 DEF Onward, InChat
<1>9. BatchTables' /\ AskedRight' /\ AllWritten' /\ StagedRight'
    <2>1. BatchTables'
        BY <1>1, <1>6 DEF BatchInv, BatchTables
    <2>2. AskedRight'
        BY <1>1, <1>4, <1>6, <1>7 DEF BatchInv, AskedRight
    <2>3. AllWritten'
        BY <1>1, <1>7, <1>8 DEF BatchInv, AllWritten, WrittenBy
    <2>4. StagedRight'
        BY <1>3, <1>4, <1>6 DEF BatchInv, StagedRight
    <2> QED BY <2>1, <2>2, <2>3, <2>4
<1>10. TurnsKept' /\ RowsFollow'
    BY <1>1, <1>4, <1>6, <1>8 DEF BatchInv, TurnsKept, RowsFollow
<1>11. LinkedOrRaced'
    <2> SUFFICES ASSUME NEW o \in Sends, InChat(o), exists
                 PROVE  PromptOf(o) \in children[turn'[o].parent] \/ Raced(o)'
        BY <1>1, <1>8 DEF LinkedOrRaced, Raced
    <2>1. PromptOf(o) \in children[turn[o].parent] \/ Raced(o)
        BY DEF BatchInv, LinkedOrRaced, Raced
    <2> QED BY <1>7, <1>8, <2>1, RacedStays
<1>12. CopiesLinked'
    <2> SUFFICES ASSUME exists, NEW o \in Sends, turn'[o].at \in {"staging", "committing"},
                        NEW d \in Sends, PromptOf(d) \in turn'[o].seen
                 PROVE  PromptOf(d) \in turn'[o].copy[turn'[d].parent] \/ Raced(d)'
        BY <1>1 DEF CopiesLinked
    <2>1. InChat(d) /\ turn[o].at \in {"staging", "committing"}
        BY <1>1, <1>6, <1>7 DEF BatchInv, AllWritten, WrittenBy
    <2>2. PromptOf(d) \in turn[o].copy[turn[d].parent] \/ Raced(d)
        BY <1>7, <2>1 DEF BatchInv, CopiesLinked
    <2>3. turn[d].parent \in Messages /\ turn[d].parent # PromptOf(c)
        BY MessagesDiffer DEF BatchInv, BatchTables, TurnRow, AskedRight
    <2>4. turn[o].copy[turn[d].parent] \subseteq turn'[o].copy[turn'[d].parent]
        BY <1>3, <1>4, <1>6, <1>7, <2>3
    <2> QED BY <1>8, <2>1, <2>2, <2>4, RacedStays
<1> QED BY <1>9, <1>10, <1>11, <1>12 DEF BatchInv

\* A step that changes only where turns are, all that have written staying so
\* and none written anew: what is left to show is what it does to the rows.
LEMMA PlacesChange ==
    ASSUME BatchAssumption, BatchInv, turn' \in [Sends -> TurnRow],
           \A o \in Sends : /\ turn'[o].parent = turn[o].parent /\ turn'[o].seen = turn[o].seen
                            /\ turn'[o].copy = turn[o].copy
                            /\ turn'[o].at \in {turn[o].at, "saved", "unlisted", "failed"},
           \A o \in Sends : InChat(o)' <=> InChat(o),
           UNCHANGED <<messages, children, exists>>, rows' \subseteq Messages, RowsFollow'
    PROVE  BatchInv'
<1>1. Onward
    BY DEF Onward
<1>2. BatchTables' /\ AskedRight' /\ AllWritten' /\ StagedRight'
    <2>1. BatchTables'
        BY DEF BatchInv, BatchTables
    <2>2. AskedRight'
        BY DEF BatchInv, AskedRight, InChat
    <2>3. AllWritten'
        BY DEF BatchInv, AllWritten, WrittenBy
    <2>4. StagedRight'
        BY DEF BatchInv, StagedRight
    <2> QED BY <2>1, <2>2, <2>3, <2>4
<1>3. TurnsKept'
    BY DEF BatchInv, TurnsKept
<1>4. LinkedOrRaced'
    <2> SUFFICES ASSUME NEW o \in Sends, InChat(o), exists
                 PROVE  PromptOf(o) \in children[turn'[o].parent] \/ Raced(o)'
        BY DEF LinkedOrRaced, Raced
    <2>1. PromptOf(o) \in children[turn[o].parent] \/ Raced(o)
        BY DEF BatchInv, LinkedOrRaced, Raced
    <2> QED BY <1>1, <2>1, RacedStays
<1>5. CopiesLinked'
    <2> SUFFICES ASSUME exists, NEW o \in Sends, turn'[o].at \in {"staging", "committing"},
                        NEW d \in Sends, PromptOf(d) \in turn[o].seen
                 PROVE  PromptOf(d) \in turn[o].copy[turn[d].parent] \/ Raced(d)'
        BY DEF CopiesLinked
    <2>1. InChat(d) /\ turn[o].at \in {"staging", "committing"}
        BY DEF BatchInv, AllWritten, WrittenBy
    <2>2. PromptOf(d) \in turn[o].copy[turn[d].parent] \/ Raced(d)
        BY <2>1 DEF BatchInv, CopiesLinked
    <2> QED BY <1>1, <2>1, <2>2, RacedStays
<1> QED BY <1>2, <1>3, <1>4, <1>5 DEF BatchInv

\* Who commits under the same parent takes a link away only from a turn that
\* it did not see.
LEMMA CommitKeeps ==
    ASSUME BatchAssumption, BatchInv, NEW c \in Sends, CommitBatch(c)
    PROVE  BatchInv'
<1>1. PICK step \in {"saved", "reconciling"} :
        /\ turn' = [turn EXCEPT ![c].at = step]
        /\ step = "saved" => rows' = Normalized(c)
        /\ step # "saved" => rows' = rows
    BY DEF CommitBatch
<1>2. turn[c].at = "committing" /\ exists /\ exists' = exists /\ Replayed(c)
    BY DEF CommitBatch
<1>3. /\ turn' \in [Sends -> TurnRow] /\ turn'[c].at = step
      /\ \A o \in Sends : /\ turn'[o].parent = turn[o].parent /\ turn'[o].seen = turn[o].seen
                          /\ turn'[o].copy = turn[o].copy
                          /\ o # c => turn'[o].at = turn[o].at
    BY <1>1, StepMoves, StepsNamed
<1>4. Onward /\ InChat(c)' /\ ~InChat(c) /\ \A o \in Sends \ {c} : InChat(o)' <=> InChat(o)
    BY <1>1, <1>2, <1>3 DEF Onward, InChat
<1> DEFINE parent == turn[c].parent
           copy == turn[c].copy
<1>5. /\ parent \in Messages /\ copy \in Links /\ PromptOf(c) \in copy[parent]
      /\ ReplyTo(c) \in copy[PromptOf(c)]
      /\ \A o \in Sends : parent # PromptOf(o) /\ turn[o].parent # PromptOf(c)
    BY <1>2, MessagesDiffer DEF BatchInv, BatchTables, TurnRow, StagedRight, AskedRight
<1>6. /\ messages' = messages \cup {PromptOf(c), ReplyTo(c)}
      /\ children' \in Links
      /\ \A m \in Messages : children'[m] = IF m \in ChangedBy(c) THEN copy[m] ELSE children[m]
    BY <1>2, <1>5 DEF Replayed, Links, BatchInv, BatchTables
<1>7. rows \subseteq rows' /\ rows' \subseteq Messages
      /\ (step = "saved" => {PromptOf(c), ReplyTo(c)} \subseteq rows')
    BY <1>1, <1>5, MessagesDiffer DEF Normalized, ChangedBy, BatchInv, BatchTables
<1>8. BatchTables' /\ AskedRight' /\ AllWritten' /\ StagedRight'
    <2>1. BatchTables'
        BY <1>2, <1>3, <1>6, <1>7, MessagesDiffer DEF BatchInv, BatchTables
    <2>2. AskedRight'
        BY <1>1, <1>2, <1>3 DEF BatchInv, AskedRight
    <2>3. AllWritten'
        BY <1>3, <1>4, <1>6, MessagesDiffer DEF BatchInv, AllWritten, WrittenBy
    <2>4. StagedRight'
        BY <1>1, <1>3 DEF BatchInv, StagedRight
    <2> QED BY <2>1, <2>2, <2>3, <2>4
\* Nobody who has written asked under this turn's answer.
<1>9. \A o \in Sends : InChat(o) => turn[o].parent \in Messages /\ turn[o].parent # ReplyTo(c)
    BY <1>4 DEF BatchInv, BatchTables, TurnRow, AskedRight, AllWritten, WrittenBy, InChat
<1>10. TurnsKept'
    <2> SUFFICES ASSUME NEW o \in Sends, InChat(o)'
                 PROVE  {PromptOf(o), ReplyTo(o)} \subseteq messages'
                        /\ ReplyTo(o) \in children'[PromptOf(o)]
        BY DEF TurnsKept
    <2>1. CASE o = c
        BY <1>5, <1>6, <2>1, MessagesDiffer DEF ChangedBy
    <2>2. CASE o # c
        <3>1. {PromptOf(o), ReplyTo(o)} \subseteq messages /\ ReplyTo(o) \in children[PromptOf(o)]
            BY <1>2, <1>4, <2>2 DEF BatchInv, TurnsKept
        <3>2. PromptOf(o) \notin ChangedBy(c)
            BY <1>5, <2>2, MessagesDiffer DEF ChangedBy
        <3> QED BY <1>6, <3>1, <3>2, MessagesDiffer
    <2> QED BY <2>1, <2>2
<1>11. LinkedOrRaced'
    <2> SUFFICES ASSUME NEW o \in Sends, InChat(o)'
                 PROVE  PromptOf(o) \in children'[turn[o].parent] \/ Raced(o)'
        BY <1>3 DEF LinkedOrRaced, Raced
    <2>1. CASE o = c
        BY <1>5, <1>6, <2>1 DEF ChangedBy
    <2>2. CASE o # c /\ turn[o].parent # parent
        <3>1. InChat(o) /\ (PromptOf(o) \in children[turn[o].parent] \/ Raced(o))
            BY <1>2, <1>4, <2>2 DEF BatchInv, LinkedOrRaced, Raced
        <3>2. turn[o].parent \in Messages /\ turn[o].parent \notin ChangedBy(c)
            BY <1>5, <1>9, <2>2, <3>1 DEF ChangedBy
        <3> QED BY <1>4, <1>6, <3>1, <3>2, RacedStays
    <2>3. CASE o # c /\ turn[o].parent = parent
        <3>1. InChat(o)
            BY <1>4, <2>3
        <3>2. CASE PromptOf(o) \in turn[c].seen
            <4>1. PromptOf(o) \in copy[parent] \/ Raced(o)
                BY <1>2, <2>3, <3>2 DEF BatchInv, CopiesLinked
            <4>2. children'[turn[o].parent] = copy[parent]
                BY <1>5, <1>6, <2>3 DEF ChangedBy
            <4> QED BY <1>4, <3>1, <4>1, <4>2, RacedStays
        <3>3. CASE PromptOf(o) \notin turn[c].seen
            BY <1>3, <1>4, <2>3, <3>3 DEF Raced
        <3> QED BY <3>2, <3>3
    <2> QED BY <2>1, <2>2, <2>3
<1>12. RowsFollow'
    BY <1>1, <1>2, <1>3, <1>7 DEF BatchInv, RowsFollow
<1>13. CopiesLinked'
    <2> SUFFICES ASSUME NEW o \in Sends, turn'[o].at \in {"staging", "committing"},
                        NEW d \in Sends, PromptOf(d) \in turn[o].seen
                 PROVE  PromptOf(d) \in turn[o].copy[turn[d].parent] \/ Raced(d)'
        BY <1>3 DEF CopiesLinked
    <2>1. InChat(d) /\ turn[o].at \in {"staging", "committing"}
        BY <1>1, <1>3 DEF BatchInv, AllWritten, WrittenBy
    <2>2. PromptOf(d) \in turn[o].copy[turn[d].parent] \/ Raced(d)
        BY <1>2, <2>1 DEF BatchInv, CopiesLinked
    <2> QED BY <1>4, <2>1, <2>2, RacedStays
<1> QED BY <1>8, <1>10, <1>11, <1>12, <1>13 DEF BatchInv

LEMMA ReconcileKeeps ==
    ASSUME BatchAssumption, BatchInv, NEW c \in Sends, ReconcileRows(c)
    PROVE  BatchInv'
<1>1. PICK step \in {"saved", "unlisted"} :
        /\ turn' = [turn EXCEPT ![c].at = step]
        /\ step = "saved" => rows' = IF exists THEN Normalized(c) ELSE rows
        /\ step # "saved" => rows' = rows
    BY DEF ReconcileRows
<1>2. /\ turn' \in [Sends -> TurnRow] /\ turn'[c].at = step
      /\ \A o \in Sends : /\ turn'[o].parent = turn[o].parent /\ turn'[o].seen = turn[o].seen
                          /\ turn'[o].copy = turn[o].copy
                          /\ o # c => turn'[o].at = turn[o].at
    BY <1>1, StepMoves, StepsNamed
<1>3. turn[c].at = "reconciling" /\ UNCHANGED <<messages, children, exists>>
    BY DEF ReconcileRows
<1>4. \A o \in Sends : /\ InChat(o)' <=> InChat(o)
                       /\ turn'[o].at \in {turn[o].at, "saved", "unlisted", "failed"}
    BY <1>1, <1>2, <1>3 DEF InChat
<1>5. turn[c].parent \in Messages
    BY DEF BatchInv, BatchTables, TurnRow
<1>6. rows' \subseteq Messages /\ rows \subseteq rows'
      /\ (step = "saved" /\ exists => {PromptOf(c), ReplyTo(c)} \subseteq rows')
    BY <1>1, <1>5, MessagesDiffer DEF Normalized, ChangedBy, BatchInv, BatchTables
<1>7. RowsFollow'
    BY <1>1, <1>2, <1>3, <1>6 DEF BatchInv, RowsFollow
<1> QED BY <1>2, <1>3, <1>4, <1>6, <1>7, PlacesChange

LEMMA TargetGoneKeeps ==
    ASSUME BatchAssumption, BatchInv, NEW c \in Sends, TargetGone(c)
    PROVE  BatchInv'
<1>1. /\ turn[c].at \in {"new", "committing"} /\ ~exists /\ turn' = [turn EXCEPT ![c].at = "failed"]
      /\ UNCHANGED <<messages, children, rows, exists>>
    BY DEF TargetGone
<1>2. /\ turn' \in [Sends -> TurnRow] /\ turn'[c].at = "failed"
      /\ \A o \in Sends : /\ turn'[o].parent = turn[o].parent /\ turn'[o].seen = turn[o].seen
                          /\ turn'[o].copy = turn[o].copy
                          /\ o # c => turn'[o].at = turn[o].at
    BY <1>1, StepMoves, StepsNamed
<1>3. \A o \in Sends : /\ InChat(o)' <=> InChat(o)
                       /\ turn'[o].at \in {turn[o].at, "saved", "unlisted", "failed"}
    BY <1>1, <1>2 DEF InChat
<1>4. rows' \subseteq Messages /\ RowsFollow'
    BY <1>1 DEF BatchInv, BatchTables, RowsFollow
<1> QED BY <1>1, <1>2, <1>3, <1>4, PlacesChange

LEMMA DeletionKeeps ==
    ASSUME BatchAssumption, BatchInv, DeleteChat
    PROVE  BatchInv'
<1>1. exists' = FALSE /\ messages' = {} /\ rows' = {} /\ turn' = turn
      /\ children' = [m \in Messages |-> {}]
    BY DEF DeleteChat
<1>2. BatchTables' /\ AskedRight' /\ AllWritten' /\ StagedRight'
    BY <1>1 DEF BatchInv, BatchTables, Links, AskedRight, AllWritten, WrittenBy, InChat, StagedRight
<1>3. CopiesLinked' /\ TurnsKept' /\ LinkedOrRaced' /\ RowsFollow'
    BY <1>1 DEF CopiesLinked, TurnsKept, LinkedOrRaced, RowsFollow
<1> QED BY <1>2, <1>3 DEF BatchInv

LEMMA BatchInvariant ==
    ASSUME BatchAssumption, BatchInv, [BatchNext]_batchVars
    PROVE  BatchInv'
<1>1. ASSUME NEW c \in Sends,
             CopyChat(c) \/ StageTurn(c) \/ CommitBatch(c) \/ ReconcileRows(c) \/ TargetGone(c)
      PROVE  BatchInv'
    BY <1>1, CopyKeeps, StagingKeeps, CommitKeeps, ReconcileKeeps, TargetGoneKeeps
<1>2. CASE UNCHANGED batchVars
    BY <1>2 DEF batchVars, BatchInv, BatchTables, AskedRight, AllWritten, WrittenBy, InChat,
                StagedRight, CopiesLinked, Raced, TurnsKept, LinkedOrRaced, RowsFollow
<1> QED BY <1>1, <1>2, DeletionKeeps DEF BatchNext

\* For any number of turns that start at once in one chat: none loses what
\* another has written, a prompt that its parent does not link to was answered
\* beside a turn that had not seen it, and the rows follow (startup_batch.py).
THEOREM TurnsOfAChatAreKept ==
    ASSUME BatchAssumption
    PROVE  BatchSpec => []BatchSafety
<1>1. BatchInit => BatchInv
    BY BatchBegins
<1>2. BatchInv /\ [BatchNext]_batchVars => BatchInv'
    BY BatchInvariant
<1>3. BatchInv => BatchSafety
    BY DEF BatchInv, BatchSafety, BatchTables, BatchTypeOK, Links, TurnRow
<1> QED BY <1>1, <1>2, <1>3, PTL DEF BatchSpec

-----------------------------------------------------------------------------
(* Chat history: the index follows the chat, the pages show the index. *)

LEMMA GreatestNumber ==
    ASSUME NEW T, T \subseteq Nat, IsFiniteSet(T), T # {}
    PROVE  \E n \in T : \A m \in T : m <= n
<1> DEFINE HasIt(s) == s # {} => \E n \in s : \A m \in s : m <= n
           Sizes == {n \in Nat : \E s \in SUBSET T : Cardinality(s) = n /\ ~HasIt(s)}
<1>1. Sizes = {}
  <2> SUFFICES ASSUME Sizes # {} PROVE FALSE
    OBVIOUS
  <2>1. PICK n \in Sizes : \A k \in Sizes : n <= k
    <3>1. Sizes \subseteq Nat
      OBVIOUS
    <3> HIDE DEF Sizes
    <3> QED BY <3>1, LeastNumber
  <2>2. PICK s \in SUBSET T : Cardinality(s) = n /\ ~HasIt(s)
    BY <2>1
  <2>3. PICK x \in s : TRUE
    BY <2>2
  <2> DEFINE r == s \ {x}
  <2>4. IsFiniteSet(s) /\ n \in Nat \ {0} /\ Cardinality(r) = n - 1
    <3>1. IsFiniteSet(s)
      BY FS_Subset
    <3>2. Cardinality(s) \in Nat \ {0}
      BY <3>1, <2>3, FS_CardinalityType, FS_EmptySet
    <3> QED BY <2>2, <2>3, <3>1, <3>2, FS_RemoveElement
  <2>5. HasIt(r)
    <3>1. n - 1 \in Nat /\ n - 1 \notin Sizes
      BY <2>1, <2>4
    <3> QED BY <2>4, <3>1
  <2>6. CASE r = {}
    <3>1. s = {x} /\ x \in Nat
      BY <2>3, <2>6
    <3> QED BY <2>2, <3>1
  <2>7. CASE r # {}
    <3>1. PICK y \in r : \A m \in r : m <= y
      BY <2>5, <2>7
    <3>2. x \in Nat /\ y \in Nat /\ y \in s /\ \A m \in s : m \in Nat /\ (m = x \/ m <= y)
      BY <3>1
    <3>3. CASE x <= y
      <4>1. \A m \in s : m <= y
        BY <3>2, <3>3
      <4> QED BY <2>2, <3>2, <4>1
    <3>4. CASE y < x
      <4>1. \A m \in s : m <= x
        BY <3>2, <3>4
      <4> QED BY <2>2, <2>3, <4>1
    <3> QED BY <3>2, <3>3, <3>4
  <2> QED BY <2>6, <2>7
<1>2. Cardinality(T) \in Nat
  BY FS_CardinalityType
<1> QED BY <1>1, <1>2

LEMMA MinIs ==
    ASSUME NEW T, T \subseteq Int, NEW n \in T, \A m \in T : n <= m
    PROVE  Min(T) = n
<1> DEFINE x == Min(T)
<1>1. x \in T /\ \A m \in T : x <= m
  BY DEF Min
<1> HIDE DEF x
<1>2. x \in Int /\ n \in Int /\ x <= n /\ n <= x
  BY <1>1
<1>3. x = n
  BY <1>2
<1> QED BY <1>3 DEF x

LEMMA MaxIs ==
    ASSUME NEW T, T \subseteq Int, NEW n \in T, \A m \in T : n >= m
    PROVE  Max(T) = n
<1> DEFINE x == Max(T)
<1>1. x \in T /\ \A m \in T : x >= m
  BY DEF Max
<1> HIDE DEF x
<1>2. x \in Int /\ n \in Int /\ x >= n /\ n >= x
  BY <1>1
<1>3. x = n
  BY <1>2
<1> QED BY <1>3 DEF x

LEMMA OfTwo ==
    ASSUME NEW a \in Int, NEW b \in Int
    PROVE  /\ Min({a, b}) = IF a <= b THEN a ELSE b
           /\ Max({a, b}) = IF a >= b THEN a ELSE b
<1> DEFINE T == {a, b}
<1>1. T \subseteq Int /\ a \in T /\ b \in T
  OBVIOUS
<1>2. CASE a <= b
  <2>1. Min(T) = a
    BY <1>1, <1>2, MinIs
  <2>2. Max(T) = b
    BY <1>1, <1>2, MaxIs
  <2> QED BY <1>2, <2>1, <2>2
<1>3. CASE b < a
  <2>1. Min(T) = b
    BY <1>1, <1>3, MinIs
  <2>2. Max(T) = a
    BY <1>1, <1>3, MaxIs
  <2> QED BY <1>3, <2>1, <2>2
<1> QED BY <1>2, <1>3

-----------------------------------------------------------------------------
\* A document whose messages hang together: one root, every other one under a
\* message that is there, and nothing under itself.
Solves(d, body) ==
    d = [m \in Present(body) |-> IF body[m].parent \in Present(body)
                                 THEN d[body[m].parent] + 1 ELSE 0]
Message == [parent : Ids \cup {NoMessage}, rev : Nat]
Body == [Ids -> Message \cup {NoMessage}]
WellFormed(body) ==
    /\ body \in Body /\ FirstId \in Present(body)
    /\ \A m \in Present(body) : IF m = FirstId THEN body[m].parent = NoMessage
                                ELSE body[m].parent \in Present(body)
    /\ \E d \in [Present(body) -> Nat] : Solves(d, body)

LEMMA OneSolution ==
    ASSUME NEW body, NEW d \in [Present(body) -> Nat], Solves(d, body), NEW e, Solves(e, body)
    PROVE  e = d
<1> DEFINE Wrong == {n \in Nat : \E m \in Present(body) : d[m] = n /\ e[m] # d[m]}
<1>1. Wrong = {}
  <2> SUFFICES ASSUME Wrong # {} PROVE FALSE
    OBVIOUS
  <2>1. PICK n \in Wrong : \A k \in Wrong : n <= k
    <3>1. Wrong \subseteq Nat
      OBVIOUS
    <3> HIDE DEF Wrong
    <3> QED BY <3>1, LeastNumber
  <2>2. PICK m \in Present(body) : d[m] = n /\ e[m] # d[m]
    BY <2>1
  <2> DEFINE p == body[m].parent
  <2>3. /\ d[m] = IF p \in Present(body) THEN d[p] + 1 ELSE 0
        /\ e[m] = IF p \in Present(body) THEN e[p] + 1 ELSE 0
    BY DEF Solves
  <2>4. p \in Present(body) /\ d[p] \in Nat /\ d[p] = n - 1 /\ n \in Nat
    BY <2>2, <2>3
  <2> HIDE DEF p
  <2>5. d[p] \notin Wrong
    BY <2>1, <2>4
  <2>6. e[p] = d[p]
    BY <2>4, <2>5
  <2> QED BY <2>2, <2>3, <2>4, <2>6
<1>2. \A m \in Present(body) : e[m] = d[m]
  BY <1>1
<1>3. DOMAIN e = Present(body) /\ e = [m \in Present(body) |-> e[m]]
  BY DEF Solves
<1> QED BY <1>2, <1>3

LEMMA DepthsAre ==
    ASSUME NEW body, NEW d \in [Present(body) -> Nat], Solves(d, body)
    PROVE  Depths(body) = d
<1> DEFINE e == Depths(body)
<1>1. e = CHOOSE g : g = [m \in Present(body) |->
                            IF body[m].parent \in Present(body)
                            THEN g[body[m].parent] + 1 ELSE 0]
  BY DEF Depths
<1>2. d = [m \in Present(body) |-> IF body[m].parent \in Present(body)
                                   THEN d[body[m].parent] + 1 ELSE 0]
  BY DEF Solves
<1> HIDE DEF e
<1>3. e = [m \in Present(body) |-> IF body[m].parent \in Present(body)
                                   THEN e[body[m].parent] + 1 ELSE 0]
  BY <1>1, <1>2
<1>4. Solves(e, body)
  BY <1>3 DEF Solves
<1>5. e = d
  BY <1>4, OneSolution
<1> QED BY <1>5 DEF e

LEMMA DepthsOf ==
    ASSUME NEW body, WellFormed(body)
    PROVE  Depths(body) \in [Present(body) -> Nat] /\ Solves(Depths(body), body)
BY DepthsAre DEF WellFormed

LEMMA PresentOnes ==
    ASSUME HistoryAssumption, NEW body \in Body
    PROVE  /\ Present(body) = {m \in Ids : body[m] # NoMessage}
           /\ Present(body) \subseteq Ids
           /\ \A m \in Present(body) : body[m] \in Message
           /\ \A m \in Ids : body[m] \in Message => m \in Present(body)
BY DEF HistoryAssumption, Present, Body, Message

\* A message is changed, or hung under another one.
LEMMA MessageWritten ==
    ASSUME HistoryAssumption, NEW body, WellFormed(body), NEW m \in Ids, NEW p,
           \/ m \in Present(body) /\ p = body[m].parent
           \/ m \notin Present(body) /\ p \in Present(body),
           NEW n \in Nat, NEW new, new = [body EXCEPT ![m] = [parent |-> p, rev |-> n]]
    PROVE  /\ WellFormed(new) /\ Present(new) = Present(body) \cup {m}
           /\ \A x \in Present(body) : Depths(new)[x] = Depths(body)[x]
           /\ \A x \in Present(body) : new[x].parent = body[x].parent
           /\ \A x \in Ids : x # m => new[x] = body[x]
           /\ new[m].parent = p /\ new[m].rev = n
<1> DEFINE msg == [parent |-> p, rev |-> n]
           d == Depths(body)
           e == [x \in Present(new) |-> IF x \in Present(body) THEN d[x] ELSE d[p] + 1]
<1>1. /\ body \in Body /\ FirstId \in Present(body)
      /\ d \in [Present(body) -> Nat] /\ Solves(d, body)
      /\ \A x \in Present(body) : IF x = FirstId THEN body[x].parent = NoMessage
                                  ELSE body[x].parent \in Present(body)
  BY DepthsOf DEF WellFormed
<1>2. p \in Ids \cup {NoMessage}
  BY <1>1, PresentOnes DEF Message
<1>3. msg \in Message /\ msg.parent = p /\ msg.rev = n /\ new = [body EXCEPT ![m] = msg]
  BY <1>2 DEF Message
<1> HIDE DEF msg
<1>4. new \in Body /\ new[m] = msg /\ \A x \in Ids : x # m => new[x] = body[x]
  BY <1>1, <1>3 DEF Body
<1>5. Present(new) = Present(body) \cup {m}
  <2>1. Present(body) = {x \in Ids : body[x] # NoMessage}
    BY <1>1, PresentOnes
  <2>2. Present(new) = {x \in Ids : new[x] # NoMessage} /\ m \in Present(new)
    BY <1>3, <1>4, PresentOnes
  <2> QED BY <1>4, <2>1, <2>2
<1>6. \A x \in Present(body) : new[x].parent = body[x].parent
  <2> TAKE x \in Present(body)
  <2>1. CASE x = m
    BY <1>3, <1>4, <2>1
  <2>2. CASE x # m
    BY <1>1, <1>4, <2>2, PresentOnes
  <2> QED BY <2>1, <2>2
<1>7. \A x \in Present(new) : IF x = FirstId THEN new[x].parent = NoMessage
                              ELSE new[x].parent \in Present(new)
  <2> TAKE x \in Present(new)
  <2>1. CASE x \in Present(body)
    BY <1>1, <1>5, <1>6, <2>1
  <2>2. CASE x \notin Present(body)
    BY <1>1, <1>3, <1>4, <1>5, <2>2
  <2> QED BY <2>1, <2>2
<1>8. e \in [Present(new) -> Nat]
  <2>1. m \notin Present(body) => d[p] \in Nat
    BY <1>1
  <2>2. \A x \in Present(body) : d[x] \in Nat
    BY <1>1
  <2> HIDE DEF d
  <2>3. ASSUME NEW x \in Present(new) PROVE e[x] \in Nat
    <3>1. CASE x \in Present(body)
      <4>1. e[x] = d[x]
        BY <3>1
      <4> QED BY <2>2, <3>1, <4>1
    <3>2. CASE x \notin Present(body)
      <4>1. e[x] = d[p] + 1 /\ m \notin Present(body)
        BY <1>5, <3>2
      <4> QED BY <2>1, <4>1
    <3> QED BY <3>1, <3>2
  <2> QED BY <2>3
<1>9. Solves(e, new)
  <2>1. ASSUME NEW x \in Present(new)
        PROVE  e[x] = IF new[x].parent \in Present(new) THEN e[new[x].parent] + 1 ELSE 0
    <3>1. CASE x \in Present(body)
      <4> DEFINE q == body[x].parent
      <4>1. new[x].parent = q /\ e[x] = d[x]
        BY <1>6, <3>1
      <4>2. d[x] = IF q \in Present(body) THEN d[q] + 1 ELSE 0
        BY <1>1, <3>1 DEF Solves
      <4>3. q \in Present(new) => q \in Present(body) /\ q \in Present(new)
        <5>1. CASE x = FirstId
          <6>1. q = NoMessage
            BY <1>1, <3>1, <5>1
          <6>2. q \notin Present(new)
            BY <1>4, <6>1, PresentOnes DEF HistoryAssumption
          <6> QED BY <6>2
        <5>2. CASE x # FirstId
          BY <1>1, <3>1, <5>2
        <5> QED BY <5>1, <5>2
      <4>4. q \in Present(body) => q \in Present(new)
        BY <1>5
      <4> HIDE DEF q, d
      <4> QED BY <4>1, <4>2, <4>3, <4>4
    <3>2. CASE x \notin Present(body)
      <4>1. new[x].parent = p /\ p \in Present(body) /\ p \in Present(new)
        BY <1>3, <1>4, <1>5, <3>2
      <4> QED BY <3>2, <4>1
    <3> QED BY <3>1, <3>2
  <2>2. e = [x \in Present(new) |-> e[x]]
    OBVIOUS
  <2> HIDE DEF e
  <2>3. e = [x \in Present(new) |-> IF new[x].parent \in Present(new)
                                    THEN e[new[x].parent] + 1 ELSE 0]
    BY <2>1, <2>2
  <2> QED BY <2>3 DEF Solves
<1>10. Depths(new) = e
  <2> HIDE DEF e
  <2> QED BY <1>8, <1>9, DepthsAre
<1>11. \A x \in Present(body) : Depths(new)[x] = d[x]
  BY <1>5, <1>10
<1>12. WellFormed(new)
  <2> HIDE DEF e
  <2> QED BY <1>1, <1>4, <1>5, <1>7, <1>8, <1>9 DEF WellFormed
<1> QED BY <1>3, <1>4, <1>5, <1>6, <1>11, <1>12

LEMMA LeafRemoved ==
    ASSUME HistoryAssumption, NEW body, WellFormed(body), NEW m \in Present(body), m # FirstId,
           \A o \in Present(body) : body[o].parent # m,
           NEW new, new = [body EXCEPT ![m] = NoMessage]
    PROVE  WellFormed(new) /\ body[m].parent \in Present(new)
<1> DEFINE d == Depths(body)
           e == [x \in Present(new) |-> d[x]]
<1>1. /\ body \in Body /\ FirstId \in Present(body)
      /\ d \in [Present(body) -> Nat] /\ Solves(d, body)
      /\ \A x \in Present(body) : IF x = FirstId THEN body[x].parent = NoMessage
                                  ELSE body[x].parent \in Present(body)
  BY DepthsOf DEF WellFormed
<1>2. /\ new \in Body /\ Present(new) = Present(body) \ {m}
      /\ \A x \in Present(new) : new[x] = body[x]
  <2>1. new \in Body /\ m \in Ids /\ new[m] = NoMessage /\ \A x \in Ids : x # m => new[x] = body[x]
    BY <1>1, PresentOnes DEF Body
  <2>2. Present(body) = {x \in Ids : body[x] # NoMessage}
    BY <1>1, PresentOnes
  <2>3. Present(new) = {x \in Ids : new[x] # NoMessage}
    BY <2>1, PresentOnes
  <2>4. Present(new) = Present(body) \ {m}
    BY <2>1, <2>2, <2>3
  <2> QED BY <2>1, <2>3, <2>4
<1>3. e \in [Present(new) -> Nat]
  <2> HIDE DEF d
  <2> QED BY <1>1, <1>2
<1>4. Solves(e, new)
  <2>1. ASSUME NEW x \in Present(new)
        PROVE  e[x] = IF new[x].parent \in Present(new) THEN e[new[x].parent] + 1 ELSE 0
    <3> DEFINE q == body[x].parent
    <3>1. x \in Present(body) /\ new[x].parent = q /\ e[x] = d[x] /\ q # m
      BY <1>2
    <3>2. d[x] = IF q \in Present(body) THEN d[q] + 1 ELSE 0
      BY <1>1, <3>1 DEF Solves
    <3>3. (q \in Present(body)) <=> (q \in Present(new))
      BY <1>2, <3>1
    <3> HIDE DEF q, d
    <3> QED BY <3>1, <3>2, <3>3
  <2>2. e = [x \in Present(new) |-> e[x]]
    OBVIOUS
  <2> HIDE DEF e
  <2>3. e = [x \in Present(new) |-> IF new[x].parent \in Present(new)
                                    THEN e[new[x].parent] + 1 ELSE 0]
    BY <2>1, <2>2
  <2> QED BY <2>3 DEF Solves
<1>5. FirstId \in Present(new) /\ body[m].parent \in Present(new)
  BY <1>1, <1>2
<1>6. \A x \in Present(new) : IF x = FirstId THEN new[x].parent = NoMessage
                              ELSE new[x].parent \in Present(new)
  BY <1>1, <1>2
<1> HIDE DEF e
<1> QED BY <1>2, <1>3, <1>4, <1>5, <1>6 DEF WellFormed

-----------------------------------------------------------------------------
\* What the index is made of.
IndexRow == [parent : Ids \cup {NoMessage}, rev : Nat, depth : Nat]
IndexState == [rows : [Ids -> IndexRow \cup {NoMessage}], stamp : Int, current : Ids,
               currentDepth : Nat, low : Nat, high : Nat, count : Nat]
Indexed(i) == {x \in Ids : i.rows[x] # NoMessage}

\* The depths that the pages go by fit together.
Spans(i) == i.low <= i.high /\ i.currentDepth <= i.high

\* Index i is what was written to chat c, but for messages that were added since
\* without it, the last of them the current one, and for the messages in `late'.
FollowsChat(i, c, late) ==
    /\ Indexed(i) \subseteq Present(c.body)
    /\ \A x \in Indexed(i) : /\ i.rows[x].parent = c.body[x].parent
                             /\ i.rows[x].depth = Depths(c.body)[x]
                             /\ i.rows[x].rev = c.body[x].rev \/ x \in late
                             /\ i.low <= i.rows[x].depth /\ i.rows[x].depth <= i.high
    /\ \E x \in Indexed(i) : i.rows[x].depth = i.low
    /\ \E x \in Indexed(i) : i.rows[x].depth = i.high
    /\ i.count = Cardinality(Indexed(i))
    /\ i.current \in Indexed(i) /\ i.currentDepth = i.rows[i.current].depth
    /\ \/ c.current \in late \/ c.current \notin Indexed(i)
       \/ Indexed(i) = Present(c.body) /\ i.current = c.current

LEMMA LaterStill ==
    ASSUME NEW i, NEW c, NEW less, NEW late, less \subseteq late, FollowsChat(i, c, less)
    PROVE  FollowsChat(i, c, late)
BY DEF FollowsChat

LEMMA IndexBuilt ==
    ASSUME HistoryAssumption, NEW c, WellFormed(c.body), c.current \in Present(c.body),
           NEW stamp \in Int
    PROVE  /\ IndexOf(c, stamp) \in IndexState /\ Spans(IndexOf(c, stamp))
           /\ IndexOf(c, stamp).stamp = stamp
           /\ FollowsChat(IndexOf(c, stamp), c, {})
<1> DEFINE i == IndexOf(c, stamp)
           P == Present(c.body)
           d == Depths(c.body)
           deep == {d[m] : m \in P}
           row(m) == [parent |-> c.body[m].parent, rev |-> c.body[m].rev, depth |-> d[m]]
           table == [m \in Ids |-> IF m \notin P THEN NoMessage ELSE row(m)]
<1>1. /\ P \subseteq Ids /\ d \in [P -> Nat] /\ \A m \in P : c.body[m] \in Message
      /\ FirstId \in P /\ IsFiniteSet(P) /\ Cardinality(P) \in Nat
  <2>1. c.body \in Body /\ FirstId \in P /\ IsFiniteSet(Ids)
    BY DEF WellFormed, HistoryAssumption
  <2>2. P \subseteq Ids /\ \A m \in P : c.body[m] \in Message
    BY <2>1, PresentOnes
  <2> QED BY <2>1, <2>2, DepthsOf, FS_Subset, FS_CardinalityType
<1>2. i = [rows |-> table, stamp |-> stamp, current |-> c.current,
           currentDepth |-> d[c.current], low |-> Min(deep), high |-> Max(deep),
           count |-> Cardinality(P)]
  BY DEF IndexOf
<1>3. \A m \in P : d[m] \in Nat /\ d[m] \in deep
  BY <1>1
<1>4. ASSUME NEW m \in P
      PROVE  /\ row(m) \in IndexRow /\ row(m).parent = c.body[m].parent
             /\ row(m).rev = c.body[m].rev /\ row(m).depth = d[m] /\ row(m) # NoMessage
  <2>1. c.body[m] \in Message /\ d[m] \in Nat
    BY <1>1, <1>3
  <2> HIDE DEF d
  <2>2. /\ row(m) \in IndexRow /\ row(m).parent = c.body[m].parent
        /\ row(m).rev = c.body[m].rev /\ row(m).depth = d[m]
    BY <2>1 DEF Message, IndexRow
  <2>3. NoMessage \notin IndexRow
    BY DEF HistoryAssumption, IndexRow
  <2> QED BY <2>2, <2>3
<1>5. deep \subseteq Nat /\ deep # {} /\ IsFiniteSet(deep)
  <2>1. deep \subseteq Nat /\ deep # {}
    BY <1>1, <1>3
  <2>2. IsFiniteSet(deep)
    <3>1. d \in Surjection(P, deep)
      BY <1>1 DEF Surjection
    <3> HIDE DEF d, P, deep
    <3> QED BY <1>1, <3>1, FS_Surjection
  <2> QED BY <2>1, <2>2
<1>6. PICK low \in deep : \A n \in deep : low <= n
  <2> HIDE DEF deep
  <2> QED BY <1>5, LeastNumber
<1>7. PICK high \in deep : \A n \in deep : n <= high
  <2> HIDE DEF deep
  <2> QED BY <1>5, GreatestNumber
<1>8. low \in Nat /\ high \in Nat /\ Min(deep) = low /\ Max(deep) = high
  <2> HIDE DEF deep
  <2>1. deep \subseteq Int /\ \A n \in deep : high >= n
    BY <1>5, <1>7
  <2> QED BY <1>5, <1>6, <2>1, MinIs, MaxIs
<1> HIDE DEF i, row
<1>9. /\ i.rows = table /\ i.stamp = stamp /\ i.current = c.current
      /\ i.currentDepth = d[c.current] /\ i.low = low /\ i.high = high
      /\ i.count = Cardinality(P)
  BY <1>2, <1>8
<1>10. table \in [Ids -> IndexRow \cup {NoMessage}]
  BY <1>4
<1>11. Indexed(i) = P /\ \A x \in P : table[x] = row(x)
  <2>1. \A x \in Ids : table[x] # NoMessage <=> x \in P
    BY <1>4
  <2> HIDE DEF table, P
  <2>2. Indexed(i) = P
    BY <1>1, <1>9, <2>1 DEF Indexed
  <2> QED BY <1>1, <2>2 DEF table
<1>12. i \in IndexState
  <2>1. c.current \in Ids /\ d[c.current] \in Nat
    BY <1>1
  <2> HIDE DEF table, P, d
  <2> QED BY <1>1, <1>2, <1>8, <1>10, <2>1 DEF IndexState
<1>13. Spans(i)
  <2>1. low <= high /\ d[c.current] <= high
    BY <1>3, <1>6, <1>7
  <2> HIDE DEF d
  <2> QED BY <1>9, <2>1 DEF Spans
<1>14. FollowsChat(i, c, {})
  <2>1. \A x \in P : /\ i.rows[x].parent = c.body[x].parent /\ i.rows[x].depth = d[x]
                     /\ i.rows[x].rev = c.body[x].rev
                     /\ low <= d[x] /\ d[x] <= high
    <3> TAKE x \in P
    <3>1. i.rows[x] = row(x)
      BY <1>9, <1>11
    <3>2. low <= d[x] /\ d[x] <= high
      BY <1>3, <1>6, <1>7
    <3> HIDE DEF d, table
    <3> QED BY <1>4, <3>1, <3>2
  <2>2. (\E x \in P : d[x] = low) /\ \E x \in P : d[x] = high
    BY <1>6, <1>7
  <2> HIDE DEF table
  <2> QED BY <1>9, <1>11, <2>1, <2>2 DEF FollowsChat
<1> QED BY <1>9, <1>12, <1>13, <1>14 DEF i

LEMMA SameChat ==
    ASSUME NEW i, NEW c, NEW late, FollowsChat(i, c, late), NEW same,
           same.body = c.body, same.current = c.current
    PROVE  FollowsChat(i, same, late)
BY DEF FollowsChat

\* An index that follows the chat and knows its current message is exact.
LEMMA ExactWhenCurrent ==
    ASSUME HistoryAssumption, NEW c, WellFormed(c.body), c.current \in Present(c.body),
           NEW i \in IndexState, FollowsChat(i, c, {}), i.current = c.current
    PROVE  i = IndexOf(c, i.stamp)
<1> DEFINE P == Present(c.body)
           d == Depths(c.body)
           deep == {d[m] : m \in P}
           row(m) == [parent |-> c.body[m].parent, rev |-> c.body[m].rev, depth |-> d[m]]
           table == [m \in Ids |-> IF m \notin P THEN NoMessage ELSE row(m)]
<1>1. P \subseteq Ids /\ d \in [P -> Nat]
  <2>1. c.body \in Body
    BY DEF WellFormed
  <2> QED BY <2>1, PresentOnes, DepthsOf
<1>2. /\ Indexed(i) = P /\ i.count = Cardinality(P) /\ i.currentDepth = d[c.current]
      /\ \A x \in P : /\ i.rows[x].parent = c.body[x].parent /\ i.rows[x].depth = d[x]
                      /\ i.rows[x].rev = c.body[x].rev
                      /\ i.low <= d[x] /\ d[x] <= i.high
      /\ \E x \in P : d[x] = i.low
      /\ \E x \in P : d[x] = i.high
  BY DEF FollowsChat
<1>3. i.rows = table
  <2>1. i.rows \in [Ids -> IndexRow \cup {NoMessage}]
    BY DEF IndexState
  <2>2. ASSUME NEW x \in Ids PROVE i.rows[x] = table[x]
    <3>1. CASE x \notin P
      BY <1>2, <3>1 DEF Indexed
    <3>2. CASE x \in P
      <4>1. i.rows[x] \in IndexRow
        BY <1>2, <2>1, <3>2 DEF Indexed
      <4>2. i.rows[x] = [parent |-> i.rows[x].parent, rev |-> i.rows[x].rev,
                         depth |-> i.rows[x].depth]
        BY <4>1 DEF IndexRow
      <4> HIDE DEF P, d
      <4> QED BY <1>2, <3>2, <4>2
    <3> QED BY <3>1, <3>2
  <2>3. table = [x \in Ids |-> table[x]] /\ i.rows = [x \in Ids |-> i.rows[x]]
    BY <2>1
  <2> HIDE DEF table
  <2> QED BY <2>2, <2>3
<1>4. deep \subseteq Nat /\ i.low \in deep /\ i.high \in deep
      /\ \A n \in deep : i.low <= n /\ n <= i.high
  BY <1>1, <1>2
<1>5. Min(deep) = i.low /\ Max(deep) = i.high
  <2> HIDE DEF deep
  <2>1. deep \subseteq Int /\ \A n \in deep : i.high >= n
    BY <1>4
  <2> QED BY <1>4, <2>1, MinIs, MaxIs
<1>6. IndexOf(c, i.stamp) = [rows |-> table, stamp |-> i.stamp, current |-> c.current,
           currentDepth |-> d[c.current], low |-> Min(deep), high |-> Max(deep),
           count |-> Cardinality(P)]
  BY DEF IndexOf
<1>7. i = [rows |-> i.rows, stamp |-> i.stamp, current |-> i.current,
           currentDepth |-> i.currentDepth, low |-> i.low, high |-> i.high, count |-> i.count]
  BY DEF IndexState
<1> HIDE DEF table, deep, d, P
<1> QED BY <1>2, <1>3, <1>5, <1>6, <1>7

\* What sync_indexed_chat_message writes in place.
LEMMA MessagePut ==
    ASSUME HistoryAssumption, index \in IndexState, Spans(index), NEW c, WellFormed(c.body),
           c.current \in Present(c.body), c.updated \in Int, NEW m \in Present(c.body),
           RowFits(m, c.body[m].parent)
    PROVE  /\ PutMessage(m, c) \in IndexState /\ Spans(PutMessage(m, c))
           /\ PutMessage(m, c).stamp = c.updated
           /\ FollowsChat(index, c, {m}) /\ CountsAgree(c, index.rows[m] = NoMessage)
                 => FollowsChat(PutMessage(m, c), c, {})
<1> DEFINE p == c.body[m].parent
           n == c.body[m].rev
           P == Present(c.body)
           depth == IF index.rows[m] # NoMessage THEN index.rows[m].depth
                    ELSE IF p = NoMessage THEN 0 ELSE index.rows[p].depth + 1
           row == [parent |-> p, rev |-> n, depth |-> depth]
           table == [index.rows EXCEPT ![m] = row]
           i == PutMessage(m, c)
<1>1. /\ m \in Ids /\ c.current \in Ids /\ P \subseteq Ids /\ p \in Ids \cup {NoMessage} /\ n \in Nat
      /\ IsFiniteSet(P) /\ Cardinality(P) \in Nat
      /\ p # NoMessage => p \in P
  <2>1. c.body \in Body /\ IsFiniteSet(Ids)
    BY DEF WellFormed, HistoryAssumption
  <2>2. P \subseteq Ids /\ c.body[m] \in Message
    BY <2>1, PresentOnes
  <2>3. p # NoMessage => p \in P
    BY DEF WellFormed
  <2> QED BY <2>1, <2>2, <2>3, FS_Subset, FS_CardinalityType DEF Message
<1>2. /\ index.rows \in [Ids -> IndexRow \cup {NoMessage}] /\ index.currentDepth \in Nat
      /\ index.low \in Nat /\ index.high \in Nat /\ index.low <= index.high
      /\ index.currentDepth <= index.high
  BY DEF IndexState, Spans
<1>3. depth \in Nat
  <2>1. CASE index.rows[m] # NoMessage
    BY <1>1, <1>2, <2>1 DEF IndexRow
  <2>2. CASE index.rows[m] = NoMessage /\ p # NoMessage
    <3>1. index.rows[p] # NoMessage /\ p \in Ids
      BY <1>1, <2>2 DEF RowFits
    <3> QED BY <1>2, <2>2, <3>1 DEF IndexRow
  <2>3. CASE index.rows[m] = NoMessage /\ p = NoMessage
    BY <2>3
  <2> QED BY <2>1, <2>2, <2>3
<1>4. i = [rows |-> table, stamp |-> c.updated, current |-> c.current,
           currentDepth |-> IF c.current = m THEN depth ELSE index.currentDepth,
           low |-> Min({index.low, depth}), high |-> Max({index.high, depth}),
           count |-> Cardinality(P)]
  BY DEF PutMessage
<1> DEFINE low == IF index.low <= depth THEN index.low ELSE depth
           high == IF index.high >= depth THEN index.high ELSE depth
           reached == IF c.current = m THEN depth ELSE index.currentDepth
<1> HIDE DEF depth
<1>5. Min({index.low, depth}) = low /\ Max({index.high, depth}) = high
  <2>1. index.low \in Int /\ index.high \in Int /\ depth \in Int
    BY <1>2, <1>3
  <2>2. Min({index.low, depth}) = low
    BY <2>1, OfTwo, Zenon
  <2>3. Max({index.high, depth}) = high
    BY <2>1, OfTwo, Zenon
  <2> QED BY <2>2, <2>3
<1>6. /\ row \in IndexRow /\ row.parent = p /\ row.rev = n /\ row.depth = depth
      /\ row # NoMessage
  <2> HIDE DEF p, n
  <2>1. row \in IndexRow /\ row.parent = p /\ row.rev = n /\ row.depth = depth
    BY <1>1, <1>3 DEF IndexRow
  <2>2. NoMessage \notin IndexRow
    BY DEF HistoryAssumption, IndexRow
  <2> QED BY <2>1, <2>2
<1> HIDE DEF row
<1>7. /\ table \in [Ids -> IndexRow \cup {NoMessage}]
      /\ table[m] = row /\ \A x \in Ids : x # m => table[x] = index.rows[x]
  BY <1>1, <1>2, <1>6
<1> HIDE DEF table
<1>8. /\ low \in Nat /\ high \in Nat /\ low <= high /\ low <= index.low /\ low <= depth
      /\ index.high <= high /\ depth <= high /\ reached \in Nat /\ reached <= high
      /\ low \in {index.low, depth} /\ high \in {index.high, depth}
  BY <1>2, <1>3
<1>9. i = [rows |-> table, stamp |-> c.updated, current |-> c.current,
           currentDepth |-> reached, low |-> low, high |-> high, count |-> Cardinality(P)]
  BY <1>4, <1>5
<1> HIDE DEF low, high, reached
<1>10. /\ i.rows = table /\ i.stamp = c.updated /\ i.current = c.current
       /\ i.currentDepth = reached /\ i.low = low /\ i.high = high /\ i.count = Cardinality(P)
  <2> HIDE DEF i, P
  <2> QED BY <1>9
<1>11. i \in IndexState
  <2> HIDE DEF i, P
  <2> QED BY <1>1, <1>7, <1>8, <1>9 DEF IndexState
<1>12. Spans(i)
  <2> HIDE DEF i, P
  <2> QED BY <1>8, <1>10 DEF Spans
<1>13. ASSUME FollowsChat(index, c, {m}), CountsAgree(c, index.rows[m] = NoMessage)
       PROVE  FollowsChat(i, c, {})
  <2> DEFINE d == Depths(c.body)
             before == Indexed(index)
  <2> HIDE DEF i
  <2>1. /\ before \subseteq P
        /\ \A x \in before : /\ index.rows[x].parent = c.body[x].parent
                             /\ index.rows[x].depth = d[x]
                             /\ index.rows[x].rev = c.body[x].rev \/ x = m
                             /\ index.low <= index.rows[x].depth
                             /\ index.rows[x].depth <= index.high
        /\ \E x \in before : index.rows[x].depth = index.low
        /\ \E x \in before : index.rows[x].depth = index.high
        /\ index.count = Cardinality(before)
        /\ index.current \in before /\ index.currentDepth = index.rows[index.current].depth
        /\ \/ c.current = m \/ c.current \notin before
           \/ before = P /\ index.current = c.current
    BY <1>13 DEF FollowsChat
  <2>2. (m \in before) <=> (index.rows[m] # NoMessage)
    BY <1>1 DEF Indexed
  <2>3. d \in [P -> Nat] /\ d[m] = IF p \in P THEN d[p] + 1 ELSE 0
    BY DepthsOf DEF Solves
  <2>4. depth = d[m]
    <3>1. CASE m \in before
      BY <2>1, <2>2, <3>1 DEF depth
    <3>2. CASE m \notin before /\ p # NoMessage
      <4>1. p \in P /\ p \in Ids /\ p \in before
        BY <1>1, <2>2, <3>2 DEF RowFits, Indexed
      <4>2. depth = index.rows[p].depth + 1
        BY <2>2, <3>2 DEF depth
      <4> QED BY <2>1, <2>3, <4>1, <4>2
    <3>3. CASE m \notin before /\ p = NoMessage
      <4>1. p \notin P
        BY <1>1, <3>3 DEF HistoryAssumption
      <4>2. depth = 0
        BY <2>2, <3>3 DEF depth
      <4> QED BY <2>3, <4>1, <4>2
    <3> QED BY <3>1, <3>2, <3>3
  <2>5. before \cup {m} = P
    <3>1. IsFiniteSet(before) /\ Cardinality(before) \in Nat
      BY <1>1, <2>1, FS_Subset, FS_CardinalityType
    <3>2. Cardinality(before) = Cardinality(P) - (IF m \notin before THEN 1 ELSE 0)
      <4>1. index.count = Cardinality(P) - (IF index.rows[m] = NoMessage THEN 1 ELSE 0)
        BY <1>13 DEF CountsAgree
      <4>2. CASE m \in before
        BY <2>1, <2>2, <4>1, <4>2
      <4>3. CASE m \notin before
        BY <2>1, <2>2, <4>1, <4>3
      <4> QED BY <4>2, <4>3
    <3>3. /\ IsFiniteSet(before \cup {m})
          /\ Cardinality(before \cup {m}) = IF m \in before THEN Cardinality(before)
                                            ELSE Cardinality(before) + 1
      BY <3>1, FS_AddElement
    <3>4. Cardinality(before \cup {m}) = Cardinality(P)
      <4> DEFINE a == Cardinality(before)
                 b == Cardinality(P)
                 e == Cardinality(before \cup {m})
      <4>1. a \in Nat /\ b \in Nat /\ a = b - (IF m \notin before THEN 1 ELSE 0)
            /\ e = IF m \in before THEN a ELSE a + 1
        BY <1>1, <3>1, <3>2, <3>3
      <4> HIDE DEF a, b, e, before
      <4>2. e = b
        BY <4>1
      <4> QED BY <4>2 DEF a, b, e, before
    <3>5. before \cup {m} \subseteq P
      BY <2>1
    <3> QED BY <1>1, <3>4, <3>5, FS_Subset
  <2>6. Indexed(i) = P
    <3>1. \A x \in Ids : table[x] # NoMessage <=> x \in before \cup {m}
      BY <1>6, <1>7 DEF Indexed
    <3> QED BY <1>1, <1>10, <2>5, <3>1 DEF Indexed
  <2>7. \A x \in P : /\ table[x].parent = c.body[x].parent /\ table[x].depth = d[x]
                     /\ table[x].rev = c.body[x].rev /\ low <= d[x] /\ d[x] <= high
    <3> TAKE x \in P
    <3>1. CASE x = m
      BY <1>6, <1>7, <1>8, <2>4, <3>1
    <3>2. CASE x # m
      <4>1. x \in before /\ x \in Ids /\ table[x] = index.rows[x] /\ d[x] \in Nat
        BY <1>1, <1>7, <2>3, <2>5, <3>2
      <4>2. index.low <= d[x] /\ d[x] <= index.high /\ index.rows[x].depth = d[x]
            /\ index.rows[x].parent = c.body[x].parent /\ index.rows[x].rev = c.body[x].rev
        BY <2>1, <3>2, <4>1
      <4> HIDE DEF d, P, before
      <4> QED BY <1>2, <1>8, <4>1, <4>2
    <3> QED BY <3>1, <3>2
  <2>8. (\E x \in P : d[x] = low) /\ \E x \in P : d[x] = high
    <3>1. d[m] = depth /\ m \in P
      BY <2>4
    <3>2. (\E x \in P : d[x] = index.low) /\ \E x \in P : d[x] = index.high
      BY <2>1
    <3> QED BY <1>8, <3>1, <3>2
  <2>9. c.current \in P => reached = d[c.current]
    <3>1. CASE c.current = m
      BY <2>4, <3>1 DEF reached
    <3>2. CASE c.current # m /\ c.current \in P
      <4>1. c.current \in before
        BY <2>5, <3>2
      <4>2. index.current = c.current
        BY <2>1, <3>2, <4>1
      <4> QED BY <2>1, <3>2, <4>1, <4>2 DEF reached
    <3> QED BY <3>1, <3>2
  <2>10. Indexed(i) # {} /\ c.current \in P
    BY <2>6
  <2> HIDE DEF d, P
  <2> QED BY <1>10, <2>6, <2>7, <2>8, <2>9, <2>10 DEF FollowsChat, P, d
<1> QED BY <1>10, <1>11, <1>12, <1>13

\* A write that adds one message or changes one: the index that followed the chat
\* lacks no more than that.
StillFollows(i, c, new, m) ==
    /\ FollowsChat(i, new, {m})
    /\ m \notin Present(c.body) => FollowsChat(i, new, {})

LEMMA AfterWrite ==
    ASSUME HistoryAssumption, NEW c, WellFormed(c.body), NEW i \in IndexState,
           FollowsChat(i, c, {}), NEW m \in Ids, NEW p,
           \/ m \in Present(c.body) /\ p = c.body[m].parent
           \/ m \notin Present(c.body) /\ p \in Present(c.body),
           NEW n \in Nat, NEW new,
           new.body = [c.body EXCEPT ![m] = [parent |-> p, rev |-> n]],
           new.current = m \/ (new.current = c.current /\ m \in Present(c.body))
    PROVE  StillFollows(i, c, new, m)
<1>1. /\ Present(new.body) = Present(c.body) \cup {m}
      /\ \A x \in Present(c.body) : /\ Depths(new.body)[x] = Depths(c.body)[x]
                                    /\ new.body[x].parent = c.body[x].parent
      /\ \A x \in Ids : x # m => new.body[x] = c.body[x]
  BY MessageWritten
<1>2. Indexed(i) \subseteq Present(c.body) /\ Indexed(i) \subseteq Ids
  BY DEF FollowsChat, Indexed
<1>3. FollowsChat(i, new, {m})
  <2>1. \A x \in Indexed(i) : /\ i.rows[x].parent = new.body[x].parent
                              /\ i.rows[x].depth = Depths(new.body)[x]
                              /\ i.rows[x].rev = new.body[x].rev \/ x \in {m}
    BY <1>1, <1>2 DEF FollowsChat
  <2>2. \/ new.current \in {m} \/ new.current \notin Indexed(i)
        \/ Indexed(i) = Present(new.body) /\ i.current = new.current
    <3>1. c.current \notin Indexed(i) \/ (Indexed(i) = Present(c.body) /\ i.current = c.current)
      BY DEF FollowsChat
    <3>2. CASE new.current = m
      BY <3>2
    <3>3. CASE new.current = c.current /\ m \in Present(c.body)
      <4>1. Present(new.body) = Present(c.body)
        BY <1>1, <3>3
      <4> QED BY <3>1, <3>3, <4>1
    <3> QED BY <3>2, <3>3
  <2>3. Indexed(i) \subseteq Present(new.body)
    BY <1>1, <1>2
  <2> QED BY <2>1, <2>2, <2>3 DEF FollowsChat
<1>4. ASSUME m \notin Present(c.body) PROVE FollowsChat(i, new, {})
  <2>1. m \notin Indexed(i) /\ new.current = m
    BY <1>2, <1>4
  <2>2. \A x \in Indexed(i) : i.rows[x].rev = new.body[x].rev
    BY <1>3, <2>1 DEF FollowsChat
  <2> QED BY <1>3, <2>1, <2>2 DEF FollowsChat
<1> QED BY <1>3, <1>4 DEF StillFollows

-----------------------------------------------------------------------------
ChatRow == [body : Body, current : Ids, updated : Nat, writes : Nat]
ClientRow == [at : HistorySteps, id : Ids, copy : ChatRow]
RowOK(c) == WellFormed(c.body) /\ c.current \in Present(c.body)

ChatOK == chat \in ChatRow /\ RowOK(chat) /\ chat.updated \in 1..second /\ chat.writes \in 0..MaxWrites
IndexOK == index \in IndexState /\ Spans(index) /\ index.stamp \in {Stale, Unbuilt} \cup 1..second
ClientsOK == client \in [Clients -> ClientRow] /\ second \in 1..MaxSecond /\ overtaken \in BOOLEAN

\* A copy as new as the chat is the chat.
CopyOK(w) ==
    /\ client[w].copy.updated \in 1..second
    /\ client[w].at \in {"message", "whole", "rebuilding"} =>
          /\ RowOK(client[w].copy) /\ client[w].copy.writes <= chat.writes
          /\ client[w].copy.writes = chat.writes =>
                client[w].copy.body = chat.body /\ client[w].copy.current = chat.current
    /\ client[w].at = "message" => client[w].id \in Present(client[w].copy.body)

\* One request has made the last write.
OneIsLast == \A v, w \in Clients :
    client[v].at = "message" /\ client[w].at = "message"
      /\ client[v].copy.writes = chat.writes /\ client[w].copy.writes = chat.writes => v = w

\* What is under way that will be taken for overtaken, or mark the index stale,
\* or rebuild it.
Excused == \E w \in Clients : \/ client[w].at \in {"whole", "invalidate"}
                              \/ client[w].at = "message" /\ client[w].copy.writes # chat.writes
Syncing == {w \in Clients : client[w].at = "message"}
SyncedIds == {client[w].id : w \in Syncing}

IndexFollows ==
    ~overtaken /\ index.stamp >= 0 /\ ~Excused => FollowsChat(index, chat, SyncedIds)

HistoryInv ==
    /\ ChatOK /\ IndexOK /\ ClientsOK /\ (\A w \in Clients : CopyOK(w))
    /\ OneIsLast /\ IndexFollows

LEMMA NewChats ==
    ASSUME HistoryAssumption, NEW answers \in SUBSET (Ids \ {FirstId})
    PROVE  /\ ChatOf(answers) \in ChatRow /\ RowOK(ChatOf(answers))
           /\ ChatOf(answers).updated = 1 /\ ChatOf(answers).writes = 0
           /\ NewChat \in ChatRow /\ NewChat.updated = 1
<1> DEFINE first == [parent |-> NoMessage, rev |-> 0]
           other == [parent |-> FirstId, rev |-> 0]
           bodyOf(set) == [m \in Ids |-> IF m = FirstId THEN first
                                         ELSE IF m \in set THEN other ELSE NoMessage]
<1>1. /\ first \in Message /\ first.parent = NoMessage /\ other \in Message
      /\ other.parent = FirstId /\ FirstId \in Ids /\ NoMessage \notin Message
  BY DEF Message, HistoryAssumption
<1> HIDE DEF first, other
<1>2. ASSUME NEW set \in SUBSET (Ids \ {FirstId})
      PROVE  bodyOf(set) \in Body /\ WellFormed(bodyOf(set)) /\ FirstId \in Present(bodyOf(set))
  <2> DEFINE b == bodyOf(set)
             d == [m \in Present(b) |-> IF m = FirstId THEN 0 ELSE 1]
  <2>1. b \in Body
    BY <1>1 DEF Body
  <2>2. /\ \A m \in Ids : b[m] = IF m = FirstId THEN first
                                 ELSE IF m \in set THEN other ELSE NoMessage
        /\ set \subseteq Ids
    OBVIOUS
  <2> HIDE DEF b
  <2>3. /\ Present(b) = set \cup {FirstId} /\ b[FirstId].parent = NoMessage
        /\ \A m \in Present(b) : m # FirstId => b[m].parent = FirstId
    <3>1. \A m \in Ids : m \in Present(b) <=> m \in set \cup {FirstId}
      BY <1>1, <2>1, <2>2, PresentOnes
    <3>2. Present(b) \subseteq Ids
      BY <2>1, PresentOnes
    <3>3. Present(b) = set \cup {FirstId}
      BY <1>1, <2>2, <3>1, <3>2
    <3> QED BY <1>1, <2>2, <3>3
  <2>4. Solves(d, b)
    <3>1. NoMessage \notin Present(b)
      BY <2>1, PresentOnes DEF HistoryAssumption
    <3>2. ASSUME NEW m \in Present(b)
          PROVE  d[m] = IF b[m].parent \in Present(b) THEN d[b[m].parent] + 1 ELSE 0
      <4>1. CASE m = FirstId
        BY <2>3, <3>1, <4>1
      <4>2. CASE m # FirstId
        BY <2>3, <4>2
      <4> QED BY <4>1, <4>2
    <3>3. d = [m \in Present(b) |-> d[m]]
      OBVIOUS
    <3> HIDE DEF d
    <3>4. d = [m \in Present(b) |-> IF b[m].parent \in Present(b)
                                    THEN d[b[m].parent] + 1 ELSE 0]
      BY <3>2, <3>3
    <3> QED BY <3>4 DEF Solves
  <2>5. d \in [Present(b) -> Nat]
    OBVIOUS
  <2> HIDE DEF d
  <2>6. WellFormed(b)
    BY <2>1, <2>3, <2>4, <2>5 DEF WellFormed
  <2> QED BY <2>1, <2>3, <2>6 DEF b
<1>3. ASSUME NEW set \in SUBSET (Ids \ {FirstId})
      PROVE  ChatOf(set) = [body |-> bodyOf(set), current |-> FirstId, updated |-> 1,
                            writes |-> 0]
  BY DEF ChatOf, first, other
<1>4. ASSUME NEW set \in SUBSET (Ids \ {FirstId})
      PROVE  /\ ChatOf(set) \in ChatRow /\ RowOK(ChatOf(set))
             /\ ChatOf(set).updated = 1 /\ ChatOf(set).writes = 0
  <2>1. bodyOf(set) \in Body /\ WellFormed(bodyOf(set)) /\ FirstId \in Present(bodyOf(set))
    BY <1>2
  <2> HIDE DEF bodyOf
  <2> QED BY <1>1, <1>3, <2>1 DEF ChatRow, RowOK
<1>5. {} \in SUBSET (Ids \ {FirstId})
  OBVIOUS
<1> QED BY <1>4, <1>5 DEF NewChat

LEMMA HistoryStart == ASSUME HistoryAssumption, HistoryInit PROVE HistoryInv
<1>1. PICK answers \in SUBSET (Ids \ {FirstId}) :
         chat = ChatOf(answers) /\ index \in {EmptyIndex, IndexOf(chat, 1)}
  BY DEF HistoryInit
<1>2. /\ second = 1 /\ overtaken = FALSE /\ client = [w \in Clients |-> NoClient]
      /\ MaxSecond \in Nat \ {0} /\ MaxWrites \in Nat /\ FirstId \in Ids
  BY DEF HistoryInit, HistoryAssumption
<1>3. ChatOK
  <2>1. chat \in ChatRow /\ RowOK(chat) /\ chat.updated = 1 /\ chat.writes = 0
    BY <1>1, NewChats
  <2> QED BY <1>2, <2>1 DEF ChatOK
<1>4. NewChat \in ChatRow /\ NewChat.updated = 1
  BY <1>1, NewChats
<1>5. /\ ClientsOK
      /\ \A w \in Clients : /\ client[w].at = "idle" /\ client[w].copy.updated = 1
  <2>1. NoClient \in ClientRow /\ NoClient.at = "idle" /\ NoClient.copy.updated = 1
    BY <1>2, <1>4 DEF NoClient, ClientRow, HistorySteps
  <2> HIDE DEF NoClient
  <2>2. client \in [Clients -> ClientRow] /\ \A w \in Clients : client[w] = NoClient
    BY <1>2, <2>1
  <2>3. second \in 1..MaxSecond
    BY <1>2
  <2>4. overtaken \in BOOLEAN
    BY <1>2, Zenon
  <2> QED BY <2>1, <2>2, <2>3, <2>4 DEF ClientsOK
<1>6. (\A w \in Clients : CopyOK(w)) /\ OneIsLast /\ Syncing = {}
  BY <1>2, <1>5 DEF CopyOK, OneIsLast, Syncing
<1>7. CASE index = EmptyIndex
  <2>1. IndexOK
    BY <1>2, <1>7 DEF IndexOK, EmptyIndex, IndexState, Spans, Stale, Unbuilt
  <2>2. IndexFollows
    BY <1>7 DEF IndexFollows, EmptyIndex, Unbuilt
  <2> QED BY <1>3, <1>5, <1>6, <2>1, <2>2 DEF HistoryInv
<1>8. CASE index = IndexOf(chat, 1)
  <2>1. /\ index \in IndexState /\ Spans(index) /\ index.stamp = 1 /\ FollowsChat(index, chat, {})
    BY <1>3, <1>8, IndexBuilt DEF ChatOK, RowOK
  <2>2. IndexOK
    BY <1>2, <2>1 DEF IndexOK
  <2>3. IndexFollows
    BY <2>1, LaterStill DEF IndexFollows
  <2> QED BY <1>3, <1>5, <1>6, <2>2, <2>3 DEF HistoryInv
<1> QED BY <1>1, <1>7, <1>8

\* A request writes the chat.
LEMMA CommitStep ==
    ASSUME HistoryAssumption, HistoryInv, NEW w \in Clients, NEW step \in HistorySteps,
           step \in {"message", "whole", "invalidate", "idle"}, NEW m \in Ids,
           NEW c \in ChatRow, RowOK(c), c.updated \in 1..second, c.writes = chat.writes + 1,
           step = "message" => m \in Present(c.body),
           index.stamp >= 0 /\ FollowsChat(index, chat, {}) =>
               /\ step = "message" => FollowsChat(index, c, {m})
               /\ step = "idle" => FollowsChat(index, c, {}),
           CommitChat(w, step, m, c)
    PROVE  HistoryInv'
<1>1. /\ ChatOK /\ IndexOK /\ ClientsOK /\ (\A v \in Clients : CopyOK(v))
      /\ OneIsLast /\ IndexFollows
      /\ chat.writes \in Nat /\ chat.writes + 1 \in 0..MaxWrites /\ MaxWrites \in Nat
  <2>1. chat.writes \in 0..MaxWrites /\ chat.writes < MaxWrites /\ MaxWrites \in Nat
    BY DEF HistoryInv, ChatOK, CommitChat, HistoryAssumption
  <2> QED BY <2>1 DEF HistoryInv
<1>2. /\ client[w].at = "idle" /\ chat' = c
      /\ index' = index /\ second' = second /\ overtaken' = overtaken
      /\ client' = [client EXCEPT ![w] = IF step = "idle" THEN NoClient
                                         ELSE [at |-> step, id |-> m, copy |-> c]]
  BY DEF CommitChat, Is, Answer, Carry
<1> DEFINE new == IF step = "idle" THEN NoClient ELSE [at |-> step, id |-> m, copy |-> c]
<1>3. /\ new \in ClientRow /\ new.at = step
      /\ step # "idle" => new.id = m /\ new.copy = c
      /\ new.copy.updated \in 1..second
  <2>1. NewChat \in ChatRow /\ NewChat.updated = 1 /\ FirstId \in Ids
    BY NewChats DEF HistoryAssumption
  <2>2. NoClient \in ClientRow /\ NoClient.at = "idle" /\ NoClient.copy = NewChat
    BY <2>1 DEF NoClient, ClientRow, HistorySteps
  <2>3. 1 \in 1..second
    BY <1>1 DEF ClientsOK, HistoryAssumption
  <2>4. CASE step = "idle"
    BY <2>1, <2>2, <2>3, <2>4
  <2>5. CASE step # "idle"
    BY <2>5 DEF ClientRow
  <2> QED BY <2>4, <2>5
<1> HIDE DEF new
<1>4. /\ client' \in [Clients -> ClientRow] /\ client'[w] = new
      /\ \A v \in Clients : v # w => client'[v] = client[v]
  <2>1. client \in [Clients -> ClientRow]
    BY <1>1 DEF ClientsOK
  <2>2. client' = [client EXCEPT ![w] = new]
    BY <1>2 DEF new
  <2> QED BY <1>3, <2>1, <2>2
<1>5. ChatOK' /\ IndexOK' /\ ClientsOK'
  BY <1>1, <1>2, <1>4 DEF ChatOK, IndexOK, ClientsOK
<1>6. ASSUME NEW v \in Clients PROVE CopyOK(v)'
  <2>1. CASE v = w
    <3>1. CASE step = "idle"
      BY <1>2, <1>3, <1>4, <2>1, <3>1 DEF CopyOK
    <3>2. CASE step # "idle"
      <4>1. client'[v].copy = c /\ client'[v].id = m /\ client'[v].at = step
        BY <1>3, <1>4, <2>1, <3>2
      <4>2. c.writes <= c.writes
        BY <1>1
      <4> QED BY <1>2, <4>1, <4>2 DEF CopyOK
    <3> QED BY <3>1, <3>2
  <2>2. CASE v # w
    <3>1. CopyOK(v) /\ client'[v] = client[v] /\ client[v].copy.writes \in Nat
      BY <1>1, <1>4, <2>2 DEF ClientsOK, ClientRow, ChatRow
    <3>2. chat'.writes = chat.writes + 1
      BY <1>2
    <3> QED BY <1>1, <1>2, <3>1, <3>2 DEF CopyOK
  <2> QED BY <2>1, <2>2
<1>7. \A v \in Clients : v # w /\ client'[v].at = "message" => client'[v].copy.writes # chat'.writes
  <2> TAKE v \in Clients
  <2>1. ASSUME v # w, client'[v].at = "message" PROVE client'[v].copy.writes # chat'.writes
    <3>1. /\ client'[v] = client[v] /\ client[v].copy.writes <= chat.writes
          /\ client[v].copy.writes \in Nat /\ chat'.writes = chat.writes + 1
      BY <1>1, <1>2, <1>4, <2>1 DEF CopyOK, ClientsOK, ClientRow, ChatRow
    <3> QED BY <1>1, <3>1
  <2> QED BY <2>1
<1>8. OneIsLast'
  BY <1>7 DEF OneIsLast
<1>9. IndexFollows'
  <2> SUFFICES ASSUME ~overtaken', index'.stamp >= 0, ~Excused'
               PROVE  FollowsChat(index', chat', SyncedIds')
    BY DEF IndexFollows
  <2>1. \A v \in Clients : v # w => client'[v].at \notin {"message", "whole", "invalidate"}
    BY <1>7 DEF Excused
  <2>2. step \in {"message", "idle"}
    BY <1>3, <1>4 DEF Excused
  <2>3. ~Excused /\ SyncedIds = {}
    <3>1. \A v \in Clients : client[v].at \notin {"message", "whole", "invalidate"}
      BY <1>2, <1>4, <2>1
    <3> QED BY <3>1 DEF Excused, Syncing, SyncedIds
  <2>4. FollowsChat(index, chat, {})
    BY <1>1, <1>2, <2>3 DEF IndexFollows
  <2>5. CASE step = "message"
    <3>1. m \in SyncedIds'
      <4>1. w \in Syncing' /\ client'[w].id = m
        BY <1>3, <1>4, <2>5 DEF Syncing
      <4> QED BY <4>1 DEF SyncedIds
    <3>2. FollowsChat(index, c, {m})
      BY <1>2, <2>4, <2>5
    <3>3. {m} \subseteq SyncedIds'
      BY <3>1
    <3> QED BY <1>2, <3>2, <3>3, LaterStill
  <2>6. CASE step = "idle"
    <3>1. FollowsChat(index, c, {})
      BY <1>2, <2>4, <2>6
    <3> QED BY <1>2, <3>1, LaterStill
  <2> QED BY <2>2, <2>5, <2>6
<1> QED BY <1>5, <1>6, <1>8, <1>9 DEF HistoryInv

\* What a write that adds one message or changes one makes of the chat.
HangsUnder(m, p) == \/ m \in Present(chat.body) /\ p = chat.body[m].parent
                    \/ m \notin Present(chat.body) /\ p \in Present(chat.body)

HasWritten(c, m, now) ==
    /\ c \in ChatRow /\ RowOK(c) /\ c.updated \in 1..second
    /\ c.writes = chat.writes + 1 /\ m \in Present(c.body) /\ c.current = now
    /\ index \in IndexState /\ FollowsChat(index, chat, {})
          /\ (now = m \/ (now = chat.current /\ m \in Present(chat.body))) =>
         /\ FollowsChat(index, c, {m})
         /\ m \notin Present(chat.body) => FollowsChat(index, c, {})

LEMMA WrittenChat ==
    ASSUME HistoryAssumption, ChatOK, NEW m \in Ids, NEW p, HangsUnder(m, p),
           NEW now \in Ids, now = m \/ now \in Present(chat.body), NEW at \in 1..second,
           second \in Nat, NEW c, c = Written(m, p, now, at)
    PROVE  HasWritten(c, m, now)
<1> DEFINE n == chat.writes + 1
           b == [chat.body EXCEPT ![m] = [parent |-> p, rev |-> n]]
<1>1. /\ n \in Nat /\ at \in Nat /\ WellFormed(chat.body)
  BY DEF ChatOK, RowOK, ChatRow
<1>2. WellFormed(b) /\ Present(b) = Present(chat.body) \cup {m}
  <2> HIDE DEF n
  <2> QED BY <1>1, MessageWritten DEF HangsUnder
<1>3. c = [body |-> b, current |-> now, updated |-> at, writes |-> n]
  BY DEF Written
<1>4. b \in Body
  BY <1>2 DEF WellFormed
<1> HIDE DEF b
<1>5. c.body = b /\ c.current = now /\ c.updated = at /\ c.writes = n
  BY <1>3
<1>6. c \in ChatRow /\ RowOK(c)
  BY <1>1, <1>2, <1>3, <1>4, <1>5 DEF ChatRow, RowOK
<1>7. ASSUME index \in IndexState, FollowsChat(index, chat, {}),
             now = m \/ (now = chat.current /\ m \in Present(chat.body))
      PROVE  /\ FollowsChat(index, c, {m})
             /\ m \notin Present(chat.body) => FollowsChat(index, c, {})
  <2>1. c.body = [chat.body EXCEPT ![m] = [parent |-> p, rev |-> n]]
    BY <1>5 DEF b
  <2> HIDE DEF n
  <2>2. c.current = m \/ (c.current = chat.current /\ m \in Present(chat.body))
    BY <1>5, <1>7
  <2>3. StillFollows(index, chat, c, m)
    BY <1>1, <1>7, <2>1, <2>2, AfterWrite DEF HangsUnder
  <2> QED BY <2>3 DEF StillFollows
<1> QED BY <1>2, <1>5, <1>6, <1>7 DEF HasWritten

LEMMA WriterStep ==
    ASSUME HistoryAssumption, HistoryInv, NEW w \in Clients,
           UpsertMessage(w) \/ AddStatus(w) \/ UpdateChat(w) \/ DeleteMessage(w) \/ BatchWrites(w)
    PROVE  HistoryInv'
<1>1. /\ chat \in ChatRow /\ WellFormed(chat.body) /\ chat.current \in Present(chat.body)
      /\ chat.updated \in 1..second /\ chat.writes \in Nat /\ chat.body \in Body
      /\ second \in 1..second /\ second \in Nat /\ chat.updated \in Nat /\ ChatOK
      /\ Present(chat.body) \subseteq Ids /\ index \in IndexState
  <2>1. /\ chat \in ChatRow /\ WellFormed(chat.body) /\ chat.current \in Present(chat.body)
        /\ chat.updated \in 1..second /\ chat.body \in Body /\ second \in 1..MaxSecond
        /\ index \in IndexState /\ MaxSecond \in Nat /\ ChatOK
    BY DEF HistoryInv, ChatOK, RowOK, WellFormed, ClientsOK, IndexOK, HistoryAssumption
  <2> QED BY <2>1, PresentOnes DEF ChatRow
<1>3. CASE UpsertMessage(w)
  <2>1. PICK m \in Ids : \E p \in IF m \in Present(chat.body) THEN {chat.body[m].parent}
                                  ELSE Present(chat.body) :
                CommitChat(w, "message", m, Written(m, p, m, second))
    BY <1>3 DEF UpsertMessage
  <2>2. PICK p : HangsUnder(m, p) /\ CommitChat(w, "message", m, Written(m, p, m, second))
    BY <2>1 DEF HangsUnder
  <2> DEFINE c == Written(m, p, m, second)
  <2>3. /\ c \in ChatRow /\ RowOK(c) /\ c.updated \in 1..second
        /\ c.writes = chat.writes + 1 /\ m \in Present(c.body)
        /\ FollowsChat(index, chat, {}) => FollowsChat(index, c, {m})
    <3> HIDE DEF c
    <3>1. c = Written(m, p, m, second)
      BY DEF c
    <3>2. /\ ChatOK /\ m \in Ids /\ HangsUnder(m, p) /\ second \in Nat /\ second \in 1..second
          /\ m \in Ids /\ (m = m \/ m \in Present(chat.body))
      BY <1>1, <2>2
    <3>3. HasWritten(c, m, m)
      BY <3>1, <3>2, WrittenChat
    <3> QED BY <1>1, <2>2, <3>3 DEF HasWritten
  <2> HIDE DEF c
  <2>5. CommitChat(w, "message", m, c)
    BY <2>2 DEF c
  <2> QED BY <2>3, <2>5, CommitStep DEF HistorySteps
<1>4. CASE AddStatus(w)
  <2>1. PICK m \in Present(chat.body) :
           CommitChat(w, "message", m, Written(m, chat.body[m].parent, chat.current, chat.updated))
    BY <1>4 DEF AddStatus
  <2> DEFINE p == chat.body[m].parent
             c == Written(m, p, chat.current, chat.updated)
  <2>2. m \in Ids /\ chat.current \in Ids /\ HangsUnder(m, p)
    BY <1>1 DEF HangsUnder
  <2>3. /\ c \in ChatRow /\ RowOK(c) /\ c.updated \in 1..second
        /\ c.writes = chat.writes + 1 /\ m \in Present(c.body)
        /\ FollowsChat(index, chat, {}) => FollowsChat(index, c, {m})
    <3> HIDE DEF c
    <3>1. c = Written(m, p, chat.current, chat.updated)
      BY DEF c
    <3>2. /\ ChatOK /\ m \in Ids /\ HangsUnder(m, p) /\ second \in Nat /\ chat.updated \in 1..second
          /\ chat.current \in Ids /\ (chat.current = m \/ chat.current \in Present(chat.body))
      BY <1>1, <2>2
    <3>3. HasWritten(c, m, chat.current)
      BY <3>1, <3>2, WrittenChat
    <3> QED BY <1>1, <2>2, <3>3 DEF HasWritten
  <2> HIDE DEF c
  <2>5. CommitChat(w, "message", m, c)
    BY <2>1 DEF c
  <2> QED BY <2>2, <2>3, <2>5, CommitStep DEF HistorySteps
<1>5. CASE UpdateChat(w)
  <2>0. PICK m \in Present(chat.body) :
           \E now \in {m, chat.current}, at \in {second, chat.updated} :
               CommitChat(w, "whole", m, Written(m, chat.body[m].parent, now, at))
    BY <1>5 DEF UpdateChat
  <2>1. PICK now \in {m, chat.current}, at \in {second, chat.updated} :
           CommitChat(w, "whole", m, Written(m, chat.body[m].parent, now, at))
    BY <2>0
  <2> DEFINE p == chat.body[m].parent
             c == Written(m, p, now, at)
  <2>2. /\ m \in Ids /\ now \in Ids /\ now \in Present(chat.body) /\ at \in 1..second
        /\ HangsUnder(m, p)
    BY <1>1, <2>1 DEF HangsUnder
  <2>3. /\ c \in ChatRow /\ RowOK(c) /\ c.updated \in 1..second /\ c.writes = chat.writes + 1
    <3> HIDE DEF c
    <3>1. c = Written(m, p, now, at)
      BY DEF c
    <3>2. /\ ChatOK /\ m \in Ids /\ HangsUnder(m, p) /\ second \in Nat /\ at \in 1..second
          /\ now \in Ids /\ (now = m \/ now \in Present(chat.body))
      BY <1>1, <2>2
    <3>3. HasWritten(c, m, now)
      BY <3>1, <3>2, WrittenChat
    <3> QED BY <1>1, <2>2, <3>3 DEF HasWritten
  <2> HIDE DEF c
  <2>4. CommitChat(w, "whole", m, c)
    BY <2>1 DEF c
  <2> QED BY <2>2, <2>3, <2>4, CommitStep DEF HistorySteps
<1>6. CASE DeleteMessage(w)
  <2>1. PICK m \in Present(chat.body) \ {FirstId} :
           IsLeaf(m) /\ CommitChat(w, "invalidate", m, Without(m))
    BY <1>6 DEF DeleteMessage
  <2> DEFINE b == [chat.body EXCEPT ![m] = NoMessage]
             c == Without(m)
  <2>2. WellFormed(b) /\ chat.body[m].parent \in Present(b)
    BY <1>1, <2>1, LeafRemoved DEF IsLeaf
  <2>3. b \in Body /\ chat.body[m].parent \in Ids
    BY <2>2, PresentOnes DEF WellFormed
  <2>4. c = [body |-> b, current |-> chat.body[m].parent, updated |-> second,
             writes |-> chat.writes + 1]
    BY DEF Without
  <2> HIDE DEF b, c
  <2>5. /\ c \in ChatRow /\ RowOK(c) /\ c.updated \in 1..second /\ c.writes = chat.writes + 1
    BY <1>1, <2>2, <2>3, <2>4 DEF ChatRow, RowOK
  <2>6. CommitChat(w, "invalidate", m, c)
    BY <2>1 DEF c
  <2> QED BY <1>1, <2>1, <2>5, <2>6, CommitStep DEF HistorySteps
<1>7. CASE BatchWrites(w)
  <2>1. PICK m \in Ids \ Present(chat.body), p \in Present(chat.body) :
           CommitChat(w, "idle", m, Written(m, p, m, second))
    BY <1>7 DEF BatchWrites
  <2> DEFINE c == Written(m, p, m, second)
  <2>0. HangsUnder(m, p)
    BY <2>1 DEF HangsUnder
  <2>2. /\ c \in ChatRow /\ RowOK(c) /\ c.updated \in 1..second
        /\ c.writes = chat.writes + 1
        /\ FollowsChat(index, chat, {}) => FollowsChat(index, c, {})
    <3> HIDE DEF c
    <3>1. c = Written(m, p, m, second)
      BY DEF c
    <3>2. /\ ChatOK /\ m \in Ids /\ HangsUnder(m, p) /\ second \in Nat /\ second \in 1..second
          /\ m \in Ids /\ (m = m \/ m \in Present(chat.body))
      BY <1>1, <2>0, <2>1
    <3>3. HasWritten(c, m, m)
      BY <3>1, <3>2, WrittenChat
    <3> QED BY <1>1, <2>0, <2>1, <3>3 DEF HasWritten
  <2> HIDE DEF c
  <2>4. CommitChat(w, "idle", m, c)
    BY <2>1 DEF c
  <2> QED BY <2>1, <2>2, <2>4, CommitStep DEF HistorySteps
<1> QED BY <1>3, <1>4, <1>5, <1>6, <1>7

\* A request goes on, without having written.
LEMMA RequestMoves ==
    ASSUME HistoryAssumption, HistoryInv, NEW w \in Clients, NEW new \in ClientRow,
           new.at \notin {"message", "whole"}, new.copy.updated \in 1..second,
           new.at = "rebuilding" =>
              /\ RowOK(new.copy) /\ new.copy.writes <= chat.writes
              /\ new.copy.writes = chat.writes =>
                    new.copy.body = chat.body /\ new.copy.current = chat.current,
           client' = [client EXCEPT ![w] = new], chat' = chat, second' = second,
           overtaken' \in BOOLEAN
    PROVE  /\ ChatOK' /\ ClientsOK' /\ (\A v \in Clients : CopyOK(v)') /\ OneIsLast'
           /\ client'[w] = new /\ \A v \in Clients : v # w => client'[v] = client[v]
<1>1. ChatOK /\ client \in [Clients -> ClientRow] /\ (\A v \in Clients : CopyOK(v)) /\ OneIsLast
      /\ second \in 1..MaxSecond
  BY DEF HistoryInv, ClientsOK
<1>2. /\ client' \in [Clients -> ClientRow] /\ client'[w] = new
      /\ \A v \in Clients : v # w => client'[v] = client[v]
  BY <1>1
<1>3. ChatOK'
  BY <1>1 DEF ChatOK
<1>4. ClientsOK'
  <2>1. second' \in 1..MaxSecond
    BY <1>1
  <2> QED BY <1>2, <2>1 DEF ClientsOK
<1>5. ASSUME NEW v \in Clients PROVE CopyOK(v)'
  <2>1. CASE v = w
    BY <1>2, <2>1 DEF CopyOK
  <2>2. CASE v # w
    BY <1>1, <1>2, <2>2 DEF CopyOK
  <2> QED BY <2>1, <2>2
<1>6. OneIsLast'
  BY <1>1, <1>2 DEF OneIsLast
<1> QED BY <1>2, <1>3, <1>4, <1>5, <1>6

LEMMA IdleClient ==
    ASSUME HistoryAssumption, HistoryInv
    PROVE  /\ NoClient \in ClientRow /\ NoClient.at = "idle"
           /\ NoClient.copy.updated \in 1..second
<1>1. NewChat \in ChatRow /\ NewChat.updated = 1 /\ FirstId \in Ids
  BY NewChats DEF HistoryAssumption
<1>2. NoClient \in ClientRow /\ NoClient.at = "idle" /\ NoClient.copy = NewChat
  BY <1>1 DEF NoClient, ClientRow, HistorySteps
<1>3. 1 \in 1..second
  <2>1. second \in 1..MaxSecond /\ MaxSecond \in Nat
    BY DEF HistoryInv, ClientsOK, HistoryAssumption
  <2> QED BY <2>1
<1> QED BY <1>1, <1>2, <1>3

\* The message that was written comes into the index.
LEMMA SyncStep ==
    ASSUME HistoryAssumption, HistoryInv, NEW w \in Clients, SyncMessage(w)
    PROVE  HistoryInv'
<1> DEFINE c == client[w].copy
           m == client[w].id
<1>1. /\ ChatOK /\ IndexOK /\ ClientsOK /\ OneIsLast /\ IndexFollows
      /\ CopyOK(w) /\ client[w] \in ClientRow /\ overtaken \in BOOLEAN
  BY DEF HistoryInv, ClientsOK
<1>2. /\ client[w].at = "message" /\ client' = [client EXCEPT ![w] = NoClient]
      /\ chat' = chat /\ second' = second
      /\ overtaken' = (overtaken \/ c.writes < chat.writes)
      /\ index' = IF index.stamp < 0 THEN index
                  ELSE IF ~CountsAgree(c, index.rows[m] = NoMessage)
                          \/ ~RowFits(m, c.body[m].parent)
                  THEN [index EXCEPT !.stamp = Stale]
                  ELSE PutMessage(m, c)
  BY DEF SyncMessage, Is, Answer
<1>3. /\ ChatOK' /\ ClientsOK' /\ (\A v \in Clients : CopyOK(v)') /\ OneIsLast'
      /\ client'[w] = NoClient /\ NoClient.at = "idle"
      /\ \A v \in Clients : v # w => client'[v] = client[v]
  <2>1. overtaken' \in BOOLEAN
    BY <1>2
  <2> QED BY <1>2, <2>1, IdleClient, RequestMoves
<1>4. /\ RowOK(c) /\ m \in Present(c.body) /\ c.updated \in 1..second /\ c.writes <= chat.writes
      /\ c.writes \in Nat /\ chat.writes \in Nat
      /\ c.writes = chat.writes => c.body = chat.body /\ c.current = chat.current
      /\ second \in Nat
  <2>1. c \in ChatRow /\ chat \in ChatRow /\ second \in 1..MaxSecond /\ MaxSecond \in Nat
    BY <1>1 DEF ClientRow, ChatOK, ClientsOK, HistoryAssumption
  <2> QED BY <1>1, <1>2, <2>1 DEF CopyOK, ChatRow
<1> HIDE DEF c, m
<1>5. CASE index.stamp < 0
  <2>1. index' = index
    BY <1>2, <1>5
  <2>2. IndexOK' /\ IndexFollows'
    <3>1. index.stamp \in Int
      BY <1>1 DEF IndexOK, IndexState
    <3> QED BY <1>1, <1>2, <1>5, <2>1, <3>1 DEF IndexOK, IndexFollows
  <2> QED BY <1>3, <2>2 DEF HistoryInv
<1>6. CASE index' = [index EXCEPT !.stamp = Stale]
  <2>1. /\ index' \in IndexState /\ index'.stamp = -1 /\ Spans(index')
    BY <1>1, <1>6 DEF IndexOK, IndexState, Spans, Stale
  <2>2. IndexOK' /\ IndexFollows'
    BY <2>1 DEF IndexOK, IndexFollows, Stale
  <2> QED BY <1>3, <2>2 DEF HistoryInv
<1>7. CASE /\ CountsAgree(c, index.rows[m] = NoMessage)
           /\ RowFits(m, c.body[m].parent) /\ index' = PutMessage(m, c)
           /\ ~(index.stamp < 0)
  <2>1. /\ PutMessage(m, c) \in IndexState /\ Spans(PutMessage(m, c))
        /\ PutMessage(m, c).stamp = c.updated
        /\ FollowsChat(index, c, {m}) /\ CountsAgree(c, index.rows[m] = NoMessage)
              => FollowsChat(PutMessage(m, c), c, {})
    <3>1. index \in IndexState /\ Spans(index) /\ WellFormed(c.body) /\ c.updated \in Int
          /\ c.current \in Present(c.body)
      BY <1>1, <1>4 DEF IndexOK, RowOK
    <3> QED BY <1>4, <1>7, <3>1, MessagePut
  <2>2. IndexOK'
    BY <1>2, <1>4, <1>7, <2>1 DEF IndexOK
  <2>3. IndexFollows'
    <3> SUFFICES ASSUME ~overtaken', ~Excused' PROVE FollowsChat(index', chat', SyncedIds')
      BY DEF IndexFollows
    <3>0. ~overtaken /\ ~(c.writes < chat.writes)
      BY <1>2, Zenon
    <3>1. ~overtaken /\ c.writes = chat.writes
      BY <1>4, <3>0
    <3>2. ~Excused
      BY <1>2, <1>3, <3>1 DEF Excused, c
    <3>3. SyncedIds \subseteq {m}
      <4>1. \A v \in Clients : client[v].at = "message" => v = w
        BY <1>1, <1>2, <3>1, <3>2 DEF Excused, OneIsLast, c
      <4> QED BY <4>1 DEF SyncedIds, Syncing, m
    <3>4. index.stamp >= 0
      <4>1. index.stamp \in Int
        BY <1>1 DEF IndexOK, IndexState
      <4> QED BY <1>7, <4>1
    <3>5. FollowsChat(index, chat, {m})
      BY <1>1, <3>1, <3>2, <3>3, <3>4, LaterStill DEF IndexFollows
    <3>6. FollowsChat(index, c, {m})
      BY <1>4, <3>1, <3>5, SameChat
    <3>7. FollowsChat(index', c, {})
      BY <1>7, <2>1, <3>6
    <3>8. FollowsChat(index', chat, {})
      BY <1>4, <3>1, <3>7, SameChat
    <3> QED BY <1>2, <3>8, LaterStill
  <2> QED BY <1>3, <2>2, <2>3 DEF HistoryInv
<1> QED BY <1>2, <1>5, <1>6, <1>7

\* The index is made again.
LEMMA RebuildStep ==
    ASSUME HistoryAssumption, HistoryInv, NEW w \in Clients, SyncWhole(w) \/ RebuildIndex(w)
    PROVE  HistoryInv'
<1> DEFINE c == client[w].copy
<1>1. /\ ChatOK /\ CopyOK(w) /\ client[w] \in ClientRow
  BY DEF HistoryInv, ClientsOK
<1>2. /\ client[w].at \in {"whole", "rebuilding"} /\ client' = [client EXCEPT ![w] = NoClient]
      /\ chat' = chat /\ second' = second
      /\ overtaken' = (c.writes < chat.writes)
      /\ index' = IndexOf(c, c.updated)
  BY DEF SyncWhole, RebuildIndex, Rebuild, Is, Answer
<1>3. /\ ChatOK' /\ ClientsOK' /\ (\A v \in Clients : CopyOK(v)') /\ OneIsLast'
  <2>1. overtaken' \in BOOLEAN
    BY <1>2
  <2> QED BY <1>2, <2>1, IdleClient, RequestMoves
<1>4. /\ RowOK(c) /\ c.updated \in 1..second /\ c.writes <= chat.writes
      /\ c.writes \in Nat /\ chat.writes \in Nat
      /\ c.writes = chat.writes => c.body = chat.body /\ c.current = chat.current
  <2>1. c \in ChatRow /\ chat \in ChatRow
    BY <1>1 DEF ClientRow, ChatOK
  <2> QED BY <1>1, <1>2, <2>1 DEF CopyOK, ChatRow
<1> HIDE DEF c
<1>5. /\ index' \in IndexState /\ Spans(index') /\ index'.stamp = c.updated
      /\ FollowsChat(index', c, {})
  BY <1>2, <1>4, IndexBuilt DEF RowOK
<1>6. IndexOK'
  BY <1>2, <1>4, <1>5 DEF IndexOK
<1>7. IndexFollows'
  <2> SUFFICES ASSUME ~overtaken' PROVE FollowsChat(index', chat', SyncedIds')
    BY DEF IndexFollows
  <2>0. ~(c.writes < chat.writes)
    BY <1>2, Zenon
  <2>1. c.writes = chat.writes
    BY <1>4, <2>0
  <2>2. FollowsChat(index', chat, {})
    BY <1>4, <1>5, <2>1, SameChat
  <2> QED BY <1>2, <2>2, LaterStill
<1> QED BY <1>3, <1>6, <1>7 DEF HistoryInv

\* What is neither written nor indexed.
LEMMA OtherStep ==
    ASSUME HistoryAssumption, HistoryInv, NEW w \in Clients,
           \/ SyncWholeFails(w) \/ InvalidateIndex(w) \/ IndexLost(w) \/ OpenChat(w)
           \/ CheckIndex(w) \/ ReadChat(w) \/ CloseChat(w)
    PROVE  HistoryInv'
<1>1. /\ ChatOK /\ IndexOK /\ ClientsOK /\ IndexFollows /\ CopyOK(w)
      /\ client \in [Clients -> ClientRow] /\ client[w] \in ClientRow
      /\ chat \in ChatRow /\ RowOK(chat) /\ chat.updated \in 1..second
  BY DEF HistoryInv, ClientsOK, ChatOK
<1>2. chat' = chat /\ second' = second
  BY DEF SyncWholeFails, InvalidateIndex, IndexLost, OpenChat, CheckIndex, ReadChat, CloseChat
<1>3. ASSUME NEW new \in ClientRow, new.at \notin {"message", "whole"},
             new.copy.updated \in 1..second,
             new.at = "rebuilding" => RowOK(new.copy) /\ new.copy.writes = chat.writes
                                      /\ new.copy.body = chat.body
                                      /\ new.copy.current = chat.current,
             client' = [client EXCEPT ![w] = new], overtaken' \in BOOLEAN,
             IndexOK',
             \/ index'.stamp < 0 \/ overtaken' \/ new.at = "invalidate"
             \/ /\ index' = index /\ overtaken' = overtaken
                /\ client[w].at \notin {"message", "whole", "invalidate"}
      PROVE  HistoryInv'
  <2>1. new.copy.writes = chat.writes => new.copy.writes <= chat.writes
    BY <1>1 DEF ChatRow
  <2>2. /\ ChatOK' /\ ClientsOK' /\ (\A v \in Clients : CopyOK(v)') /\ OneIsLast'
        /\ client'[w] = new /\ \A v \in Clients : v # w => client'[v] = client[v]
    BY <1>2, <1>3, <2>1, RequestMoves
  <2>3. IndexFollows'
    <3>1. CASE index'.stamp < 0
      <4>1. index'.stamp \in Int
        BY <1>3 DEF IndexOK, IndexState
      <4> QED BY <3>1, <4>1 DEF IndexFollows
    <3>2. CASE overtaken'
      BY <3>2 DEF IndexFollows
    <3>3. CASE new.at = "invalidate"
      BY <2>2, <3>3 DEF IndexFollows, Excused
    <3>4. CASE /\ index' = index /\ overtaken' = overtaken /\ new.at # "invalidate"
               /\ client[w].at \notin {"message", "whole", "invalidate"}
      <4>1. /\ \A v \in Clients : \/ client'[v] = client[v]
                                  \/ /\ client'[v].at \notin {"message", "whole", "invalidate"}
                                     /\ client[v].at \notin {"message", "whole", "invalidate"}
        BY <1>3, <2>2, <3>4
      <4>2. Excused' <=> Excused
        BY <1>2, <4>1 DEF Excused
      <4>3. SyncedIds' = SyncedIds
        <5>1. Syncing' = Syncing
          BY <4>1 DEF Syncing
        <5>2. \A v \in Syncing : client'[v] = client[v]
          BY <4>1 DEF Syncing
        <5> QED BY <5>1, <5>2 DEF SyncedIds
      <4> QED BY <1>1, <1>2, <3>4, <4>2, <4>3 DEF IndexFollows
    <3> QED BY <1>3, <3>1, <3>2, <3>3, <3>4
  <2> QED BY <1>3, <2>2, <2>3 DEF HistoryInv
<1>4. NoClient \in ClientRow /\ NoClient.at = "idle" /\ NoClient.copy.updated \in 1..second
  BY IdleClient
<1>5. overtaken \in BOOLEAN /\ client[w].copy.updated \in 1..second
  BY <1>1 DEF ClientsOK, CopyOK
<1>6. index' = index => IndexOK'
  BY <1>1, <1>2 DEF IndexOK
<1>7. ASSUME NEW step \in {"invalidate", "stale"}
      PROVE  \E new \in ClientRow : /\ new.at = step /\ new.copy = client[w].copy
                                    /\ [client EXCEPT ![w].at = step] = [client EXCEPT ![w] = new]
  <2> DEFINE new == [client[w] EXCEPT !.at = step]
  <2>1. new \in ClientRow /\ new.at = step /\ new.copy = client[w].copy
    BY <1>1, <1>7 DEF ClientRow, HistorySteps
  <2>2. [client EXCEPT ![w].at = step] = [client EXCEPT ![w] = new]
    OBVIOUS
  <2> HIDE DEF new
  <2> QED BY <2>1, <2>2
<1>8. CASE SyncWholeFails(w)
  <2>1. index' = index /\ overtaken' = overtaken /\ client' = [client EXCEPT ![w].at = "invalidate"]
    BY <1>8 DEF SyncWholeFails, MoveOn
  <2>2. PICK new \in ClientRow : /\ new.at = "invalidate" /\ new.copy = client[w].copy
                                 /\ client' = [client EXCEPT ![w] = new]
    BY <1>7, <2>1
  <2> QED BY <1>3, <1>5, <1>6, <2>1, <2>2
<1>9. CASE CheckIndex(w)
  <2>1. /\ index' = index /\ overtaken' = overtaken /\ client[w].at = "checking"
        /\ \/ client' = [client EXCEPT ![w].at = "stale"]
           \/ client' = [client EXCEPT ![w] = NoClient]
    BY <1>9 DEF CheckIndex, MoveOn, Answer, Is
  <2>2. CASE client' = [client EXCEPT ![w].at = "stale"]
    <3>1. PICK new \in ClientRow : /\ new.at = "stale" /\ new.copy = client[w].copy
                                   /\ client' = [client EXCEPT ![w] = new]
      BY <1>7, <2>2
    <3> QED BY <1>3, <1>5, <1>6, <2>1, <3>1
  <2>3. CASE client' = [client EXCEPT ![w] = NoClient]
    BY <1>3, <1>4, <1>5, <1>6, <2>1, <2>3
  <2> QED BY <2>1, <2>2, <2>3
<1>10. CASE InvalidateIndex(w)
  <2>1. /\ index' = IF index.stamp = Unbuilt THEN index ELSE [index EXCEPT !.stamp = Stale]
        /\ overtaken' = overtaken /\ client' = [client EXCEPT ![w] = NoClient]
    BY <1>10 DEF InvalidateIndex, Answer
  <2>2. IndexOK' /\ index'.stamp < 0
    BY <1>1, <1>2, <2>1 DEF IndexOK, IndexState, Spans, Stale, Unbuilt
  <2> QED BY <1>3, <1>4, <1>5, <2>1, <2>2
<1>11. CASE IndexLost(w)
  <2>1. index' = index /\ overtaken' = TRUE /\ client' = [client EXCEPT ![w] = NoClient]
    BY <1>11 DEF IndexLost, Answer
  <2> QED BY <1>3, <1>4, <1>6, <2>1
<1>12. CASE CloseChat(w)
  <2>1. /\ index' = index /\ overtaken' = overtaken /\ client' = [client EXCEPT ![w] = NoClient]
        /\ client[w].at = "rebuilding"
    BY <1>12 DEF CloseChat, Answer, Is
  <2> QED BY <1>3, <1>4, <1>5, <1>6, <2>1
<1>13. CASE OpenChat(w)
  <2> DEFINE copy == [NewChat EXCEPT !.current = chat.current, !.updated = chat.updated]
             new == [at |-> "checking", id |-> FirstId, copy |-> copy]
  <2>1. /\ index' = index /\ overtaken' = overtaken /\ client[w].at = "idle"
        /\ client' = [client EXCEPT ![w] = new]
    BY <1>13 DEF OpenChat, Carry, Is
  <2>2. copy \in ChatRow /\ copy.updated = chat.updated
    BY <1>1, NewChats DEF ChatRow
  <2> HIDE DEF copy
  <2>3. new \in ClientRow /\ new.at = "checking" /\ new.copy = copy
    BY <2>2 DEF ClientRow, HistorySteps, HistoryAssumption
  <2> HIDE DEF new
  <2> QED BY <1>1, <1>3, <1>5, <1>6, <2>1, <2>2, <2>3
<1>14. CASE ReadChat(w)
  <2> DEFINE at == client[w].copy.updated
             copy == [chat EXCEPT !.updated = at]
             new == [at |-> "rebuilding", id |-> FirstId, copy |-> copy]
  <2>1. /\ index' = index /\ overtaken' = overtaken /\ client[w].at = "stale"
        /\ client' = [client EXCEPT ![w] = new]
    BY <1>14 DEF ReadChat, Carry, Is
  <2>2. at \in Nat /\ at \in 1..second
    BY <1>1, <1>5 DEF ClientRow, ChatRow
  <2> HIDE DEF at
  <2>3. copy \in ChatRow /\ copy.updated = at /\ copy.body = chat.body
        /\ copy.current = chat.current /\ copy.writes = chat.writes
    BY <1>1, <2>2 DEF ChatRow
  <2> HIDE DEF copy
  <2>4. RowOK(copy)
    BY <1>1, <2>3 DEF RowOK
  <2>5. new \in ClientRow /\ new.at = "rebuilding" /\ new.copy = copy
    BY <2>3 DEF ClientRow, HistorySteps, HistoryAssumption
  <2> HIDE DEF new
  <2> QED BY <1>1, <1>3, <1>5, <1>6, <2>1, <2>2, <2>3, <2>4, <2>5
<1> QED BY <1>8, <1>9, <1>10, <1>11, <1>12, <1>13, <1>14

LEMMA HistoryStep ==
    ASSUME HistoryAssumption, HistoryInv, [HistoryNext]_historyVars
    PROVE  HistoryInv'
<1>1. ASSUME NEW w \in Clients,
             \/ UpsertMessage(w) \/ AddStatus(w) \/ UpdateChat(w) \/ DeleteMessage(w)
             \/ BatchWrites(w)
      PROVE  HistoryInv'
  BY <1>1, WriterStep
<1>2. ASSUME NEW w \in Clients, SyncMessage(w) \/ SyncWhole(w) \/ RebuildIndex(w)
      PROVE  HistoryInv'
  BY <1>2, SyncStep, RebuildStep
<1>3. ASSUME NEW w \in Clients,
             \/ SyncWholeFails(w) \/ InvalidateIndex(w) \/ IndexLost(w) \/ OpenChat(w)
             \/ CheckIndex(w) \/ ReadChat(w) \/ CloseChat(w)
      PROVE  HistoryInv'
  BY <1>3, OtherStep
<1>4. ASSUME NextSecond \/ UNCHANGED historyVars PROVE HistoryInv'
  <2>1. /\ chat' = chat /\ index' = index /\ client' = client /\ overtaken' = overtaken
        /\ second' = second \/ (second < MaxSecond /\ second' = second + 1)
    BY <1>4 DEF NextSecond, historyVars
  <2>2. second \in 1..MaxSecond /\ MaxSecond \in Nat
    BY DEF HistoryInv, ClientsOK, HistoryAssumption
  <2>3. second' \in 1..MaxSecond /\ 1..second \subseteq 1..second'
    BY <2>1, <2>2
  <2>4. ChatOK' /\ IndexOK' /\ ClientsOK' /\ \A w \in Clients : CopyOK(w)'
    BY <2>1, <2>3 DEF HistoryInv, ChatOK, IndexOK, ClientsOK, CopyOK
  <2>5. OneIsLast' /\ IndexFollows'
    BY <2>1 DEF HistoryInv, OneIsLast, IndexFollows, Excused, SyncedIds, Syncing
  <2> QED BY <2>4, <2>5 DEF HistoryInv
<1> QED BY <1>1, <1>2, <1>3, <1>4 DEF HistoryNext

-----------------------------------------------------------------------------
\* The pages a browser asks for, one after the other, from a page on.
Walks(g) ==
    g = [span \in Nat \X Nat |->
            {span} \cup IF span[1] > index.low THEN g[PageBefore(span[1])] ELSE {}]

\* A page before depth d begins lower, and ends at d when there is that much.
LEMMA PagesGoDown ==
    ASSUME HistoryAssumption, IndexOK, NEW d \in Nat, d > index.low
    PROVE  /\ PageBefore(d) \in Nat \X Nat /\ PageBefore(d)[1] < d
           /\ index.low <= PageBefore(d)[1]
           /\ d <= index.high + 1 => PageBefore(d) = <<PageBefore(d)[1], d>>
<1> DEFINE low == index.low
           high == index.high
           upto == Min({d, high + 1})
           end == Max({low, upto})
           from == Max({low, end - OlderSpan})
<1>1. low \in Nat /\ high \in Nat /\ low <= high /\ OlderSpan \in Nat \ {0} /\ d > low
  BY DEF IndexOK, IndexState, Spans, HistoryAssumption
<1>2. PageBefore(d) = <<from, end>>
  BY DEF PageBefore
<1> HIDE DEF low, high
<1>3. upto = IF d <= high + 1 THEN d ELSE high + 1
  BY <1>1, OfTwo
<1> HIDE DEF upto
<1>4. upto \in Nat
  BY <1>1, <1>3
<1>5. end = IF low >= upto THEN low ELSE upto
  <2>1. low \in Int /\ upto \in Int
    BY <1>1, <1>4
  <2> QED BY <2>1, OfTwo, Zenon
<1> HIDE DEF end
<1>6. end \in Nat
  BY <1>1, <1>4, <1>5
<1>7. from = IF low >= end - OlderSpan THEN low ELSE end - OlderSpan
  <2> DEFINE other == end - OlderSpan
  <2>1. low \in Int /\ other \in Int
    BY <1>1, <1>6
  <2> HIDE DEF other
  <2>2. Max({low, other}) = IF low >= other THEN low ELSE other
    BY <2>1, OfTwo, Zenon
  <2> QED BY <2>2 DEF other
<1> HIDE DEF from
<1>8. from \in Nat /\ from < d /\ low <= from
  BY <1>1, <1>3, <1>5, <1>6, <1>7
<1>9. d <= high + 1 => end = d
  BY <1>1, <1>3, <1>5
<1> QED BY <1>2, <1>6, <1>8, <1>9 DEF low, high

LEMMA WalkExists == ASSUME HistoryAssumption, IndexOK PROVE \E g : Walks(g)
<1> DEFINE All == Nat \X Nat
           Closed(X) == \A r \in X : r[1] > index.low => PageBefore(r[1]) \in X
           Reach(span) == {q \in All : \A X \in SUBSET All : span \in X /\ Closed(X) => q \in X}
           g == [span \in All |-> Reach(span)]
<1>1. ASSUME NEW span \in All, span[1] > index.low PROVE PageBefore(span[1]) \in All
  <2>1. span[1] \in Nat
    OBVIOUS
  <2> QED BY <1>1, <2>1, PagesGoDown
<1>2. ASSUME NEW span \in All
      PROVE  Reach(span) \in SUBSET All /\ span \in Reach(span) /\ Closed(Reach(span))
  <2>1. Reach(span) \in SUBSET All /\ span \in Reach(span)
    OBVIOUS
  <2>2. ASSUME NEW r \in Reach(span), r[1] > index.low
        PROVE  PageBefore(r[1]) \in Reach(span)
    <3>1. r \in All /\ PageBefore(r[1]) \in All
      BY <1>1, <2>2
    <3>2. ASSUME NEW X \in SUBSET All, span \in X, Closed(X) PROVE PageBefore(r[1]) \in X
      <4>1. r \in X
        BY <3>2
      <4> QED BY <2>2, <3>2, <4>1
    <3> QED BY <3>1, <3>2
  <2> HIDE DEF Reach
  <2> QED BY <2>1, <2>2
<1>3. ASSUME NEW span \in All
      PROVE  Reach(span) = {span} \cup IF span[1] > index.low
                                       THEN g[PageBefore(span[1])] ELSE {}
  <2> DEFINE next == PageBefore(span[1])
  <2>1. CASE span[1] > index.low
    <3>1. next \in All /\ g[next] = Reach(next)
      BY <1>1, <2>1
    <3>2. Closed(Reach(next)) /\ next \in Reach(next) /\ Reach(next) \in SUBSET All
      BY <1>2, <3>1
    <3>3. Closed({span} \cup Reach(next))
      <4> HIDE DEF Reach
      <4> QED BY <3>2
    <3>4. Reach(span) \subseteq {span} \cup Reach(next)
      <4> DEFINE X == {span} \cup Reach(next)
      <4>1. X \in SUBSET All /\ span \in X /\ Closed(X)
        <5> HIDE DEF Reach
        <5> QED BY <3>2, <3>3
      <4>2. ASSUME NEW q \in Reach(span) PROVE q \in X
        <5> HIDE DEF X, Closed
        <5> QED BY <4>1
      <4> QED BY <4>2
    <3>5. next \in Reach(span) /\ Closed(Reach(span)) /\ Reach(span) \in SUBSET All
          /\ span \in Reach(span)
      <4>1. Closed(Reach(span)) /\ span \in Reach(span) /\ Reach(span) \in SUBSET All
        BY <1>2
      <4> HIDE DEF Reach
      <4> QED BY <2>1, <4>1
    <3>6. Reach(next) \subseteq Reach(span)
      <4> DEFINE Y == Reach(span)
      <4>1. Y \in SUBSET All /\ next \in Y /\ Closed(Y)
        BY <3>5
      <4>2. ASSUME NEW q \in Reach(next) PROVE q \in Y
        <5> HIDE DEF Y, Closed, next
        <5> QED BY <4>1
      <4> QED BY <4>2
    <3> HIDE DEF Reach, g
    <3> QED BY <2>1, <3>1, <3>4, <3>5, <3>6
  <2>2. CASE ~(span[1] > index.low)
    <3> DEFINE X == {span}
    <3>1. X \in SUBSET All /\ Closed(X) /\ span \in X
      BY <2>2
    <3>2. ASSUME NEW q \in Reach(span) PROVE q \in X
      <4> HIDE DEF X, Closed
      <4> QED BY <3>1
    <3>3. span \in Reach(span)
      BY <1>2
    <3>4. Reach(span) = {span}
      BY <3>2, <3>3
    <3> HIDE DEF Reach, g
    <3> QED BY <2>2, <3>4
  <2> QED BY <2>1, <2>2
<1>4. g = [span \in All |-> {span} \cup IF span[1] > index.low
                                         THEN g[PageBefore(span[1])] ELSE {}]
  <2>1. \A span \in All : g[span] = {span} \cup IF span[1] > index.low
                                                 THEN g[PageBefore(span[1])] ELSE {}
    <3> TAKE span \in All
    <3>1. g[span] = Reach(span)
      OBVIOUS
    <3> HIDE DEF g, Reach
    <3> QED BY <1>3, <3>1
  <2>2. g = [span \in All |-> g[span]]
    OBVIOUS
  <2> HIDE DEF g
  <2> QED BY <2>1, <2>2
<1> HIDE DEF g
<1> QED BY <1>4 DEF Walks

InPage(span, depth) == span[1] <= depth /\ depth < span[2]

\* A page and those before it have each depth below the page's end once.
Tiles(g, start) ==
    \A end \in Nat : start <= end =>
        /\ \A q \in g[<<start, end>>] : q \in Nat \X Nat /\ q[2] <= end
        /\ \A depth \in Nat : index.low <= depth /\ depth < end =>
              \E q \in g[<<start, end>>] :
                  /\ InPage(q, depth)
                  /\ \A r \in g[<<start, end>>] : InPage(r, depth) => r = q

LEMMA WalkTiles ==
    ASSUME HistoryAssumption, IndexOK, NEW g, Walks(g), NEW start \in Nat,
           index.low <= start, start <= index.high + 1
    PROVE  Tiles(g, start)
<1> DEFINE low == index.low
           high == index.high
           Gap == {n \in Nat : low <= n /\ n <= high + 1 /\ ~Tiles(g, n)}
<1>1. low \in Nat /\ high \in Nat
  BY DEF IndexOK, IndexState
<1>2. ASSUME NEW n \in Nat, low <= n, n <= high + 1,
             \A k \in Nat : low <= k /\ k < n => Tiles(g, k)
      PROVE  Tiles(g, n)
  <2> SUFFICES ASSUME NEW end \in Nat, n <= end
               PROVE  /\ \A q \in g[<<n, end>>] : q \in Nat \X Nat /\ q[2] <= end
                      /\ \A depth \in Nat : low <= depth /\ depth < end =>
                            \E q \in g[<<n, end>>] :
                               /\ InPage(q, depth)
                               /\ \A r \in g[<<n, end>>] : InPage(r, depth) => r = q
    BY DEF Tiles
  <2> DEFINE span == <<n, end>>
  <2>1. /\ span \in Nat \X Nat /\ span[1] = n /\ span[2] = end
        /\ g[span] = {span} \cup IF n > low THEN g[PageBefore(n)] ELSE {}
    BY DEF Walks
  <2> HIDE DEF span
  <2>2. CASE n = low
    <3>1. g[span] = {span}
      BY <1>1, <2>1, <2>2
    <3> QED BY <1>1, <2>1, <2>2, <3>1 DEF InPage, span
  <2>3. CASE n > low
    <3> DEFINE next == PageBefore(n)
               start2 == next[1]
    <3>1. start2 \in Nat /\ start2 < n /\ low <= start2 /\ next = <<start2, n>>
      BY <1>1, <1>2, <2>3, PagesGoDown
    <3>2. Tiles(g, start2) /\ g[span] = {span} \cup g[<<start2, n>>]
      BY <1>2, <2>1, <2>3, <3>1
    <3> HIDE DEF next, start2
    <3>3. /\ \A q \in g[<<start2, n>>] : q \in Nat \X Nat /\ q[2] <= n
          /\ \A depth \in Nat : low <= depth /\ depth < n =>
                \E q \in g[<<start2, n>>] :
                   /\ InPage(q, depth)
                   /\ \A r \in g[<<start2, n>>] : InPage(r, depth) => r = q
      <4>1. start2 <= n
        BY <3>1
      <4> QED BY <3>2, <4>1 DEF Tiles
    <3> DEFINE rest == g[<<start2, n>>]
    <3> HIDE DEF rest
    <3>4. ASSUME NEW q \in g[span] PROVE q \in Nat \X Nat /\ q[2] <= end
      <4>1. CASE q = span
        BY <2>1, <4>1
      <4>2. CASE q \in g[<<start2, n>>]
        <5>1. q \in Nat \X Nat /\ q[2] <= n /\ q[2] \in Nat
          BY <3>3, <4>2
        <5> QED BY <5>1
      <4> QED BY <3>2, <4>1, <4>2
    <3>5. ASSUME NEW depth \in Nat, low <= depth, depth < end
          PROVE  \E q \in g[span] : /\ InPage(q, depth)
                                    /\ \A r \in g[span] : InPage(r, depth) => r = q
      <4>1. CASE depth < n
        <5>1. ~InPage(span, depth)
          BY <2>1, <4>1 DEF InPage
        <5>2. PICK q \in g[<<start2, n>>] :
                 /\ InPage(q, depth)
                 /\ \A r \in g[<<start2, n>>] : InPage(r, depth) => r = q
          BY <3>3, <3>5, <4>1
        <5> QED BY <3>2, <5>1, <5>2
      <4>2. CASE depth >= n
        <5>1. InPage(span, depth)
          BY <2>1, <3>5, <4>2 DEF InPage
        <5>2. ASSUME NEW r \in g[<<start2, n>>] PROVE ~InPage(r, depth)
          <6>1. r[2] <= n /\ r[2] \in Nat
            BY <3>3
          <6> QED BY <4>2, <6>1 DEF InPage
        <5> QED BY <3>2, <5>1, <5>2
      <4> QED BY <4>1, <4>2
    <3> QED BY <3>4, <3>5 DEF span
  <2> QED BY <1>1, <1>2, <2>2, <2>3
<1>3. Gap = {}
  <2> SUFFICES ASSUME Gap # {} PROVE FALSE
    OBVIOUS
  <2>1. PICK n \in Gap : \A k \in Gap : n <= k
    <3>1. Gap \subseteq Nat
      OBVIOUS
    <3> HIDE DEF Gap
    <3> QED BY <3>1, LeastNumber
  <2>2. n \in Nat /\ low <= n /\ n <= high + 1 /\ ~Tiles(g, n)
    BY <2>1
  <2>3. ASSUME NEW k \in Nat, low <= k, k < n PROVE Tiles(g, k)
    <3>1. k \notin Gap
      BY <2>1, <2>2, <2>3
    <3>2. k <= high + 1
      BY <1>1, <2>2, <2>3
    <3> QED BY <2>3, <3>1, <3>2
  <2> QED BY <1>2, <2>2, <2>3
<1> QED BY <1>3

LEMMA PagesOnce == ASSUME HistoryAssumption, IndexOK PROVE PagesTile
<1> DEFINE from[span \in Nat \X Nat] ==
               {span} \cup IF span[1] > index.low THEN from[PageBefore(span[1])] ELSE {}
           reached == index.currentDepth
           start == FirstPage[1]
<1>1. PagesWalked = from[FirstPage]
  BY DEF PagesWalked
<1>2. from = CHOOSE g : g = [span \in Nat \X Nat |->
                 {span} \cup IF span[1] > index.low THEN g[PageBefore(span[1])] ELSE {}]
  OBVIOUS
<1> HIDE DEF from
<1>3. Walks(from)
  <2>1. \E g : g = [span \in Nat \X Nat |->
                 {span} \cup IF span[1] > index.low THEN g[PageBefore(span[1])] ELSE {}]
    BY WalkExists DEF Walks
  <2> QED BY <1>2, <2>1 DEF Walks
<1>4. /\ index.low \in Nat /\ index.high \in Nat /\ reached \in Nat
      /\ index.low <= index.high /\ reached <= index.high /\ InitialSpan \in Nat \ {0}
  BY DEF IndexOK, IndexState, Spans, HistoryAssumption
<1>5. FirstPage = <<start, reached + 1>> /\ start \in Nat /\ index.low <= start
      /\ start <= index.high + 1 /\ (index.low <= reached => start <= reached + 1)
  <2> DEFINE other == reached + 1 - InitialSpan
  <2>1. index.low \in Int /\ other \in Int
    BY <1>4
  <2>2. FirstPage = <<Max({index.low, other}), reached + 1>>
    BY DEF FirstPage
  <2>3. other <= reached
    BY <1>4
  <2> HIDE DEF other
  <2>4. Max({index.low, other}) = IF index.low >= other THEN index.low ELSE other
    BY <2>1, OfTwo, Zenon
  <2>5. start = IF index.low >= other THEN index.low ELSE other
    BY <2>2, <2>4
  <2> HIDE DEF start
  <2> QED BY <1>4, <2>1, <2>2, <2>3, <2>4, <2>5
<1> HIDE DEF start, reached
<1>6. ASSUME NEW depth \in index.low..reached
      PROVE  Cardinality({span \in PagesWalked : span[1] <= depth /\ depth < span[2]}) = 1
  <2>1. depth \in Nat /\ index.low <= depth /\ depth < reached + 1 /\ index.low <= reached
    BY <1>4
  <2>2. Tiles(from, start)
    BY <1>3, <1>4, <1>5, WalkTiles
  <2>3. PICK q \in from[<<start, reached + 1>>] :
           /\ InPage(q, depth)
           /\ \A r \in from[<<start, reached + 1>>] : InPage(r, depth) => r = q
    BY <1>4, <1>5, <2>1, <2>2 DEF Tiles
  <2>4. {span \in PagesWalked : span[1] <= depth /\ depth < span[2]} = {q}
    BY <1>1, <1>5, <2>3 DEF InPage
  <2> QED BY <2>4, FS_Singleton
<1> QED BY <1>6 DEF PagesTile, reached

LEMMA HistoryIsSafe == ASSUME HistoryAssumption, HistoryInv PROVE HistorySafety
<1>1. /\ ChatOK /\ IndexOK /\ ClientsOK /\ IndexFollows
  BY DEF HistoryInv
<1>2. HistoryTypeOK
  BY <1>1 DEF HistoryTypeOK, ChatOK, IndexOK, ClientsOK, RowOK, WellFormed, ClientRow
<1>3. FreshIsExact
  <2> SUFFICES ASSUME LooksFresh(chat), ~Writing, ~overtaken
               PROVE  index = IndexOf(chat, chat.updated)
    BY DEF FreshIsExact
  <2>1. index.stamp = chat.updated /\ index.current = chat.current
    BY DEF LooksFresh
  <2>2. ~Excused /\ SyncedIds = {}
    BY DEF Writing, Excused, SyncedIds, Syncing
  <2>3. index.stamp >= 0
    BY <1>1, <2>1 DEF ChatOK
  <2>4. FollowsChat(index, chat, {})
    BY <1>1, <2>2, <2>3 DEF IndexFollows
  <2> QED BY <1>1, <2>1, <2>4, ExactWhenCurrent DEF ChatOK, RowOK, IndexOK
<1>4. PagesTile
  BY <1>1, PagesOnce
<1> QED BY <1>2, <1>3, <1>4 DEF HistorySafety

\* For any number of requests that write a chat and bring its index up to date
\* later, late or never, an index that looks current is the document's unless
\* an update was lost or overtaken; and whatever the index says, a browser that
\* asks for page after page gets each depth once (history.py).
THEOREM HistoryIsTrue == ASSUME HistoryAssumption PROVE HistorySpec => []HistorySafety
<1>1. HistoryInit => HistoryInv
  BY HistoryStart
<1>2. HistoryInv /\ [HistoryNext]_historyVars => HistoryInv'
  BY HistoryStep
<1>3. HistoryInv => HistorySafety
  BY HistoryIsSafe
<1> QED BY <1>1, <1>2, <1>3, PTL DEF HistorySpec

-----------------------------------------------------------------------------
(* The two parts of ChatsSafety side by side, as the run checks them. *)

ChatsInv == (part = "batch" => BatchInv) /\ (part = "history" => HistoryInv)

\* Whichever of the two is looked at: no turn loses what another one wrote to
\* the chat (startup_batch.py), and an index that looks current is the
\* document's (history.py).
THEOREM ChatsStayWhole ==
    ASSUME BatchAssumption, HistoryAssumption
    PROVE  PartSpec => []ChatsSafety
<1> DEFINE others == <<part, meteringVars, groupsVars, announcementVars, subscriptionVars,
                       batchVars, historyVars, memoryVars, siteVars>>
<1>1. PartInit => ChatsInv
  BY BatchBegins, HistoryStart, Zenon DEF PartInit, ChatsInv
<1>2. ChatsInv /\ [PartNext]_others => ChatsInv'
  <2> SUFFICES ASSUME ChatsInv, [PartNext]_others PROVE ChatsInv'
    OBVIOUS
  <2>1. part' = part
    BY DEF PartNext
  <2>2. part = "batch" => [BatchNext]_batchVars
    BY DEF PartNext
  <2>3. part = "history" => [HistoryNext]_historyVars
    BY DEF PartNext
  <2>4. part = "batch" => BatchInv'
    BY <2>2, BatchInvariant, Zenon DEF ChatsInv
  <2>5. part = "history" => HistoryInv'
    BY <2>3, HistoryStep, Zenon DEF ChatsInv
  <2> QED BY <2>1, <2>4, <2>5, Zenon DEF ChatsInv
<1>3. ChatsInv => ChatsSafety
  <2>1. BatchInv => BatchSafety
    BY DEF BatchInv, BatchSafety, BatchTables, BatchTypeOK, Links, TurnRow
  <2> QED BY <2>1, HistoryIsSafe, Zenon DEF ChatsInv, ChatsSafety
<1> QED BY <1>1, <1>2, <1>3, PTL DEF PartSpec
=============================================================================
