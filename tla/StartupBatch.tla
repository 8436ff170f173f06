----------------------------- MODULE StartupBatch -----------------------------
(***************************************************************************)
(* How the turns of one existing chat write their messages                 *)
(* (startup_batch.py, and the start of a turn in patch_open_webui.py).  A  *)
(* turn copies the chat, stages its prompt under the message it answers,   *)
(* the links to both sides and the placeholder of the answer, and replays  *)
(* all of it on the latest chat under the row's lock.  The rows that stand *)
(* for the messages are written in a savepoint of the same transaction;    *)
(* when that fails the chat is committed alone and the rows are written    *)
(* afterwards.                                                             *)
(*                                                                         *)
(* A message is a turn's prompt <<turn, "user">> or answer.  Every turn    *)
(* asks under Root or under the answer of a turn it has seen.              *)
(***************************************************************************)
EXTENDS Naturals, FiniteSets

CONSTANTS
    Sends,      \* turns of the chat: each is one request
    Root        \* the message the chat began with

VARIABLES
    messages,   \* the messages in the chat's JSON
    children,   \* their childrenIds
    rows,       \* the messages that have a row of their own
    exists,     \* the chat is there
    turn        \* the handlers: their copy of the chat and what they stage

batchVars == <<messages, children, rows, exists, turn>>

PromptOf(c) == <<c, "user">>
ReplyTo(c) == <<c, "assistant">>
Messages == {Root} \cup {PromptOf(c) : c \in Sends} \cup {ReplyTo(c) : c \in Sends}

\* A message of a turn is no other message.
ASSUME BatchAssumption == \A c \in Sends : Root # PromptOf(c) /\ Root # ReplyTo(c)

BatchSteps == {"new", "staging", "committing", "reconciling", "saved", "unlisted", "failed"}

BatchTypeOK ==
    /\ messages \subseteq Messages /\ rows \subseteq Messages /\ exists \in BOOLEAN
    /\ children \in [Messages -> SUBSET Messages]
    /\ turn \in [Sends -> [at : BatchSteps, parent : Messages, copy : [Messages -> SUBSET Messages],
                           seen : SUBSET Messages]]

BatchInit ==
    /\ messages = {Root} /\ rows = {Root} /\ exists = TRUE
    /\ children = [m \in Messages |-> {}]
    /\ turn = [c \in Sends |-> [at |-> "new", parent |-> Root, seen |-> {},
                                copy |-> [m \in Messages |-> {}]]]

-----------------------------------------------------------------------------
\* ExistingChatWriteBatch(): a copy of the chat as it is now.
CopyChat(c) ==
    /\ turn[c].at = "new" /\ exists
    /\ \E m \in messages \cap ({Root} \cup {ReplyTo(o) : o \in Sends}) :
          turn' = [turn EXCEPT ![c] = [at |-> "staging", parent |-> m, seen |-> messages, copy |-> children]]
    /\ UNCHANGED <<messages, children, rows, exists>>

\* The links that are staged: the children the parent had in the copy and
\* one more, the prompt's answer.  stage_message() applies them to the copy.
Staged(c) == [m \in Messages |->
    IF m = turn[c].parent THEN turn[c].copy[m] \cup {PromptOf(c)}
    ELSE IF m = PromptOf(c) THEN {ReplyTo(c)} ELSE turn[c].copy[m]]

StageTurn(c) ==
    /\ turn[c].at = "staging"
    /\ turn' = [turn EXCEPT ![c].at = "committing", ![c].copy = Staged(c)]
    /\ UNCHANGED <<messages, children, rows, exists>>

ChangedBy(c) == {turn[c].parent, PromptOf(c), ReplyTo(c)}

\* The staged messages replace those of the same name in the latest chat.
Replayed(c) ==
    /\ messages' = messages \cup {PromptOf(c), ReplyTo(c)}
    /\ children' = [m \in Messages |-> IF m \in ChangedBy(c) THEN turn[c].copy[m] ELSE children[m]]

\* chat_message rows, one upsert for each message that was staged.
Normalized(c) == rows \cup ChangedBy(c)

\* commit(), the row locked from the read to the end.
CommitBatch(c) ==
    /\ turn[c].at = "committing" /\ exists
    /\ Replayed(c)
    /\ \/ rows' = Normalized(c) /\ turn' = [turn EXCEPT ![c].at = "saved"]
       \/ rows' = rows /\ turn' = [turn EXCEPT ![c].at = "reconciling"]
    /\ UNCHANGED exists

\* The savepoint has failed: the rows of the committed chat, or a warning.
ReconcileRows(c) ==
    /\ turn[c].at = "reconciling"
    /\ \/ /\ rows' = IF exists THEN Normalized(c) ELSE rows
          /\ turn' = [turn EXCEPT ![c].at = "saved"]
       \/ turn' = [turn EXCEPT ![c].at = "unlisted"] /\ UNCHANGED rows
    /\ UNCHANGED <<messages, children, exists>>

TargetGone(c) ==
    /\ turn[c].at \in {"new", "committing"} /\ ~exists
    /\ turn' = [turn EXCEPT ![c].at = "failed"]
    /\ UNCHANGED <<messages, children, rows, exists>>

\* The user deletes the chat, and its rows with it.
DeleteChat ==
    /\ exists
    /\ exists' = FALSE /\ messages' = {} /\ rows' = {}
    /\ children' = [m \in Messages |-> {}]
    /\ UNCHANGED turn

BatchNext ==
    \/ \E c \in Sends : CopyChat(c) \/ StageTurn(c) \/ CommitBatch(c) \/ ReconcileRows(c) \/ TargetGone(c)
    \/ DeleteChat

BatchSpec == BatchInit /\ [][BatchNext]_batchVars

-----------------------------------------------------------------------------
InChat(c) == turn[c].at \in {"saved", "unlisted", "reconciling"}

\* A turn never loses what another turn of the chat has written: while the
\* chat is there, prompt and answer of every committed turn are in it and
\* the answer hangs under the prompt (commit() replays, it does not restore).
TurnsKept ==
    exists => \A c \in Sends : InChat(c) =>
        {PromptOf(c), ReplyTo(c)} \subseteq messages /\ ReplyTo(c) \in children[PromptOf(c)]

\* A prompt that its parent does not link to has lost the link to a turn
\* that asked under the same parent and had copied the chat before.
LinkedOrRaced ==
    exists => \A c \in Sends : InChat(c) =>
        \/ PromptOf(c) \in children[turn[c].parent]
        \/ \E o \in Sends \ {c} : /\ InChat(o) /\ turn[o].parent = turn[c].parent
                                  /\ PromptOf(c) \notin turn[o].seen

\* Search and history read the rows: every committed turn has its own, but
\* one whose rows are still to be written or were given up with a warning.
RowsFollow ==
    exists => \A c \in Sends : turn[c].at = "saved" => {PromptOf(c), ReplyTo(c)} \subseteq rows

\* Turns that start at once in several tabs: none loses messages of another,
\* a link is lost only to a stale copy, and the rows follow (commit()).
BatchSafety == BatchTypeOK /\ TurnsKept /\ LinkedOrRaced /\ RowsFollow
=============================================================================
