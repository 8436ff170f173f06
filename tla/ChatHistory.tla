------------------------------ MODULE ChatHistory ------------------------------
(***************************************************************************)
(* The range index of one chat (history.py) beside the JSON document it is *)
(* made from (the writers of chats.py that patch_open_webui.py changes,    *)
(* and startup_batch.py, which leaves the index to the next reader).       *)
(*                                                                         *)
(* A writer commits the document and brings the index up to date in a      *)
(* second transaction.  A reader takes the index for current when its      *)
(* stamp is the chat's updated_at and its message the current one;         *)
(* otherwise it rebuilds it from the document.                             *)
(*                                                                         *)
(* A message is its parent and the number of the write that changed it     *)
(* last; updated_at is in whole seconds.  Cyclic documents are left out.   *)
(***************************************************************************)
EXTENDS Integers, FiniteSets, FiniteSetsExt

CONSTANTS
    Ids,            \* messages
    FirstId,        \* the root of the chat, in every version of it
    NoMessage,      \* no parent, no row
    Clients,        \* requests that read or write the chat
    InitialSpan,    \* HISTORY_INITIAL_DEPTH_SPAN
    OlderSpan,      \* HISTORY_DEPTH_SPAN
    MaxSecond,      \* bound of the clock
    MaxWrites       \* bound on the writes of the chat

ASSUME HistoryAssumption ==
    /\ IsFiniteSet(Ids) /\ FirstId \in Ids /\ NoMessage \notin Ids
    /\ NoMessage \notin [parent : Ids \cup {NoMessage}, rev : Nat]
    /\ NoMessage \notin [parent : Ids \cup {NoMessage}, rev : Nat, depth : Nat]
    /\ InitialSpan \in Nat \ {0} /\ OlderSpan \in Nat \ {0}
    /\ MaxSecond \in Nat \ {0} /\ MaxWrites \in Nat

VARIABLES
    chat,       \* the row of the chat: body, current message, updated_at, number of writes
    index,      \* turtle_chat_history_state and _message
    client,     \* the requests
    second,     \* the clock
    overtaken   \* history: an index update was lost or late since the last rebuild

historyVars == <<chat, index, client, second, overtaken>>

Stale == -1     \* chat_updated_at of an index that must be rebuilt
Unbuilt == -2   \* no row in turtle_chat_history_state

Present(body) == {m \in DOMAIN body : body[m] # NoMessage}

\* _normalized_messages: a message whose parent is gone counts as a root.
Depths(body) ==
    LET d[m \in Present(body)] ==
            IF body[m].parent \in Present(body) THEN d[body[m].parent] + 1 ELSE 0
    IN  d

\* sync_chat_history_index: the whole index, from a document and with a stamp.
IndexOf(c, stamp) ==
    LET d == Depths(c.body)
        deep == {d[m] : m \in Present(c.body)}
    IN  [rows |-> [m \in Ids |-> IF m \notin Present(c.body) THEN NoMessage
                                 ELSE [parent |-> c.body[m].parent, rev |-> c.body[m].rev,
                                       depth |-> d[m]]],
         stamp |-> stamp, current |-> c.current, currentDepth |-> d[c.current],
         low |-> Min(deep), high |-> Max(deep), count |-> Cardinality(Present(c.body))]

EmptyIndex == [rows |-> [m \in Ids |-> NoMessage], stamp |-> Unbuilt, current |-> FirstId,
               currentDepth |-> 0, low |-> 0, high |-> 0, count |-> 0]

\* A chat is made with its first message, or imported with an answer to it.
ChatOf(answers) ==
    [body |-> [m \in Ids |-> IF m = FirstId THEN [parent |-> NoMessage, rev |-> 0]
                              ELSE IF m \in answers THEN [parent |-> FirstId, rev |-> 0]
                              ELSE NoMessage],
     current |-> FirstId, updated |-> 1, writes |-> 0]
NewChat == ChatOf({})

NoClient == [at |-> "idle", id |-> FirstId, copy |-> NewChat]

HistorySteps == {"idle", "message", "whole", "invalidate",
                 "checking", "stale", "rebuilding"}

HistoryTypeOK ==
    /\ chat.current \in Present(chat.body) /\ FirstId \in Present(chat.body)
    /\ chat.updated \in 1..second /\ chat.writes \in 0..MaxWrites
    /\ index.stamp \in {Stale, Unbuilt} \cup 1..second
    /\ \A w \in Clients : client[w].at \in HistorySteps /\ client[w].id \in Ids
    /\ second \in 1..MaxSecond /\ overtaken \in BOOLEAN

\* insert_new_chat, import_chats: the first index may have failed, which is
\* only logged.
HistoryInit ==
    /\ \E answers \in SUBSET (Ids \ {FirstId}) :
          /\ chat = ChatOf(answers)
          /\ index \in {EmptyIndex, IndexOf(chat, 1)}
    /\ second = 1 /\ overtaken = FALSE
    /\ client = [w \in Clients |-> NoClient]

-----------------------------------------------------------------------------
(***************************************************************************)
(* Writers: the document, then the index.                                  *)
(***************************************************************************)
Carry(w, step, m, c) == client' = [client EXCEPT ![w] = [at |-> step, id |-> m, copy |-> c]]
Answer(w) == client' = [client EXCEPT ![w] = NoClient]
Is(w, step) == client[w].at = step
MoveOn(w, step) == client' = [client EXCEPT ![w].at = step]

\* The document after one more write: message m is changed or added, and the
\* parts of the row in `fields' with it.
Written(m, p, current, updated) ==
    [body |-> [chat.body EXCEPT ![m] = [parent |-> p, rev |-> chat.writes + 1]],
     current |-> current, updated |-> updated, writes |-> chat.writes + 1]

\* A document without message m, which nothing hangs under.
Without(m) ==
    [body |-> [chat.body EXCEPT ![m] = NoMessage], current |-> chat.body[m].parent,
     updated |-> second, writes |-> chat.writes + 1]

IsLeaf(m) == \A o \in Present(chat.body) : chat.body[o].parent # m

CommitChat(w, step, m, c) ==
    /\ Is(w, "idle") /\ chat.writes < MaxWrites
    /\ chat' = c
    /\ IF step = "idle" THEN Answer(w) ELSE Carry(w, step, m, c)
    /\ UNCHANGED <<index, second, overtaken>>

\* upsert_message_to_chat_by_id_and_message_id: a new message, or a message
\* that is there and becomes the current one.
UpsertMessage(w) ==
    \E m \in Ids : \E p \in IF m \in Present(chat.body) THEN {chat.body[m].parent}
                            ELSE Present(chat.body) :
        CommitChat(w, "message", m, Written(m, p, m, second))

\* add_message_status: the message changes, updated_at does not.
AddStatus(w) ==
    \E m \in Present(chat.body) :
        CommitChat(w, "message", m, Written(m, chat.body[m].parent, chat.current, chat.updated))

\* update_chat_by_id: a whole document, which may touch updated_at and choose
\* another current message.
UpdateChat(w) ==
    \E m \in Present(chat.body) : \E c \in {m, chat.current} : \E at \in {second, chat.updated} :
        CommitChat(w, "whole", m, Written(m, chat.body[m].parent, c, at))

\* delete_message: the rebuild that follows is called without its session and
\* fails, so what is left is to invalidate.
DeleteMessage(w) ==
    \E m \in Present(chat.body) \ {FirstId} :
        IsLeaf(m) /\ CommitChat(w, "invalidate", m, Without(m))

\* ExistingChatWriteBatch.commit: no index at all.
BatchWrites(w) ==
    \E m \in Ids \ Present(chat.body) : \E p \in Present(chat.body) :
        CommitChat(w, "idle", m, Written(m, p, m, second))

\* The index has all messages but the new one.
CountsAgree(c, fresh) == index.count = Cardinality(Present(c.body)) - (IF fresh THEN 1 ELSE 0)

\* The row of message m, under its parent.
RowFits(m, p) ==
    IF index.rows[m] # NoMessage THEN index.rows[m].parent = p
    ELSE p = NoMessage \/ index.rows[p] # NoMessage

PutMessage(m, c) ==
    LET body == c.body[m]
        depth == IF index.rows[m] # NoMessage THEN index.rows[m].depth
                 ELSE IF body.parent = NoMessage THEN 0 ELSE index.rows[body.parent].depth + 1
    IN  [rows |-> [index.rows EXCEPT
                      ![m] = [parent |-> body.parent, rev |-> body.rev, depth |-> depth]],
         stamp |-> c.updated, current |-> c.current,
         currentDepth |-> IF c.current = m THEN depth ELSE index.currentDepth,
         low |-> Min({index.low, depth}), high |-> Max({index.high, depth}),
         count |-> Cardinality(Present(c.body))]

\* sync_indexed_chat_message, the state's row locked: in place, or the index
\* is marked stale.  An index that is stale or missing is left alone.
SyncMessage(w) ==
    /\ Is(w, "message")
    /\ LET c == client[w].copy
           m == client[w].id
       IN  index' = IF index.stamp < 0 THEN index
                    ELSE IF ~CountsAgree(c, index.rows[m] = NoMessage) \/ ~RowFits(m, c.body[m].parent)
                    THEN [index EXCEPT !.stamp = Stale]
                    ELSE PutMessage(m, c)
    /\ overtaken' = (overtaken \/ client[w].copy.writes < chat.writes)
    /\ Answer(w)
    /\ UNCHANGED <<chat, second>>

\* sync_chat_history_index(): the copy the call has, under the stamp it has.
\* A rebuild from the document as it is now mends everything.
Rebuild(w) ==
    /\ index' = IndexOf(client[w].copy, client[w].copy.updated)
    /\ overtaken' = (client[w].copy.writes < chat.writes)
    /\ Answer(w)
    /\ UNCHANGED <<chat, second>>

SyncWhole(w) == Is(w, "whole") /\ Rebuild(w)

\* The rebuild fails (a rival has inserted the same rows first).
SyncWholeFails(w) ==
    /\ Is(w, "whole") /\ MoveOn(w, "invalidate")
    /\ UNCHANGED <<chat, index, second, overtaken>>

InvalidateIndex(w) ==
    /\ Is(w, "invalidate")
    /\ index' = IF index.stamp = Unbuilt THEN index ELSE [index EXCEPT !.stamp = Stale]
    /\ Answer(w)
    /\ UNCHANGED <<chat, second, overtaken>>

\* The request is cancelled between its two transactions, or the second one
\* fails, which is only logged.
IndexLost(w) ==
    /\ client[w].at \in {"message", "whole", "invalidate"}
    /\ overtaken' = TRUE
    /\ Answer(w)
    /\ UNCHANGED <<chat, index, second>>

-----------------------------------------------------------------------------
(***************************************************************************)
(* Readers.                                                                *)
(***************************************************************************)
\* Mutant: the time alone decides.
FreshByTime(c) == index.stamp = c.updated

\* _fresh_state: what the envelope says of the index.
LooksFresh(c) == index.stamp = c.updated /\ index.current = c.current

\* get_chat_envelope: the row without its document.
OpenChat(w) ==
    /\ Is(w, "idle")
    /\ Carry(w, "checking", FirstId,
             [NewChat EXCEPT !.current = chat.current, !.updated = chat.updated])
    /\ UNCHANGED <<chat, index, second, overtaken>>

CheckIndex(w) ==
    /\ Is(w, "checking")
    /\ IF LooksFresh(client[w].copy) THEN Answer(w) ELSE MoveOn(w, "stale")
    /\ UNCHANGED <<chat, index, second, overtaken>>

\* The document, later than the envelope whose time it will carry.
ReadChat(w) ==
    /\ Is(w, "stale")
    /\ Carry(w, "rebuilding", FirstId, [chat EXCEPT !.updated = client[w].copy.updated])
    /\ UNCHANGED <<chat, index, second, overtaken>>

RebuildIndex(w) == Is(w, "rebuilding") /\ Rebuild(w)

\* The reader goes away, or its rebuild fails.
CloseChat(w) ==
    /\ Is(w, "rebuilding") /\ Answer(w)
    /\ UNCHANGED <<chat, index, second, overtaken>>

\* initial_chat_page: the depths down to the current message.
FirstPage == <<Max({index.low, index.currentDepth + 1 - InitialSpan}), index.currentDepth + 1>>

\* older_chat_range: the depths before a page, as a half-open range.
PageBefore(depth) ==
    LET end == Max({index.low, Min({depth, index.high + 1})})
    IN  <<Max({index.low, end - OlderSpan}), end>>

\* What the browser has when it has asked for all pages: each page says where
\* it starts, and whether there is more.
PagesWalked ==
    LET from[page \in Nat \X Nat] ==
            {page} \cup IF page[1] > index.low THEN from[PageBefore(page[1])] ELSE {}
    IN  from[FirstPage]

NextSecond ==
    /\ second < MaxSecond /\ second' = second + 1
    /\ UNCHANGED <<chat, index, client, overtaken>>

HistoryNext ==
    \/ \E w \in Clients :
          \/ UpsertMessage(w) \/ AddStatus(w) \/ UpdateChat(w) \/ DeleteMessage(w)
          \/ BatchWrites(w) \/ SyncMessage(w) \/ SyncWhole(w) \/ SyncWholeFails(w)
          \/ InvalidateIndex(w) \/ IndexLost(w) \/ OpenChat(w) \/ CheckIndex(w)
          \/ ReadChat(w) \/ RebuildIndex(w) \/ CloseChat(w)
    \/ NextSecond

HistorySpec == HistoryInit /\ [][HistoryNext]_historyVars

-----------------------------------------------------------------------------
Writing == \E w \in Clients : client[w].at \in {"message", "whole", "invalidate"}

\* An index that looks current is the one a rebuild would make of the
\* document now, unless an index update is under way, or since the last
\* rebuild one was lost or came after a later write.
FreshIsExact ==
    LooksFresh(chat) /\ ~Writing /\ ~overtaken => index = IndexOf(chat, chat.updated)

\* Whatever the index says, the pages a browser asks for one after the other
\* have each message down to the depth of the current one once.
PagesTile ==
    \A depth \in index.low..index.currentDepth :
        Cardinality({page \in PagesWalked : page[1] <= depth /\ depth < page[2]}) = 1

\* A chat opened from its index shows the document, or the index update was
\* lost or overtaken; and paging misses and repeats nothing (history.py).
HistorySafety == HistoryTypeOK /\ FreshIsExact /\ PagesTile
=============================================================================
