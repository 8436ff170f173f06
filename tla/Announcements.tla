---------------------------- MODULE Announcements ----------------------------
(***************************************************************************)
(* Announcements of the administrators and what a user has read of them:   *)
(* the tables of turtle_chat/store.py, their routes, and the client of     *)
(* model-controls.js, in several tabs of one user.  An announcement has a  *)
(* revision; a receipt says which one the user has read, and a change of   *)
(* the announcement makes it unread again.                                 *)
(*                                                                         *)
(* Transactions look first and write later.  Each operation has an         *)
(* advisory lock of its own, so that two of a kind wait for each other but *)
(* a change, a deletion and a receipt do not.                              *)
(***************************************************************************)
EXTENDS Naturals, FiniteSets

CONSTANTS
    Items, Bodies, Tabs, Editors,
    MaxItems,       \* MAX_ANNOUNCEMENTS
    MaxRevision,    \* bound on the revisions of an announcement
    NoItem

ASSUME AnnouncementsAssumption ==
    /\ IsFiniteSet(Items) /\ NoItem \notin Items
    /\ MaxItems \in Nat /\ MaxRevision \in Nat \ {0}

VARIABLES
    item,       \* chat_announcement_item
    receipt,    \* chat_announcement_item_receipt of the user: a revision, 0 for none
    blind,      \* items whose receipt was written for a client that sends no id
    editing,    \* an administrator's transaction that has looked
    page,       \* what a tab has loaded of an item
    sending,    \* the receipt a tab has sent
    writing,    \* ... and the server has looked and will write
    seen        \* what the user has had on the screen: item, revision, body

storeVars == <<item, receipt, blind>>
tabVars == <<page, sending, writing, seen>>
announcementVars == <<storeVars, editing, tabVars>>

NoBody == [live |-> FALSE, used |-> FALSE, on |-> FALSE, revision |-> 0, body |-> NoItem]
NotLoaded == [revision |-> 0, body |-> NoItem, unread |-> FALSE]
NoReceipt == [item |-> NoItem, revision |-> 0]
NoEdit == [op |-> "none", item |-> NoItem, body |-> NoItem, on |-> FALSE]

AnnouncementsTypeOK ==
    /\ item \in [Items -> [live : BOOLEAN, used : BOOLEAN, on : BOOLEAN,
                           revision : 0 .. MaxRevision, body : Bodies \cup {NoItem}]]
    /\ receipt \in [Items -> 0 .. MaxRevision] /\ blind \subseteq Items
    /\ editing \in [Editors -> [op : {"none", "update", "delete"}, item : Items \cup {NoItem},
                                body : Bodies \cup {NoItem}, on : BOOLEAN]]
    /\ page \in [Tabs -> [Items -> [revision : 0 .. MaxRevision, body : Bodies \cup {NoItem},
                                    unread : BOOLEAN]]]
    /\ sending \in [Tabs -> [item : Items \cup {NoItem}, revision : 0 .. MaxRevision]]
    /\ writing \in [Tabs -> [item : Items \cup {NoItem}, revision : 0 .. MaxRevision]]
    /\ seen \subseteq Items \X (0 .. MaxRevision) \X Bodies

AnnouncementsInit ==
    /\ item = [i \in Items |-> NoBody]
    /\ receipt = [i \in Items |-> 0] /\ blind = {}
    /\ editing = [e \in Editors |-> NoEdit]
    /\ page = [b \in Tabs |-> [i \in Items |-> NotLoaded]]
    /\ sending = [b \in Tabs |-> NoReceipt] /\ writing = [b \in Tabs |-> NoReceipt]
    /\ seen = {}

-----------------------------------------------------------------------------
(***************************************************************************)
(* The administrators.                                                     *)
(***************************************************************************)
Live == {i \in Items : item[i].live}

Room == Cardinality(Live) < MaxItems

\* One creation at a time; a deletion that comes in between makes room only.
CreateAnnouncement(i, body, on) ==
    /\ ~item[i].used /\ Room
    /\ item' = [item EXCEPT ![i] = [live |-> TRUE, used |-> TRUE, on |-> on,
                                    revision |-> 1, body |-> body]]
    /\ UNCHANGED <<receipt, blind, editing, tabVars>>

Edits(i, op) == {e \in Editors : editing[e].item = i /\ editing[e].op = op}

LookToUpdate(e, i, body, on) ==
    /\ editing[e] = NoEdit /\ Edits(i, "update") = {}
    /\ item[i].live /\ <<body, on>> # <<item[i].body, item[i].on>>
    /\ editing' = [editing EXCEPT ![e] = [op |-> "update", item |-> i, body |-> body, on |-> on]]
    /\ UNCHANGED <<storeVars, tabVars>>

Updated(row, body, on) ==
    [row EXCEPT !.body = body, !.on = on, !.revision = row.revision + 1]

\* The row may be deleted by now: then nothing is updated.
UpdateAnnouncement(e) ==
    /\ editing[e].op = "update"
    /\ LET i == editing[e].item
       IN IF item[i].live
          THEN /\ item[i].revision < MaxRevision
               /\ item' = [item EXCEPT ![i] = Updated(item[i], editing[e].body, editing[e].on)]
          ELSE UNCHANGED item
    /\ editing' = [editing EXCEPT ![e] = NoEdit]
    /\ UNCHANGED <<receipt, blind, tabVars>>

LookToDelete(e, i) ==
    /\ editing[e] = NoEdit /\ Edits(i, "delete") = {} /\ item[i].live
    /\ editing' = [editing EXCEPT ![e] = [op |-> "delete", item |-> i, body |-> NoItem, on |-> FALSE]]
    /\ UNCHANGED <<storeVars, tabVars>>

Deleted(row) == [row EXCEPT !.live = FALSE, !.on = FALSE]

DeleteAnnouncement(e) ==
    /\ editing[e].op = "delete"
    /\ item' = [item EXCEPT ![editing[e].item] = Deleted(item[editing[e].item])]
    /\ editing' = [editing EXCEPT ![e] = NoEdit]
    /\ UNCHANGED <<receipt, blind, tabVars>>

-----------------------------------------------------------------------------
(***************************************************************************)
(* The user: announcements_for_user(), dismiss_announcement(), and the     *)
(* tab, which holds one receipt under way at most.                         *)
(***************************************************************************)
Shown(i) == item[i].live /\ item[i].on
Unread(i) == Shown(i) /\ receipt[i] # item[i].revision

Loaded(i) == IF Shown(i) THEN [revision |-> item[i].revision, body |-> item[i].body,
                               unread |-> Unread(i)] ELSE NotLoaded

\* Also what a refused receipt makes the tab do.
LoadAnnouncements(b) ==
    /\ page' = [page EXCEPT ![b] = [i \in Items |-> Loaded(i)]]
    /\ page' # page
    /\ UNCHANGED <<storeVars, editing, sending, writing, seen>>

\* showAnnouncementDetail() with markOnOpen, or the button below the text.
OpenAnnouncement(b, i) ==
    /\ page[b][i].revision # 0
    /\ seen' = seen \cup {<<i, page[b][i].revision, page[b][i].body>>}
    /\ sending' = [sending EXCEPT ![b] =
                     IF page[b][i].unread /\ @ = NoReceipt
                     THEN [item |-> i, revision |-> page[b][i].revision] ELSE @]
    /\ <<seen', sending'>> # <<seen, sending>>
    /\ UNCHANGED <<storeVars, editing, page, writing>>

\* Mutant: two receipts of one user do not wait for each other.
AnyReceipt(i) == TRUE
ReceiptLocked(i) == \A b \in Tabs : writing[b].item # i

CurrentRevision(i, revision) == Shown(i) /\ item[i].revision = revision

LookToDismiss(b) ==
    /\ sending[b] # NoReceipt /\ writing[b] = NoReceipt
    /\ LET i == sending[b].item
       IN IF CurrentRevision(i, sending[b].revision)
          THEN /\ ReceiptLocked(i)
               /\ writing' = [writing EXCEPT ![b] = [item |-> i, revision |-> item[i].revision]]
               /\ UNCHANGED <<page, sending>>
          ELSE /\ page' = [page EXCEPT ![b] = [j \in Items |-> Loaded(j)]]
               /\ sending' = [sending EXCEPT ![b] = NoReceipt]
               /\ UNCHANGED writing
    /\ UNCHANGED <<storeVars, editing, seen>>

DismissAnnouncement(b) ==
    /\ writing[b] # NoReceipt
    /\ receipt' = [receipt EXCEPT ![writing[b].item] = writing[b].revision]
    /\ blind' = blind \ {writing[b].item}
    /\ page' = [page EXCEPT ![b][writing[b].item].unread = FALSE]
    /\ writing' = [writing EXCEPT ![b] = NoReceipt]
    /\ sending' = [sending EXCEPT ![b] = NoReceipt]
    /\ UNCHANGED <<item, editing, seen>>

\* The answer is lost: the receipt may be written, the tab does not know.
LoseReceipt(b) ==
    /\ sending[b] # NoReceipt /\ writing[b] = NoReceipt
    /\ sending' = [sending EXCEPT ![b] = NoReceipt]
    /\ UNCHANGED <<storeVars, editing, page, writing, seen>>

\* dismiss_current_announcement(): an old client sends only a revision, and
\* the first unread item of the list that has it is taken.  The order of the
\* list is left open.
DismissCurrent(revision) ==
    \E i \in Items :
       /\ Unread(i) /\ item[i].revision = revision /\ ReceiptLocked(i)
       /\ receipt' = [receipt EXCEPT ![i] = revision]
       /\ blind' = blind \cup {i}
       /\ UNCHANGED <<item, editing, tabVars>>

AnnouncementsNext ==
    \/ \E i \in Items, body \in Bodies, on \in BOOLEAN :
          \/ CreateAnnouncement(i, body, on)
          \/ \E e \in Editors : LookToUpdate(e, i, body, on)
    \/ \E e \in Editors : UpdateAnnouncement(e) \/ DeleteAnnouncement(e)
    \/ \E e \in Editors, i \in Items : LookToDelete(e, i)
    \/ \E b \in Tabs : LoadAnnouncements(b) \/ LookToDismiss(b) \/ DismissAnnouncement(b)
                       \/ LoseReceipt(b) \/ (\E i \in Items : OpenAnnouncement(b, i))
    \/ \E revision \in 1 .. MaxRevision : DismissCurrent(revision)

AnnouncementsSpec == AnnouncementsInit /\ [][AnnouncementsNext]_announcementVars

-----------------------------------------------------------------------------
\* An announcement that is not offered to the user any more has been on the
\* screen in its present wording, whatever edits and receipts cross each other
\* (dismiss_announcement, update_announcement).  Old clients are excepted:
\* they do not say which announcement they mean.
ReadMeansSeen == \A i \in Items \ blind :
    Shown(i) /\ ~Unread(i) => <<i, item[i].revision, item[i].body>> \in seen

\* A late receipt of another tab never takes back a newer one
\* (dismiss_announcement).
ReceiptsGoForward == [][\A i \in Items : receipt'[i] >= receipt[i]]_announcementVars

\* Reading and editing at once: what is taken for read has been seen, and
\* receipts of several tabs only go forward (the receipt and update handlers).
AnnouncementsSafety == [](AnnouncementsTypeOK /\ ReadMeansSeen) /\ ReceiptsGoForward
=============================================================================
