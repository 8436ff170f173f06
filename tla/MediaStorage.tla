---------------------------- MODULE MediaStorage -----------------------------
(***************************************************************************)
(* Media of one user in the object store: the rows of Open WebUI's file    *)
(* table, the objects a browser or the media pump writes to the bucket,    *)
(* and the handlers of turtle_storage that keep the two together.          *)
(*                                                                         *)
(* An upload is reserved, sent by the browser straight to the bucket, and  *)
(* completed; a generated file is reserved, copied by the pump and         *)
(* completed; a standard upload is stored by the server and entered then;  *)
(* a static thumbnail is made later by any page that shows the image.  A   *)
(* browser that fails anywhere sends a cancellation, and what is not ended *)
(* within an hour is swept, whoever is still at work on it.                *)
(*                                                                         *)
(* Reservations and thumbnails take the user's lock, and each process of   *)
(* Open WebUI has one of its own.  A standard upload, a completion, a      *)
(* cancellation, the sweep and the user's deletion take none: they look at *)
(* a row and act on it later.  One request of a kind runs on a file at a   *)
(* time.                                                                   *)
(*                                                                         *)
(* Every main object and every thumbnail has the size 1.                   *)
(***************************************************************************)
EXTENDS Naturals, FiniteSets

CONSTANTS
    Uploads,        \* files a browser uploads, with their thumbnail
    Generated,      \* files the pump copies
    Standard,       \* files of standard uploads, which the server stores
    Processes,      \* processes of Open WebUI
    Pages,          \* pages that make missing thumbnails
    Quota,          \* storage_quota_for_user, in objects
    Uploader,       \* holds the thumbnail of an upload until it is complete
    Unlocked

Files == Uploads \cup Generated \cup Standard

ASSUME MediaStorageAssumption ==
    /\ IsFiniteSet(Uploads) /\ IsFiniteSet(Generated) /\ IsFiniteSet(Standard)
    /\ Uploads \cap Generated = {} /\ Standard \cap (Uploads \cup Generated) = {}
    /\ Pages \cap Files = {} /\ Quota \in Nat /\ Uploader \notin Pages
    /\ Unlocked \notin Files \cup Pages

VARIABLES
    row,        \* the file's row: status, thumbnail status and who reserved it
    object,     \* the main object in the bucket
    thumb,      \* the thumbnail object
    flying,     \* PUTs of the browser that have not arrived
    browser,    \* the page that uploads the file
    job,        \* the requests on the file that run on the server
    page,       \* a page that makes a thumbnail, and its request
    userLock,   \* user_lock(user) of each process: the file or page that has it
    crossed,    \* reservations checked before a request that the lock does not
                \* keep away from theirs took room
    excess,     \* files that took room on such a check since the last sound one
    overrun     \* files whose thumbnail was removed under a completion that had
                \* seen it, or by a deletion that was then refused the object

quotaVars == <<userLock, crossed, excess>>
mediaVars == <<row, object, thumb, flying, browser, job, page, quotaVars, overrun>>

NoRow == [status |-> "none", old |-> FALSE, thumb |-> "none", by |-> Uploader,
          stale |-> FALSE]
Landed == {"good", "bad"}
Kinds == {"upload", "cancel", "sweep", "delete"}
Steps == {"idle", "insert", "copy", "head", "headThumb", "meta", "status", "read",
          "dropThumb", "dropObject", "dropRow", "eraseThumb", "unlist"}
Busy == {"reserve", "sending", "landed", "head", "write", "reject", "mark", "cancel",
         "erase", "unlist"}

MediaTypeOK ==
    /\ row \in [Files -> [status : {"none", "uploading", "copying", "completed", "gone"},
                          old : BOOLEAN,
                          thumb : {"none", "pending", "uploading", "completed", "missing",
                                   "failed"},
                          by : Pages \cup {Uploader}, stale : BOOLEAN]]
    /\ object \in [Files -> Landed \cup {"none"}]
    /\ thumb \in [Files -> Landed \cup {"none"}]
    /\ flying \in [Files -> SUBSET {"main", "thumb"}]
    /\ browser \in [Files -> {"idle", "reserving", "sending", "completing", "stored", "failed"}]
    /\ job \in [Kinds -> [Files -> Steps]]
    /\ page \in [Pages -> [file : Files, at : Busy \cup {"idle", "done"}, put : BOOLEAN]]
    /\ userLock \in [Processes -> Files \cup Pages \cup {Unlocked}]
    /\ crossed \subseteq Files \cup Pages /\ excess \subseteq Files /\ overrun \subseteq Files

MediaInit ==
    /\ row = [f \in Files |-> NoRow]
    /\ object = [f \in Files |-> "none"] /\ thumb = [f \in Files |-> "none"]
    /\ flying = [f \in Files |-> {}]
    /\ browser = [f \in Files |-> "idle"]
    /\ job = [k \in Kinds |-> [f \in Files |-> "idle"]]
    /\ page \in [Pages -> [file : Files, at : {"idle"}, put : {FALSE}]]
    /\ userLock = [P \in Processes |-> Unlocked]
    /\ crossed = {} /\ excess = {} /\ overrun = {}

-----------------------------------------------------------------------------
(***************************************************************************)
(* Rows.                                                                   *)
(***************************************************************************)
Listed(f) == row[f].status \in {"uploading", "copying", "completed"}

\* storage_size: a reserved thumbnail counts as one that is there.
Held(f) == IF ~Listed(f) THEN 0
           ELSE IF row[f].thumb \in {"uploading", "completed"} THEN 2 ELSE 1

\* The sum over some files: the objects of each, by a number of their own.
UsageOf(files) == Cardinality({u \in files \X {1, 2} : u[2] <= Held(u[1])})

Step(k, f, at) == job' = [job EXCEPT ![k][f] = at]
Write(f, fields) == row' = [row EXCEPT ![f] = fields]

Reserve(f) ==
    Write(f, IF f \in Uploads THEN [NoRow EXCEPT !.status = "uploading", !.thumb = "uploading"]
             ELSE IF f \in Generated THEN [NoRow EXCEPT !.status = "copying", !.thumb = "pending"]
             ELSE [NoRow EXCEPT !.status = "completed"])
MarkComplete(f) == Write(f, [row[f] EXCEPT !.status = "completed"])
Remove(f) == Write(f, [NoRow EXCEPT !.status = "gone"])

\* The thumbnail's columns.
ReserveThumb(f, p) ==
    Write(f, [row[f] EXCEPT !.thumb = "uploading", !.by = p, !.stale = FALSE])
MarkThumb(f, status) == Write(f, [row[f] EXCEPT !.thumb = status])
Unlist(f) == Write(f, [row[f] EXCEPT !.thumb = "missing", !.stale = FALSE])

-----------------------------------------------------------------------------
(***************************************************************************)
(* The user's locks, and reservations that the locks do not keep apart.    *)
(***************************************************************************)
HasLock(x) == \E P \in Processes : userLock[P] = x
LockFree == HasLock(Unlocked)
TakeLock(x) == \E P \in Processes :
    userLock[P] = Unlocked /\ userLock' = [userLock EXCEPT ![P] = x]
Unlock(x) == userLock' = [P \in Processes |-> IF userLock[P] = x THEN Unlocked ELSE userLock[P]]

\* Reservations that are checked and not written, and those among them that x
\* overtakes lawfully: a standard upload takes no lock, and of two requests that
\* have one each has that of a process of its own.
RoomSeekers ==
    {f \in Files : job["upload"][f] = "insert"} \cup {p \in Pages : page[p].at = "reserve"}
Overtakes(x) == {y \in RoomSeekers \ {x} :
    x \in Standard \/ y \in Standard \/ (HasLock(x) /\ HasLock(y))}

\* The request x takes room for f.
TakeRoom(x, f) ==
    /\ crossed' = (crossed \ {x}) \cup Overtakes(x)
    /\ excess' = IF x \in crossed THEN excess \cup {f} ELSE {}

(***************************************************************************)
(* Reservations.  The quota is read and the row inserted under the lock of *)
(* the process; a standard upload does both without it, its object stored  *)
(* before (a refusal removes it again).                                    *)
(***************************************************************************)
Demand(f) == IF f \in Uploads THEN 2 ELSE 1
Untouched(f) == row[f] = NoRow /\ browser[f] = "idle" /\ job["upload"][f] = "idle"
Fits(f) == UsageOf(Files) + Demand(f) <= Quota

CheckReservation(f) ==
    /\ f \notin Standard /\ Untouched(f)
    /\ \/ /\ Fits(f) /\ TakeLock(f)
          /\ browser' = [browser EXCEPT ![f] = "reserving"] /\ Step("upload", f, "insert")
       \/ /\ ~Fits(f) /\ LockFree                             \* 413, or the source's URL
          /\ browser' = [browser EXCEPT ![f] = "failed"] /\ UNCHANGED <<job, userLock>>
    /\ UNCHANGED <<row, object, thumb, flying, page, crossed, excess, overrun>>

CheckStandard(f) ==
    /\ f \in Standard /\ Untouched(f)
    /\ \/ /\ Fits(f) /\ object' = [object EXCEPT ![f] = "good"]
          /\ browser' = [browser EXCEPT ![f] = "reserving"] /\ Step("upload", f, "insert")
       \/ /\ ~Fits(f) /\ UNCHANGED <<object, job>>
          /\ browser' = [browser EXCEPT ![f] = "failed"]
    /\ UNCHANGED <<row, thumb, flying, page, quotaVars, overrun>>

InsertReservation(f) ==
    /\ job["upload"][f] = "insert"
    /\ Reserve(f) /\ TakeRoom(f, f) /\ Unlock(f)
    /\ Step("upload", f, IF f \in Generated THEN "copy" ELSE "idle")
    /\ \/ /\ f \in Uploads /\ browser[f] = "reserving"
          /\ browser' = [browser EXCEPT ![f] = "sending"]
          /\ flying' = [flying EXCEPT ![f] = {"main", "thumb"}]
       \/ f \in Uploads /\ browser[f] # "reserving" /\ UNCHANGED <<browser, flying>>
       \/ f \in Generated /\ UNCHANGED <<browser, flying>>
       \/ f \in Standard /\ browser' = [browser EXCEPT ![f] = "stored"] /\ UNCHANGED flying
    /\ UNCHANGED <<object, thumb, page, overrun>>

(***************************************************************************)
(* The browser.  Its PUTs arrive, in any order, also after it gave up.     *)
(***************************************************************************)
Arrive(f, what, body) ==
    /\ what \in flying[f]
    /\ flying' = [flying EXCEPT ![f] = @ \ {what}]
    /\ \/ what = "main" /\ object' = [object EXCEPT ![f] = body] /\ UNCHANGED <<thumb, overrun>>
       \/ /\ what = "thumb" /\ thumb' = [thumb EXCEPT ![f] = body]
          /\ overrun' = overrun \ {f} /\ UNCHANGED object
    /\ UNCHANGED <<row, browser, job, page, quotaVars>>

SendComplete(f) ==
    /\ browser[f] = "sending" /\ flying[f] = {} /\ job["upload"][f] = "idle"
    /\ browser' = [browser EXCEPT ![f] = "completing"] /\ Step("upload", f, "read")
    /\ UNCHANGED <<row, object, thumb, flying, page, quotaVars, overrun>>

\* An error, a refusal or an abort; before the ticket there is nothing to cancel.
GiveUp(f) ==
    /\ f \in Uploads /\ browser[f] \in {"reserving", "sending", "completing"}
    /\ browser' = [browser EXCEPT ![f] = "failed"]
    /\ IF browser[f] = "reserving" THEN UNCHANGED job
       ELSE \/ Step("cancel", f, "read")
            \/ UNCHANGED job                       \* the cancellation is lost as well
    /\ UNCHANGED <<row, object, thumb, flying, page, quotaVars, overrun>>

-----------------------------------------------------------------------------
(***************************************************************************)
(* complete_upload, and the end of persist_generated_media_url.            *)
(***************************************************************************)
Answer(f, outcome) ==
    browser' = [browser EXCEPT ![f] = IF @ \in {"completing", "reserving"} THEN outcome ELSE @]

\* A refused completion makes the browser cancel.
Refused(f) ==
    /\ Answer(f, "failed")
    /\ job' = [job EXCEPT !["upload"][f] = "idle",
                          !["cancel"][f] = IF browser[f] = "completing" THEN "read" ELSE @]

ReadCompletion(f) ==
    /\ job["upload"][f] = "read"
    /\ \/ row[f].status = "uploading" /\ Step("upload", f, "head") /\ UNCHANGED browser
       \/ row[f].status = "completed" /\ Step("upload", f, "idle") /\ Answer(f, "stored")
       \/ ~Listed(f) /\ Refused(f)
    /\ UNCHANGED <<row, object, thumb, flying, page, quotaVars, overrun>>

\* The pump's transfer; a failure removes what was reserved, and the pump may
\* write the object all the same.
Copy(f) ==
    /\ job["upload"][f] = "copy"
    /\ \/ object' = [object EXCEPT ![f] = "good"] /\ Step("upload", f, "head") /\ UNCHANGED flying
       \/ /\ flying' \in {flying, [flying EXCEPT ![f] = {"main"}]}
          /\ Step("upload", f, "dropThumb") /\ UNCHANGED object
    /\ UNCHANGED <<row, thumb, browser, page, quotaVars, overrun>>

\* The reply's task is cancelled while persist_generated_media_url waits for
\* something, and nothing catches that: what it waited for is done or not, what
\* comes after is not.
CopyCancelled(f) == LET at == job["upload"][f] IN
    /\ f \in Generated /\ at # "idle" /\ Step("upload", f, "idle")
    /\ Answer(f, "failed") /\ Unlock(f)
    /\ \/ /\ crossed' = crossed \ {f}
          /\ UNCHANGED <<row, object, thumb, flying, excess>>
       \/ /\ at = "insert" /\ Reserve(f) /\ TakeRoom(f, f)
          /\ UNCHANGED <<object, thumb, flying>>
       \/ /\ at = "copy" /\ flying' = [flying EXCEPT ![f] = {"main"}]
          /\ UNCHANGED <<row, object, thumb, crossed, excess>>
       \/ /\ at = "status" /\ Listed(f) /\ MarkComplete(f)
          /\ UNCHANGED <<object, thumb, flying, crossed, excess>>
       \/ /\ at \in {"dropThumb", "dropObject"}
          /\ object' = [object EXCEPT ![f] = "none"] /\ thumb' = [thumb EXCEPT ![f] = "none"]
          /\ UNCHANGED <<row, flying, crossed, excess>>
       \/ /\ at = "dropRow" /\ Remove(f)
          /\ UNCHANGED <<object, thumb, flying, crossed, excess>>
    /\ UNCHANGED <<page, overrun>>

HeadMain(f) ==
    /\ job["upload"][f] = "head"
    /\ \/ object[f] = "good" /\ Step("upload", f, "headThumb") /\ UNCHANGED browser
       \/ /\ object[f] = "bad" \/ (f \in Generated /\ object[f] = "none")
          /\ Step("upload", f, "dropThumb") /\ UNCHANGED browser
       \/ object[f] = "none" /\ f \in Uploads /\ Refused(f)
    /\ UNCHANGED <<row, object, thumb, flying, page, quotaVars, overrun>>

HeadThumb(f) ==
    /\ job["upload"][f] = "headThumb"
    /\ \/ f \in Generated /\ Step("upload", f, "meta") /\ UNCHANGED browser
       \/ f \in Uploads /\ thumb[f] = "good" /\ Step("upload", f, "meta") /\ UNCHANGED browser
       \/ f \in Uploads /\ thumb[f] = "bad" /\ Step("upload", f, "dropThumb") /\ UNCHANGED browser
       \/ f \in Uploads /\ thumb[f] = "none" /\ Refused(f)
    /\ UNCHANGED <<row, object, thumb, flying, page, quotaVars, overrun>>

\* Two updates, each of its own column; a row that is gone stays so.
WriteMeta(f) ==
    /\ job["upload"][f] = "meta" /\ Step("upload", f, "status")
    /\ IF Listed(f) /\ f \in Uploads THEN MarkThumb(f, "completed")
                                     ELSE UNCHANGED row
    /\ UNCHANGED <<object, thumb, flying, browser, page, quotaVars, overrun>>

WriteStatus(f) ==
    /\ job["upload"][f] = "status"
    /\ IF Listed(f)
       THEN /\ MarkComplete(f)
            /\ Step("upload", f, "idle") /\ Answer(f, "stored")
       ELSE /\ UNCHANGED row
            /\ IF f \in Uploads THEN Refused(f)
               ELSE Step("upload", f, "dropThumb") /\ UNCHANGED browser
    /\ UNCHANGED <<object, thumb, flying, page, quotaVars, overrun>>

-----------------------------------------------------------------------------
(***************************************************************************)
(* Removals: cancel_upload, the sweep of stale reservations, the user's    *)
(* deletion, a rejected completion.  The thumbnail goes before the object, *)
(* the object before the row.                                              *)
(***************************************************************************)
ReadCancel(f) ==
    /\ job["cancel"][f] = "read"
    /\ Step("cancel", f, IF row[f].status = "uploading" THEN "dropThumb" ELSE "idle")
    /\ UNCHANGED <<row, object, thumb, flying, browser, page, quotaVars, overrun>>

\* The user deletes a file of any status.
Deletable(f) == Listed(f) /\ job["delete"][f] = "idle"

DeleteFile(f) ==
    /\ Deletable(f) /\ Step("delete", f, "dropThumb")
    /\ UNCHANGED <<row, object, thumb, flying, browser, page, quotaVars, overrun>>

\* GET /me and a new reservation look for what is an hour old.
SweepLook(f) ==
    /\ job["sweep"][f] = "idle"
    /\ \/ row[f].status = "uploading" /\ row[f].old /\ Step("sweep", f, "dropThumb")
       \/ /\ row[f].status = "completed" /\ row[f].thumb = "uploading" /\ row[f].stale
          /\ Step("sweep", f, "eraseThumb")
    /\ UNCHANGED <<row, object, thumb, flying, browser, page, quotaVars, overrun>>

\* The thumbnail object is removed, by the sweep or by a page that has a lock.  A
\* completion that has seen it, and has the lock of another process, lists it.
EraseObject(f, apart) ==
    /\ thumb' = [thumb EXCEPT ![f] = "none"]
    /\ overrun' = IF apart /\ \E p \in Pages : page[p].file = f /\ page[p].at = "write" /\ HasLock(p)
                  THEN overrun \cup {f} ELSE overrun

DropThumb(k, f) ==
    /\ job[k][f] = "dropThumb" /\ Step(k, f, "dropObject")
    /\ thumb' = [thumb EXCEPT ![f] = "none"]
    /\ UNCHANGED <<row, object, flying, browser, page, quotaVars, overrun>>

DropObject(k, f) ==
    /\ job[k][f] = "dropObject" /\ Step(k, f, "dropRow")
    /\ object' = [object EXCEPT ![f] = "none"]
    /\ UNCHANGED <<row, thumb, flying, browser, page, quotaVars, overrun>>

\* The bucket refuses: the user's deletion stops there, the others only log it.
DropFails(k, f) ==
    /\ job[k][f] \in {"dropThumb", "dropObject"}
    /\ Step(k, f, IF k = "delete" THEN "idle" ELSE "dropRow")
    /\ overrun' = IF k = "delete" /\ job[k][f] = "dropObject" THEN overrun \cup {f} ELSE overrun
    /\ UNCHANGED <<row, object, thumb, flying, browser, page, quotaVars>>

DropRow(k, f) ==
    /\ job[k][f] = "dropRow"
    /\ Remove(f)
    /\ IF k = "upload" /\ f \in Uploads THEN Refused(f)
       ELSE Step(k, f, "idle") /\ UNCHANGED browser
    /\ UNCHANGED <<object, thumb, flying, page, quotaVars, overrun>>

SweepThumb(f) ==
    /\ job["sweep"][f] = "eraseThumb"
    /\ \/ EraseObject(f, TRUE) /\ Step("sweep", f, "unlist")
       \/ Step("sweep", f, "idle") /\ UNCHANGED <<thumb, overrun>>
    /\ UNCHANGED <<row, object, flying, browser, page, quotaVars>>

SweepUnlist(f) ==
    /\ job["sweep"][f] = "unlist" /\ Step("sweep", f, "idle")
    /\ IF Listed(f) THEN Unlist(f) ELSE UNCHANGED row
    /\ UNCHANGED <<object, thumb, flying, browser, page, quotaVars, overrun>>

\* A reservation gets an hour old, whoever is at work on it.
HourPasses(f) ==
    /\ \/ /\ row[f].status = "uploading" /\ ~row[f].old
          /\ Write(f, [row[f] EXCEPT !.old = TRUE])
       \/ /\ row[f].status = "completed" /\ row[f].thumb = "uploading" /\ ~row[f].stale
          /\ Write(f, [row[f] EXCEPT !.stale = TRUE])
    /\ UNCHANGED <<object, thumb, flying, browser, job, page, quotaVars, overrun>>

-----------------------------------------------------------------------------
(***************************************************************************)
(* Thumbnails made later.  Everything the page does wrong, a refusal of    *)
(* its reservation included, ends with its cancellation.                   *)
(***************************************************************************)
Turn(p, at) == page' = [page EXCEPT ![p].at = at]
SendThumb(p) == page' = [page EXCEPT ![p].at = "sending", ![p].put = TRUE]
LandThumb(p) ==
    page' = [page EXCEPT ![p].put = FALSE, ![p].at = IF @ = "sending" THEN "landed" ELSE @]
Ready(f) == row[f].thumb = "completed"

Reservable(f) ==
    /\ row[f].thumb = "uploading" => row[f].stale
    /\ UsageOf(Files \ {f}) + 2 <= Quota

PresignThumb(p) == LET f == page[p].file IN
    /\ page[p].at = "idle" /\ row[f].status = "completed"
    /\ \/ ~Ready(f) /\ Reservable(f) /\ Turn(p, "reserve") /\ TakeLock(p)
       \/ /\ Ready(f) \/ ~Reservable(f)
          /\ LockFree /\ Turn(p, IF Ready(f) THEN "done" ELSE "cancel") /\ UNCHANGED userLock
    /\ UNCHANGED <<row, object, thumb, flying, browser, job, crossed, excess, overrun>>

\* The reservation is written, unless the row is gone; the ticket goes out.
WriteTicket(p) == LET f == page[p].file IN
    /\ page[p].at = "reserve" /\ SendThumb(p) /\ Unlock(p)
    /\ \/ Listed(f) /\ ReserveThumb(f, p) /\ TakeRoom(p, f)
       \/ ~Listed(f) /\ crossed' = crossed \ {p} /\ UNCHANGED <<row, excess>>
    /\ UNCHANGED <<object, thumb, flying, browser, job, overrun>>

ArriveThumb(p, body) ==
    /\ page[p].put
    /\ LandThumb(p)
    /\ thumb' = [thumb EXCEPT ![page[p].file] = body]
    /\ overrun' = overrun \ {page[p].file}
    /\ UNCHANGED <<row, object, flying, browser, job, quotaVars>>

PageTimesOut(p) ==
    /\ page[p].at \in {"sending", "landed"} /\ Turn(p, "cancel")
    /\ UNCHANGED <<row, object, thumb, flying, browser, job, quotaVars, overrun>>

\* Mutant: the completion does not take the lock.
CompleteThumbUnlocked(p) == LET f == page[p].file IN
    /\ page[p].at = "landed"
    /\ \/ row[f].status = "completed" /\ row[f].thumb = "uploading" /\ Turn(p, "head")
       \/ /\ ~(row[f].status = "completed" /\ row[f].thumb = "uploading")
          /\ Turn(p, IF Listed(f) /\ Ready(f) THEN "done" ELSE "cancel")
    /\ UNCHANGED <<row, object, thumb, flying, browser, job, quotaVars, overrun>>

CompleteThumb(p) == LET f == page[p].file IN
    /\ page[p].at = "landed"
    /\ \/ /\ row[f].status = "completed" /\ row[f].thumb = "uploading"
          /\ Turn(p, "head") /\ TakeLock(p)
       \/ /\ ~(row[f].status = "completed" /\ row[f].thumb = "uploading") /\ LockFree
          /\ Turn(p, IF Listed(f) /\ Ready(f) THEN "done" ELSE "cancel") /\ UNCHANGED userLock
    /\ UNCHANGED <<row, object, thumb, flying, browser, job, crossed, excess, overrun>>

HeadThumbObject(p) == LET f == page[p].file IN
    /\ page[p].at = "head"
    /\ \/ thumb[f] = "good" /\ Turn(p, "write") /\ UNCHANGED userLock
       \/ thumb[f] = "bad" /\ Turn(p, "reject") /\ UNCHANGED userLock
       \/ thumb[f] = "none" /\ Turn(p, "cancel") /\ Unlock(p)
    /\ UNCHANGED <<row, object, thumb, flying, browser, job, crossed, excess, overrun>>

\* What is listed may have been taken off the list meanwhile: then it takes room
\* that nobody has checked.  The page hears of it, or has given up and cancels.
WriteThumb(p) == LET f == page[p].file IN
    /\ page[p].at = "write" /\ Unlock(p)
    /\ IF Listed(f) THEN MarkThumb(f, "completed") ELSE UNCHANGED row
    /\ IF Listed(f) /\ Held(f) < 2
       THEN crossed' = crossed \cup Overtakes(p) /\ excess' = excess \cup {f}
       ELSE UNCHANGED <<crossed, excess>>
    /\ \E at \in {"done", "cancel"} : Turn(p, at)
    /\ UNCHANGED <<object, thumb, flying, browser, job, overrun>>

RejectThumb(p) == LET f == page[p].file IN
    /\ page[p].at = "reject"
    /\ \/ EraseObject(f, HasLock(p)) /\ Turn(p, "mark") /\ UNCHANGED userLock
       \/ Turn(p, "cancel") /\ Unlock(p) /\ UNCHANGED <<thumb, overrun>>     \* 502
    /\ UNCHANGED <<row, object, flying, browser, job, crossed, excess>>

MarkFailed(p) == LET f == page[p].file IN
    /\ page[p].at = "mark" /\ Turn(p, "cancel") /\ Unlock(p)
    /\ IF Listed(f) THEN MarkThumb(f, "failed") ELSE UNCHANGED row
    /\ UNCHANGED <<object, thumb, flying, browser, job, crossed, excess, overrun>>

CancelThumb(p) == LET f == page[p].file IN
    /\ page[p].at = "cancel"
    /\ \/ Listed(f) /\ ~Ready(f) /\ Turn(p, "erase") /\ TakeLock(p)
       \/ (~Listed(f) \/ Ready(f)) /\ LockFree /\ Turn(p, "done") /\ UNCHANGED userLock
    /\ UNCHANGED <<row, object, thumb, flying, browser, job, crossed, excess, overrun>>

EraseThumb(p) == LET f == page[p].file IN
    /\ page[p].at = "erase"
    /\ \/ EraseObject(f, HasLock(p)) /\ Turn(p, "unlist") /\ UNCHANGED userLock
       \/ Turn(p, "done") /\ Unlock(p) /\ UNCHANGED <<thumb, overrun>>       \* 502
    /\ UNCHANGED <<row, object, flying, browser, job, crossed, excess>>

UnlistThumb(p) == LET f == page[p].file IN
    /\ page[p].at = "unlist" /\ Turn(p, "done") /\ Unlock(p)
    /\ IF Listed(f) THEN Unlist(f) ELSE UNCHANGED row
    /\ UNCHANGED <<object, thumb, flying, browser, job, crossed, excess, overrun>>

-----------------------------------------------------------------------------
UploadStep(f) ==
    \/ CheckReservation(f) \/ CheckStandard(f) \/ InsertReservation(f)
    \/ \E what \in {"main", "thumb"}, body \in Landed : Arrive(f, what, body)
    \/ SendComplete(f) \/ GiveUp(f)
    \/ ReadCompletion(f) \/ Copy(f) \/ CopyCancelled(f)
    \/ HeadMain(f) \/ HeadThumb(f) \/ WriteMeta(f) \/ WriteStatus(f)

RemovalStep(f) ==
    \/ ReadCancel(f) \/ DeleteFile(f) \/ SweepLook(f) \/ SweepThumb(f) \/ SweepUnlist(f)
    \/ \E k \in Kinds : DropThumb(k, f) \/ DropObject(k, f) \/ DropFails(k, f) \/ DropRow(k, f)
    \/ HourPasses(f)

ThumbnailStep(p) ==
    \/ PresignThumb(p) \/ WriteTicket(p) \/ (\E body \in Landed : ArriveThumb(p, body))
    \/ PageTimesOut(p) \/ CompleteThumb(p) \/ HeadThumbObject(p) \/ WriteThumb(p)
    \/ RejectThumb(p) \/ MarkFailed(p) \/ CancelThumb(p) \/ EraseThumb(p) \/ UnlistThumb(p)

MediaNext ==
    \/ \E f \in Files : UploadStep(f) \/ RemovalStep(f)
    \/ \E p \in Pages : ThumbnailStep(p)

MediaSpec == MediaInit /\ [][MediaNext]_mediaVars

-----------------------------------------------------------------------------
(***************************************************************************)
(* Properties.                                                             *)
(***************************************************************************)
\* A request is about to remove the row, or to take the thumbnail off the list.
Dropped(f) == \E k \in Kinds : job[k][f] = "dropRow"
Unlisting(f) ==
    \/ \E k \in Kinds : job[k][f] \in {"dropObject", "dropRow", "unlist"}
    \/ \E p \in Pages : page[p].file = f /\ page[p].at \in {"mark", "unlist"}

\* What a user's files hold never exceeds the quota, whatever is reserved, copied
\* and completed at the same time in one process (ensure_upload_capacity under
\* user_lock).  Beyond it go only files that took room (excess) on a check that a
\* standard upload or another process had overtaken, or for a thumbnail that was
\* off the list when its completion wrote; the next sound check that lets
\* something in finds even those within the quota.
UsageWithinQuota == UsageOf(Files \ excess) <= Quota

\* A file listed as complete has its object in the bucket, unless a request that
\* has just removed it is about to remove the row as well.
CompletedHasObject == \A f \in Files :
    row[f].status = "completed" => object[f] = "good" \/ Dropped(f)

\* A thumbnail listed as ready is in the bucket, or about to leave the list:
\* pages that reserve, send, complete and cancel it at the same time do not lose
\* it.  Two ways it is lost are known (overrun): it is removed, by another
\* process or the sweep, under a completion that has seen it, and by a deletion
\* that is then refused the object.  (A late PUT of a page that gave up may
\* replace it by that page's own thumbnail.)
ReadyHasThumbnail == \A f \in Files :
    row[f].status = "completed" /\ Ready(f) =>
        thumb[f] # "none" \/ Unlisting(f) \/ f \in overrun

\* A file that is complete is removed by the user or the sweep: a cancellation
\* that comes late is a no-op (the comment of cancel_upload says so).
CompletedKept == [][\A f \in Files :
    row[f].status = "completed" /\ row'[f].status # "completed" =>
        job["delete"][f] = "dropRow" \/ job["sweep"][f] = "dropRow"]_mediaVars

\* What the tables list is in the bucket: files and thumbnails, whatever
\* uploads, sweeps, cancellations and deletions cross each other.
ListedIsStored == CompletedHasObject /\ ReadyHasThumbnail

\* The bucket and its tables agree and keep to the quota, whatever requests of
\* two processes, pages and the sweep cross each other at whatever moment
\* (turtle_storage router.py 212-253, 437-905).
StorageSafety == MediaTypeOK /\ UsageWithinQuota /\ ListedIsStored
=============================================================================
