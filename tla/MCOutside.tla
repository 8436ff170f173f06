------------------------------ MODULE MCOutside ------------------------------
(***************************************************************************)
(* Small instances of the two components whose tables speak of things      *)
(* outside the database, side by side: a behaviour is one of MediaStorage  *)
(* or of LoginRuntime (the worker, the browser and the desktop of an       *)
(* account; two requests), and the other one stays as it was in the        *)
(* beginning.  `part' says of which, and for the bucket which file it is   *)
(* about: everything happens to that one while another, or two, are        *)
(* reserved beside it and compete for the room.  Two processes take the    *)
(* requests, and two pages want the thumbnail of the standard upload.      *)
(* The pages and the requests are the same model values, so that one       *)
(* permutation serves both; the processes are interchangeable as well.     *)
(***************************************************************************)
EXTENDS MediaStorage, LoginRuntime, TLC

CONSTANTS f1, g1, s1, y1, y2, p1, p2, a1, none

VARIABLE part

Interchangeable == Permutations({y1, y2}) \cup Permutations({p1, p2})

PartInit ==
    /\ part \in Files \cup {"login"}
    /\ MediaInit /\ LoginInit
    /\ \A p \in Pages : page[p].file = s1

Competitors(f) == IF f = f1 THEN {s1} ELSE IF f = g1 THEN {f1, s1} ELSE {g1}

Reserving(f) == CheckReservation(f) \/ CheckStandard(f) \/ InsertReservation(f)

PartNext ==
    /\ part' = part
    /\ \/ /\ \/ part \in Files /\ (UploadStep(part) \/ RemovalStep(part))
             \/ part \in Files /\ \E f \in Competitors(part) : Reserving(f)
             \/ part = s1 /\ \E p \in Pages : ThumbnailStep(p)
          /\ UNCHANGED loginVars
       \/ part = "login" /\ LoginNext /\ UNCHANGED mediaVars

PartSpec == PartInit /\ [][PartNext]_<<part, mediaVars, loginVars>>
=============================================================================
