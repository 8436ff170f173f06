----------------------------- MODULE WebUIProofs -----------------------------
(***************************************************************************)
(* Proofs about six components that work in Open WebUI: what a turn      *)
(* costs (ChatMetering), the switches of turtle_auth (SiteAccess), who     *)
(* sees what wording (Announcements), the time a plan is granted for       *)
(* (Subscriptions), the line of chat calls in one process                  *)
(* (MemoryCoordinator), and the groups of users (ChatGroups).              *)
(***************************************************************************)
EXTENDS ChatMetering, SiteAccess, Announcements, Subscriptions, MemoryCoordinator,
        ChatGroups, SequenceTheorems, FiniteSetTheorems, FunctionTheorems, TLAPS

-----------------------------------------------------------------------------
(* Chat metering: every way out of a turn settles it. *)

\* A reservation that a thread still has to write finds no row, of a handler
\* that waits for it or was cut off.
ReservesOnce(t) ==
    "reserve" \in jobs[t] => /\ jobs[t] = {"reserve"}
                             /\ usages[t].status = "none" /\ t \notin counted
                             /\ \/ phase[t] = "reserving"
                                \/ phase[t] = "over" /\ left[t] # "no"

\* A turn that has not begun has nothing.
NothingYet(t) ==
    phase[t] \in {"idle", "queued"} =>
        /\ usages[t].status = "none" /\ jobs[t] = {}
        /\ t \notin lease /\ t \notin counted /\ t \notin shown

\* A background task is not metered, an image does not queue.
KindKept(t) ==
    /\ kind[t] = "task" => usages[t].status = "none" /\ "reserve" \notin jobs[t]
    /\ kind[t] = "image" => t \notin lease /\ phase[t] # "queued"

\* Until its content is counted a turn has its reservation, unless that was an
\* hour old.
HasReservation(t) ==
    phase[t] \in {"asking", "returned", "streaming", "counting", "committing"}
        /\ kind[t] # "task"
    => usages[t].status = "reserved" \/ (usages[t].status = "released" /\ usages[t].old)

\* A commit is for content, and what is counted is no longer reserved.
CountsContent(t) ==
    /\ "commit" \in jobs[t] => t \in content /\ phase[t] \in {"committing", "closing", "over"}
    /\ phase[t] \in {"counting", "committing"} => t \in content
    /\ t \in counted => usages[t].status # "reserved"

\* TurnsSettled, of one turn.
TurnSettled(t) ==
    /\ usages[t].status = "committed" => t \in content
    /\ t \in shown /\ kind[t] = "chat" => usages[t].status = "committed" \/ usages[t].old
    /\ t \in lease /\ phase[t] = "over" => left[t] = "open"
    /\ usages[t].status = "reserved" /\ phase[t] = "over" /\ jobs[t] = {} => left[t] # "no"

TurnOK(t) ==
    /\ ReservesOnce(t) /\ NothingYet(t) /\ KindKept(t) /\ HasReservation(t)
    /\ CountsContent(t) /\ TurnSettled(t)

MeteringInv == MeteringTypeOK /\ \A t \in Turns : TurnOK(t)

LEMMA MeteringStart == ASSUME MeteringAssumption, MeteringInit PROVE MeteringInv
<1>1. MeteringTypeOK
  BY DEF MeteringAssumption, MeteringInit, MeteringTypeOK, NoUsage, Usage, Phase
<1>2. ASSUME NEW t \in Turns PROVE TurnOK(t)
  BY DEF MeteringInit, NoUsage, TurnOK, ReservesOnce, NothingYet, KindKept, HasReservation,
     CountsContent, TurnSettled
<1> QED
  BY <1>1, <1>2 DEF MeteringInv

\* What others may do to the row of a turn: release a reservation an hour old.
CleanedAt(t) ==
    \/ usages'[t] = usages[t]
    \/ /\ usages[t].status = "reserved" /\ usages[t].old
       /\ usages'[t] = [usages[t] EXCEPT !.status = "released"]

SameHandler(t) ==
    /\ phase'[t] = phase[t] /\ kind'[t] = kind[t] /\ jobs'[t] = jobs[t] /\ left'[t] = left[t]
    /\ (t \in lease') <=> (t \in lease)
    /\ (t \in content') <=> (t \in content)
    /\ (t \in counted') <=> (t \in counted)
    /\ (t \in shown') <=> (t \in shown)

LEMMA OtherTurn ==
    ASSUME NEW t \in Turns, usages[t] \in Usage, TurnOK(t), SameHandler(t), CleanedAt(t)
    PROVE  TurnOK(t)'
<1>1. /\ usages'[t].status = usages[t].status
         \/ (usages[t].status = "reserved" /\ usages[t].old /\ usages'[t].status = "released")
      /\ usages'[t].old = usages[t].old
  BY DEF CleanedAt, Usage
<1>2. ReservesOnce(t)' /\ NothingYet(t)' /\ KindKept(t)'
  BY <1>1 DEF TurnOK, SameHandler, ReservesOnce, NothingYet, KindKept
<1>3. HasReservation(t)' /\ CountsContent(t)' /\ TurnSettled(t)'
  BY <1>1 DEF TurnOK, SameHandler, HasReservation, CountsContent, TurnSettled
<1> QED
  BY <1>2, <1>3 DEF TurnOK

LEMMA CleanedRows ==
    ASSUME MeteringTypeOK, NEW t \in Turns
    PROVE  /\ Cleaned(usages)[t] \in Usage
           /\ \/ Cleaned(usages)[t] = usages[t]
              \/ /\ usages[t].status = "reserved" /\ usages[t].old
                 /\ Cleaned(usages)[t] = [usages[t] EXCEPT !.status = "released"]
           /\ Cleaned(usages) = [u \in Turns |-> Cleaned(usages)[u]]
<1>1. usages[t] \in Usage
  BY DEF MeteringTypeOK
<1>2. Cleaned(usages)[t] = IF usages[t].status = "reserved" /\ usages[t].old
                           THEN [usages[t] EXCEPT !.status = "released"] ELSE usages[t]
  BY DEF Cleaned
<1>3. Cleaned(usages) = [u \in Turns |-> Cleaned(usages)[u]]
  BY DEF Cleaned
<1> QED
  BY <1>1, <1>2, <1>3 DEF Usage

\* One turn steps, the others only lose a reservation an hour old.
OthersKept(t) == \A u \in Turns : u # t => SameHandler(u) /\ CleanedAt(u)

LEMMA OneTurnSteps ==
    ASSUME MeteringInv, MeteringTypeOK', NEW t \in Turns, TurnOK(t)', OthersKept(t)
    PROVE  MeteringInv'
<1>1. ASSUME NEW u \in Turns, u # t PROVE TurnOK(u)'
  BY <1>1, OtherTurn DEF MeteringInv, MeteringTypeOK, OthersKept
<1> QED
  BY <1>1 DEF MeteringInv

\* The steps of the handler that neither write a row nor end the turn.
LEMMA HandlerStep ==
    ASSUME MeteringAssumption, MeteringInv, NEW t \in Turns,
           \/ Admit(t) \/ Answered(t) \/ Iterate(t) \/ FirstContent(t) \/ RecordFirstContent(t)
           \/ ImageEnds(t) \/ CutReserving(t) \/ CutOpen(t) \/ CutClosing(t)
    PROVE  MeteringInv'
<1> USE DEF Goto, Drop, Cut, Abandoned, windowVars
<1>1. /\ MeteringTypeOK /\ TurnOK(t) /\ phase[t] \in Phase /\ usages[t] \in Usage
      /\ jobs[t] \subseteq {"reserve", "commit", "release"}
      /\ MaxCuts \in Nat
  BY DEF MeteringInv, MeteringTypeOK, MeteringAssumption
<1>2. /\ UNCHANGED <<rules, windows, ended, opened, usages, kind, counted>>
      /\ \E label \in Phase : phase' = [phase EXCEPT ![t] = label]
      /\ \E set \in SUBSET {"reserve", "commit", "release"} : jobs' = [jobs EXCEPT ![t] = set]
      /\ \E value \in {"no", "reserve", "open", "settle"} : left' = [left EXCEPT ![t] = value]
      /\ lease' \in {lease, lease \cup {t}, lease \ {t}}
      /\ content' \in {content, content \cup {t}} /\ shown' \in {shown, shown \cup {t}}
      /\ cuts' \in 0 .. MaxCuts
  <2>0. UNCHANGED left => left' = [left EXCEPT ![t] = left[t]]
    BY <1>1 DEF MeteringTypeOK
  <2>00. UNCHANGED jobs => jobs' = [jobs EXCEPT ![t] = jobs[t]]
    BY <1>1 DEF MeteringTypeOK
  <2>000. left[t] \in {"no", "reserve", "open", "settle"} /\ cuts \in 0 .. MaxCuts
    BY <1>1 DEF MeteringTypeOK
  <2>1. CASE Admit(t)
    BY <1>1, <2>0, <2>00, <2>000, <2>1 DEF Admit, Phase
  <2>2. CASE Answered(t)
    BY <1>1, <2>0, <2>00, <2>000, <2>2 DEF Answered, Phase
  <2>3. CASE Iterate(t)
    BY <1>1, <2>0, <2>00, <2>000, <2>3 DEF Iterate, Phase
  <2>4. CASE FirstContent(t)
    BY <1>1, <2>0, <2>00, <2>000, <2>4 DEF FirstContent, Phase
  <2>5. CASE RecordFirstContent(t)
    BY <1>1, <2>0, <2>00, <2>000, <2>5 DEF RecordFirstContent, Phase
  <2>6. CASE ImageEnds(t)
    BY <1>1, <2>0, <2>00, <2>000, <2>6 DEF ImageEnds, Phase
  <2>7. CASE CutReserving(t)
    BY <1>1, <2>0, <2>00, <2>000, <2>7 DEF CutReserving, Phase
  <2>8. CASE CutOpen(t)
    BY <1>1, <2>0, <2>00, <2>000, <2>8 DEF CutOpen, Phase
  <2>9. CASE CutClosing(t)
    <3>1. PICK still \in SUBSET jobs[t] : jobs' = [jobs EXCEPT ![t] = still]
      BY <2>9 DEF CutClosing
    <3>2. still \in SUBSET {"reserve", "commit", "release"}
      BY <1>1
    <3>3. left' = [left EXCEPT ![t] = "settle"] /\ phase' = [phase EXCEPT ![t] = "over"]
      BY <2>9 DEF CutClosing
    <3>4. UNCHANGED <<rules, windows, ended, opened, usages, kind, content, counted, shown>>
      BY <2>9 DEF CutClosing
    <3>5. lease' = lease \ {t} /\ cuts' \in 0 .. MaxCuts
      BY <1>1, <2>000, <2>9 DEF CutClosing
    <3> QED
      BY <3>1, <3>2, <3>3, <3>4, <3>5 DEF Phase
  <2> QED
    BY <2>1, <2>2, <2>3, <2>4, <2>5, <2>6, <2>7, <2>8, <2>9
<1>3. MeteringTypeOK'
  BY <1>1, <1>2 DEF MeteringTypeOK
<1>4. OthersKept(t)
  BY <1>1, <1>2 DEF OthersKept, SameHandler, CleanedAt, MeteringTypeOK
<1>5. TurnOK(t)'
  <2> USE <1>1, <1>2 DEF MeteringTypeOK, TurnOK, ReservesOnce, NothingYet, KindKept,
             HasReservation, CountsContent, TurnSettled
  <2>1. CASE Admit(t)
    <3>1. /\ phase[t] = "queued" /\ lease' = lease \cup {t}
          /\ UNCHANGED <<usages, kind, content, counted, shown, left>>
      BY <2>1 DEF Admit
    <3>2. CASE kind[t] = "task"
      <4>1. phase'[t] = "asking" /\ jobs' = jobs
        BY <2>1, <3>2 DEF Admit
      <4> QED
        BY <3>1, <3>2, <4>1
    <3>3. CASE kind[t] # "task"
      <4>1. phase'[t] = "reserving" /\ jobs'[t] = {"reserve"}
        BY <2>1, <3>3 DEF Admit
      <4> QED
        BY <3>1, <3>3, <4>1
    <3> QED
      BY <3>2, <3>3
  <2>2. CASE Answered(t)
    BY <2>2 DEF Answered
  <2>3. CASE Iterate(t)
    BY <2>3 DEF Iterate
  <2>4. CASE FirstContent(t)
    BY <2>4 DEF FirstContent
  <2>5. CASE RecordFirstContent(t)
    BY <2>5 DEF RecordFirstContent
  <2>6. CASE ImageEnds(t)
    BY <2>6 DEF ImageEnds
  <2>7. CASE CutReserving(t)
    BY <2>7 DEF CutReserving
  <2>8. CASE CutOpen(t)
    BY <2>8 DEF CutOpen
  <2>9. CASE CutClosing(t)
    BY <2>9 DEF CutClosing
  <2> QED
    BY <2>1, <2>2, <2>3, <2>4, <2>5, <2>6, <2>7, <2>8, <2>9
<1> QED
  BY <1>1, <1>3, <1>4, <1>5, OneTurnSteps

\* A turn arrives, or is turned away.
LEMMA ArrivalStep ==
    ASSUME MeteringAssumption, MeteringInv, NEW t \in Turns,
           \/ \E k \in {"chat", "task"}, m \in Models : Arrive(t, k, m)
           \/ \E m \in Models : ArriveImage(t, m)
           \/ TurnAway(t)
    PROVE  MeteringInv'
<1> USE DEF Goto, windowVars
<1>1. /\ MeteringTypeOK /\ TurnOK(t) /\ usages[t] \in Usage /\ jobs[t] = {}
      /\ phase[t] \in {"idle", "queued"}
  BY DEF MeteringInv, MeteringTypeOK, TurnOK, NothingYet, Arrive, ArriveImage, TurnAway
<1>2. /\ UNCHANGED <<rules, windows, ended, opened, lease, content, counted, shown, left, cuts>>
      /\ \E m \in Models \cup {NoModel} : usages' = [usages EXCEPT ![t].asked = m]
      /\ \/ /\ phase[t] = "idle" /\ phase' = [phase EXCEPT ![t] = "queued"]
            /\ kind'[t] # "image" /\ UNCHANGED jobs
         \/ /\ phase[t] = "idle" /\ phase' = [phase EXCEPT ![t] = "reserving"]
            /\ kind'[t] = "image" /\ jobs' = [jobs EXCEPT ![t] = {"reserve"}]
         \/ /\ phase' = [phase EXCEPT ![t] = "over"] /\ UNCHANGED <<kind, jobs>>
      /\ \E k \in {"chat", "task", "image"} : kind' = [kind EXCEPT ![t] = k]
  <2>1. ASSUME NEW k \in {"chat", "task"}, NEW m \in Models, Arrive(t, k, m)
        PROVE  /\ usages' = [usages EXCEPT ![t].asked = IF k = "task" THEN NoModel ELSE m]
               /\ kind' = [kind EXCEPT ![t] = k] /\ kind'[t] = k
               /\ phase[t] = "idle" /\ phase' = [phase EXCEPT ![t] = "queued"] /\ UNCHANGED jobs
               /\ UNCHANGED <<rules, windows, ended, opened, lease, content, counted, shown,
                              left, cuts>>
    BY <1>1, <2>1 DEF Arrive, MeteringTypeOK
  <2>2. ASSUME NEW m \in Models, ArriveImage(t, m)
        PROVE  /\ usages' = [usages EXCEPT ![t].asked = m]
               /\ kind' = [kind EXCEPT ![t] = "image"] /\ kind'[t] = "image"
               /\ phase[t] = "idle" /\ phase' = [phase EXCEPT ![t] = "reserving"]
               /\ jobs' = [jobs EXCEPT ![t] = {"reserve"}]
               /\ UNCHANGED <<rules, windows, ended, opened, lease, content, counted, shown,
                              left, cuts>>
    BY <1>1, <2>2 DEF ArriveImage, MeteringTypeOK
  <2>3. ASSUME TurnAway(t)
        PROVE  /\ usages' = [usages EXCEPT ![t].asked = NoModel] /\ UNCHANGED jobs
               /\ kind' = [kind EXCEPT ![t] = kind[t]] /\ UNCHANGED kind
               /\ phase' = [phase EXCEPT ![t] = "over"]
               /\ kind[t] \in {"chat", "task", "image"}
               /\ UNCHANGED <<rules, windows, ended, opened, lease, content, counted, shown,
                              left, cuts>>
    BY <1>1, <2>3 DEF TurnAway, MeteringTypeOK
  <2> QED
    BY <2>1, <2>2, <2>3
<1>3. MeteringTypeOK'
  <2>1. PICK m \in Models \cup {NoModel} : usages' = [usages EXCEPT ![t].asked = m]
    BY <1>2
  <2>2. [usages[t] EXCEPT !.asked = m] \in Usage
    BY <1>1 DEF Usage
  <2>3. usages' \in [Turns -> Usage]
    BY <1>1, <2>1, <2>2 DEF MeteringTypeOK
  <2> QED
    BY <1>1, <1>2, <2>3 DEF MeteringTypeOK, Phase
<1>4. usages'[t].status = usages[t].status /\ usages'[t].old = usages[t].old
  BY <1>1, <1>2 DEF MeteringTypeOK, Usage
<1>5. OthersKept(t)
  BY <1>1, <1>2 DEF OthersKept, SameHandler, CleanedAt, MeteringTypeOK
<1>6. TurnOK(t)'
  BY <1>1, <1>2, <1>4 DEF MeteringTypeOK, TurnOK, ReservesOnce, NothingYet, KindKept,
     HasReservation, CountsContent, TurnSettled
<1> QED
  BY <1>1, <1>3, <1>5, <1>6, OneTurnSteps

\* The stream or the reply ends, or its handler is cut off while it counts.
LEMMA EndStep ==
    ASSUME MeteringAssumption, MeteringInv, NEW t \in Turns, Ends(t) \/ CutCounting(t)
    PROVE  MeteringInv'
<1> USE DEF windowVars
<1>1. /\ MeteringTypeOK /\ TurnOK(t) /\ usages[t] \in Usage
      /\ jobs[t] \subseteq {"reserve", "commit", "release"} /\ MaxCuts \in Nat
  BY DEF MeteringInv, MeteringTypeOK, MeteringAssumption
<1>2. /\ phase[t] \in {"asking", "streaming", "shown", "counting", "committing"}
      /\ UNCHANGED <<rules, windows, ended, opened, usages, kind, content, counted, shown, left>>
      /\ cuts' \in 0 .. MaxCuts
      /\ \/ /\ kind[t] = "task" \/ t \in counted
            /\ phase' = [phase EXCEPT ![t] = "over"] /\ lease' = lease \ {t}
         \/ /\ kind[t] # "task" /\ t \notin counted
            /\ phase' = [phase EXCEPT ![t] = "closing"] /\ UNCHANGED lease
  BY <1>1 DEF Ends, CutCounting, Completed, Complete, Goto, Cut, MeteringTypeOK
<1>3. \E still \in SUBSET jobs[t] :
         jobs' = [jobs EXCEPT ![t] = IF phase'[t] = "closing" THEN still \cup {"release"} ELSE still]
  <2>1. CASE Ends(t)
    <3>1. jobs' = [jobs EXCEPT ![t] = IF phase'[t] = "closing" THEN jobs[t] \cup {"release"}
                                      ELSE jobs[t]]
      BY <1>1, <2>1 DEF Ends, Completed, MeteringTypeOK
    <3> QED
      BY <3>1
  <2>2. CASE CutCounting(t)
    BY <2>2 DEF CutCounting
  <2> QED
    BY <2>1, <2>2
<1>4. PICK still \in SUBSET jobs[t] :
         jobs' = [jobs EXCEPT ![t] = IF phase'[t] = "closing" THEN still \cup {"release"} ELSE still]
  BY <1>3
<1>5. jobs'[t] \subseteq jobs[t] \cup {"release"}
  BY <1>1, <1>4 DEF MeteringTypeOK
<1>6. MeteringTypeOK'
  <2>1. jobs' \in [Turns -> SUBSET {"reserve", "commit", "release"}]
    BY <1>1, <1>4 DEF MeteringTypeOK
  <2> QED
    BY <1>1, <1>2, <2>1 DEF MeteringTypeOK, Phase
<1>7. OthersKept(t)
  BY <1>1, <1>2, <1>4 DEF OthersKept, SameHandler, CleanedAt, MeteringTypeOK
<1>8. phase'[t] = "over" \/ phase'[t] = "closing"
  BY <1>1, <1>2 DEF MeteringTypeOK
<1>9. TurnOK(t)'
  BY <1>1, <1>2, <1>5, <1>8 DEF MeteringTypeOK, TurnOK, ReservesOnce, NothingYet, KindKept,
     HasReservation, CountsContent, TurnSettled
<1> QED
  BY <1>1, <1>6, <1>7, <1>9, OneTurnSteps

LEMMA ClampedUnits ==
    ASSUME MeteringAssumption
    PROVE  1 \in 1 .. MaxUnits /\ \A n \in Reports : Clamped(n) \in 1 .. MaxUnits
BY DEF MeteringAssumption, Clamped

LEMMA FinalizedRow ==
    ASSUME MeteringTypeOK, NEW t \in Turns, NEW status \in {"committed", "released"},
           NEW n \in 1 .. MaxUnits, Finalized(t, status, n)
    PROVE  /\ usages' \in [Turns -> Usage]
           /\ \A u \in Turns : u # t => usages'[u] = usages[u]
           /\ usages'[t].old = usages[t].old /\ usages'[t].window = usages[t].window
           /\ usages'[t].status = IF usages[t].status = "reserved" THEN status
                                  ELSE usages[t].status
           /\ usages[t].status # "reserved" => usages' = usages
<1> DEFINE row == [usages[t] EXCEPT !.status = status, !.units = n]
<1>1. usages \in [Turns -> Usage] /\ usages[t] \in Usage
  BY DEF MeteringTypeOK
<1>2. /\ row \in Usage /\ row.old = usages[t].old /\ row.status = status
      /\ row.window = usages[t].window
  BY <1>1 DEF Usage
<1>3. CASE usages[t].status = "reserved"
  <2>1. usages' = [usages EXCEPT ![t] = row]
    BY <1>3 DEF Finalized
  <2> HIDE DEF row
  <2> QED
    BY <1>1, <1>2, <1>3, <2>1
<1>4. CASE usages[t].status # "reserved"
  BY <1>1, <1>4 DEF Finalized
<1> QED
  BY <1>3, <1>4

\* A thread settles the row.
LEMMA SettleStep ==
    ASSUME MeteringAssumption, MeteringInv, NEW t \in Turns, Commit(t) \/ Release(t)
    PROVE  MeteringInv'
<1> USE DEF windowVars, Goto, Drop
<1>1. /\ MeteringTypeOK /\ TurnOK(t) /\ usages[t] \in Usage
      /\ jobs[t] \subseteq {"reserve", "commit", "release"}
  BY DEF MeteringInv, MeteringTypeOK
<1>2. ASSUME Commit(t)
      PROVE  /\ \E n \in 1 .. MaxUnits : Finalized(t, "committed", n)
             /\ "commit" \in jobs[t] /\ jobs' = [jobs EXCEPT ![t] = jobs[t] \ {"commit"}]
             /\ \/ /\ phase[t] = "committing" /\ phase' = [phase EXCEPT ![t] = "shown"]
                   /\ counted' = counted \cup {t} /\ shown' = shown \cup {t}
                \/ /\ \/ kind[t] = "image" /\ phase' = [phase EXCEPT ![t] = "over"]
                      \/ phase[t] # "committing" /\ phase' = [phase EXCEPT ![t] = phase[t]]
                   /\ UNCHANGED <<counted, shown>>
             /\ UNCHANGED <<rules, windows, ended, opened, kind, lease, content, left, cuts>>
  <2>1. \E n \in 1 .. MaxUnits : Finalized(t, "committed", n)
    BY <1>2, ClampedUnits DEF Commit
  <2>2. /\ "commit" \in jobs[t] /\ jobs' = [jobs EXCEPT ![t] = jobs[t] \ {"commit"}]
        /\ UNCHANGED <<rules, windows, ended, opened, kind, lease, content, left, cuts>>
    BY <1>2 DEF Commit
  <2>3. \/ /\ phase[t] = "committing" /\ phase' = [phase EXCEPT ![t] = "shown"]
           /\ counted' = counted \cup {t} /\ shown' = shown \cup {t}
        \/ /\ \/ kind[t] = "image" /\ phase' = [phase EXCEPT ![t] = "over"]
              \/ phase[t] # "committing" /\ phase' = [phase EXCEPT ![t] = phase[t]]
           /\ UNCHANGED <<counted, shown>>
    BY <1>2 DEF Commit
  <2> QED
    BY <2>1, <2>2, <2>3
<1>3. ASSUME Release(t)
      PROVE  /\ \E n \in 1 .. MaxUnits : Finalized(t, "released", n)
             /\ "release" \in jobs[t] /\ jobs' = [jobs EXCEPT ![t] = jobs[t] \ {"release"}]
             /\ phase' = [phase EXCEPT ![t] = "over"] /\ lease' = lease \ {t}
             /\ UNCHANGED <<rules, windows, ended, opened, kind, content, counted, shown, left,
                            cuts>>
    BY <1>3, ClampedUnits DEF Release
<1>4. ASSUME Commit(t) PROVE MeteringInv'
  <2>1. PICK n \in 1 .. MaxUnits : Finalized(t, "committed", n)
    BY <1>2, <1>4
  <2>2. /\ usages' \in [Turns -> Usage]
        /\ \A u \in Turns : u # t => usages'[u] = usages[u]
        /\ usages'[t].old = usages[t].old
        /\ usages'[t].status = IF usages[t].status = "reserved" THEN "committed"
                               ELSE usages[t].status
    BY <1>1, <2>1, FinalizedRow
  <2>3. phase[t] \in Phase
    BY <1>1 DEF MeteringTypeOK
  <2>4. phase' \in [Turns -> Phase] /\ counted' \subseteq Turns /\ shown' \subseteq Turns
    BY <1>1, <1>2, <1>4, <2>3 DEF MeteringTypeOK, Phase
  <2>5. MeteringTypeOK'
    BY <1>1, <1>2, <1>4, <2>2, <2>4 DEF MeteringTypeOK
  <2>6. OthersKept(t)
    BY <1>1, <1>2, <1>4, <2>2 DEF OthersKept, SameHandler, CleanedAt, MeteringTypeOK
  <2>7. /\ kind' = kind /\ lease' = lease /\ content' = content /\ left' = left
        /\ jobs'[t] = jobs[t] \ {"commit"} /\ "commit" \in jobs[t]
    BY <1>1, <1>2, <1>4 DEF MeteringTypeOK
  <2>8. CASE /\ phase[t] = "committing" /\ phase' = [phase EXCEPT ![t] = "shown"]
             /\ counted' = counted \cup {t} /\ shown' = shown \cup {t}
    <3>1. phase'[t] = "shown"
      BY <1>1, <2>8 DEF MeteringTypeOK
    <3> QED
      BY <1>1, <2>2, <2>5, <2>6, <2>7, <2>8, <3>1, OneTurnSteps DEF TurnOK, ReservesOnce,
         NothingYet, KindKept, HasReservation, CountsContent, TurnSettled
  <2>9. CASE /\ \/ kind[t] = "image" /\ phase' = [phase EXCEPT ![t] = "over"]
                \/ phase[t] # "committing" /\ phase' = [phase EXCEPT ![t] = phase[t]]
             /\ UNCHANGED <<counted, shown>>
    <3>1. \/ kind[t] = "image" /\ phase'[t] = "over"
          \/ phase[t] # "committing" /\ phase'[t] = phase[t]
      BY <1>1, <2>9 DEF MeteringTypeOK
    <3>2. TurnOK(t)'
      BY <1>1, <2>2, <2>7, <2>9, <3>1 DEF TurnOK, ReservesOnce, NothingYet, KindKept,
         HasReservation, CountsContent, TurnSettled
    <3> QED
      BY <2>5, <2>6, <3>2, OneTurnSteps
  <2> QED
    BY <1>2, <1>4, <2>8, <2>9
<1>5. ASSUME Release(t) PROVE MeteringInv'
  <2>1. PICK n \in 1 .. MaxUnits : Finalized(t, "released", n)
    BY <1>3, <1>5
  <2>2. /\ usages' \in [Turns -> Usage]
        /\ \A u \in Turns : u # t => usages'[u] = usages[u]
        /\ usages'[t].old = usages[t].old
        /\ usages'[t].status = IF usages[t].status = "reserved" THEN "released"
                               ELSE usages[t].status
    BY <1>1, <2>1, FinalizedRow
  <2>3. phase' \in [Turns -> Phase] /\ phase'[t] = "over"
    BY <1>1, <1>3, <1>5 DEF MeteringTypeOK, Phase
  <2>4. MeteringTypeOK'
    BY <1>1, <1>3, <1>5, <2>2, <2>3 DEF MeteringTypeOK
  <2>5. OthersKept(t)
    BY <1>1, <1>3, <1>5, <2>2 DEF OthersKept, SameHandler, CleanedAt, MeteringTypeOK
  <2>6. /\ UNCHANGED <<kind, content, counted, shown, left>> /\ lease' = lease \ {t}
        /\ jobs'[t] = jobs[t] \ {"release"} /\ "release" \in jobs[t]
    BY <1>1, <1>3, <1>5 DEF MeteringTypeOK
  <2>7. TurnOK(t)'
    BY <1>1, <2>2, <2>3, <2>6 DEF TurnOK, ReservesOnce, NothingYet, KindKept,
       HasReservation, CountsContent, TurnSettled
  <2> QED
    BY <2>4, <2>5, <2>7, OneTurnSteps
<1> QED
  BY <1>4, <1>5

\* A thread reserves, or is refused.
LEMMA ReserveStep ==
    ASSUME MeteringAssumption, MeteringInv, NEW t \in Turns,
           Reserve(t) \/ Refuse(t)
    PROVE  MeteringInv'
<1> USE DEF windowVars, Goto, Drop
<1>1. /\ MeteringTypeOK /\ TurnOK(t) /\ usages[t] \in Usage
      /\ jobs[t] \subseteq {"reserve", "commit", "release"} /\ "reserve" \in jobs[t]
      /\ usages[t].status = "none" /\ MaxUnits \in Nat \ {0} /\ MaxWindows \in Nat
  BY DEF MeteringInv, MeteringTypeOK, TurnOK, ReservesOnce, Reserve, Refuse, MeteringAssumption
<1>2. ASSUME Refuse(t) PROVE MeteringInv'
  <2>1. /\ jobs' = [jobs EXCEPT ![t] = jobs[t] \ {"reserve"}]
        /\ phase' = [phase EXCEPT ![t] = "over"] /\ lease' = lease \ {t}
        /\ usages' = [usages EXCEPT ![t].asked = NoModel]
        /\ UNCHANGED <<rules, windows, ended, opened, kind, content, counted, shown, left, cuts>>
    BY <1>2 DEF Refuse
  <2>2. /\ usages' \in [Turns -> Usage] /\ usages'[t].status = "none"
        /\ usages'[t].old = usages[t].old
        /\ \A u \in Turns : u # t => usages'[u] = usages[u]
    BY <1>1, <2>1 DEF MeteringTypeOK, Usage
  <2>3. MeteringTypeOK'
    BY <1>1, <2>1, <2>2 DEF MeteringTypeOK, Phase
  <2>4. OthersKept(t)
    BY <1>1, <2>1, <2>2 DEF OthersKept, SameHandler, CleanedAt, MeteringTypeOK
  <2>5. TurnOK(t)'
    BY <1>1, <2>1, <2>2 DEF MeteringTypeOK, TurnOK, ReservesOnce, NothingYet, KindKept,
       HasReservation, CountsContent, TurnSettled
  <2> QED
    BY <2>3, <2>4, <2>5, OneTurnSteps
<1>3. ASSUME Reserve(t) PROVE MeteringInv'
  <2>1. PICK m \in Effective(usages[t].asked, Cleaned(usages)) : Reserved(t, m)
    BY <1>3 DEF Reserve
  <2>2. m \in Models
    BY <2>1 DEF Effective
  <2>3. /\ jobs' = [jobs EXCEPT ![t] = jobs[t] \ {"reserve"}]
        /\ phase' = [phase EXCEPT ![t] = IF phase[t] = "reserving" THEN "asking" ELSE "over"]
        /\ UNCHANGED <<rules, kind, lease, content, counted, shown, left, cuts>>
    BY <1>3 DEF Reserve
  <2> DEFINE fresh == Limited(m) /\ CurrentWindow(m) = 0
  <2>4. /\ fresh => opened < MaxWindows
        /\ opened' = IF fresh THEN opened + 1 ELSE opened
        /\ windows' = [x \in Models |-> IF x = m /\ fresh THEN opened + 1 ELSE CurrentWindow(x)]
        /\ ended' = {x \in ended : ~Limited(x)}
    BY <2>1 DEF Reserved
  <2>5. opened' \in 0 .. MaxWindows /\ windows' \in [Models -> 0 .. opened']
    <3>1. opened \in 0 .. MaxWindows /\ \A x \in Models : CurrentWindow(x) \in 0 .. opened
      BY <1>1 DEF MeteringTypeOK, CurrentWindow
    <3> HIDE DEF fresh
    <3>2. opened' \in 0 .. MaxWindows
      BY <1>1, <2>4, <3>1
    <3>3. \A x \in Models : windows'[x] \in 0 .. opened'
      BY <1>1, <2>4, <3>1
    <3> QED
      BY <2>4, <3>2, <3>3
  <2> DEFINE w == IF Limited(m) THEN windows'[m] ELSE 0
             new == [Cleaned(usages)[t] EXCEPT !.status = "reserved", !.model = m,
                                               !.asked = NoModel, !.window = w]
  <2>6. w \in 0 .. MaxWindows
    <3>1. windows'[m] \in 0 .. opened' /\ 0 \in 0 .. MaxWindows
      BY <1>1, <2>2, <2>5
    <3> QED
      BY <1>1, <2>5, <3>1
  <2>7. usages' = [Cleaned(usages) EXCEPT ![t] = new]
    BY <1>1, <2>1, CleanedRows DEF Reserved
  <2> HIDE DEF w
  <2>8. new \in Usage /\ new.status = "reserved" /\ new.old = usages[t].old
    BY <1>1, <2>2, <2>6, CleanedRows DEF Usage
  <2> HIDE DEF new
  <2>9. /\ usages' \in [Turns -> Usage] /\ usages'[t].status = "reserved"
        /\ usages'[t].old = usages[t].old
        /\ \A u \in Turns : u # t => CleanedAt(u)
    <3>1. /\ \A u \in Turns : Cleaned(usages)[u] \in Usage
          /\ Cleaned(usages) = [u \in Turns |-> Cleaned(usages)[u]]
      BY <1>1, CleanedRows
    <3>2. /\ usages' \in [Turns -> Usage] /\ usages'[t] = new
          /\ \A u \in Turns : u # t => usages'[u] = Cleaned(usages)[u]
      BY <2>7, <2>8, <3>1
    <3>3. ASSUME NEW u \in Turns, u # t PROVE CleanedAt(u)
      BY <1>1, <3>2, <3>3, CleanedRows DEF CleanedAt
    <3> QED
      BY <2>8, <3>2, <3>3
  <2>10. MeteringTypeOK'
    BY <1>1, <2>3, <2>4, <2>5, <2>9 DEF MeteringTypeOK, Phase
  <2>11. OthersKept(t)
    BY <1>1, <2>3, <2>9 DEF OthersKept, SameHandler, MeteringTypeOK
  <2>12. TurnOK(t)'
    <3>1. /\ phase'[t] = IF phase[t] = "reserving" THEN "asking" ELSE "over"
          /\ jobs'[t] = jobs[t] \ {"reserve"}
      BY <1>1, <2>3 DEF MeteringTypeOK
    <3> QED
      BY <1>1, <2>3, <2>9, <3>1 DEF TurnOK, ReservesOnce, NothingYet, KindKept,
       HasReservation, CountsContent, TurnSettled
  <2> QED
    BY <2>10, <2>11, <2>12, OneTurnSteps
<1> QED
  BY <1>2, <1>3

\* What happens to the allowance meanwhile.
LEMMA AllowanceStep ==
    ASSUME MeteringAssumption, MeteringInv,
           \/ \E t \in Turns : GrowsOld(t)
           \/ \E m \in Models : WindowEnds(m)
           \/ SetRules \/ ResetWindows \/ QuotaSummary
    PROVE  MeteringInv'
<1> USE DEF windowVars, handlerVars
<1>1. MeteringTypeOK /\ opened \in 0 .. MaxWindows /\ MaxWindows \in Nat
  BY DEF MeteringInv, MeteringTypeOK, MeteringAssumption
<1>2. ASSUME NEW t \in Turns, GrowsOld(t) PROVE MeteringInv'
  <2>1. /\ usages[t].status = "reserved" /\ usages[t] \in Usage
        /\ usages' = [usages EXCEPT ![t].old = TRUE]
        /\ UNCHANGED <<rules, windows, ended, opened, handlerVars>>
    BY <1>1, <1>2 DEF GrowsOld, MeteringTypeOK
  <2>2. /\ usages' \in [Turns -> Usage] /\ usages'[t].status = "reserved"
        /\ usages'[t].old /\ \A u \in Turns : u # t => usages'[u] = usages[u]
    BY <1>1, <2>1 DEF MeteringTypeOK, Usage
  <2>3. MeteringTypeOK'
    BY <1>1, <2>1, <2>2 DEF MeteringTypeOK
  <2>4. OthersKept(t)
    BY <2>1, <2>2 DEF OthersKept, SameHandler, CleanedAt
  <2>5. TurnOK(t)'
    BY <2>1, <2>2 DEF MeteringInv, TurnOK, ReservesOnce, NothingYet, KindKept,
       HasReservation, CountsContent, TurnSettled
  <2> QED
    BY <2>3, <2>4, <2>5, OneTurnSteps
<1>3. CASE (\E m \in Models : WindowEnds(m)) \/ SetRules \/ ResetWindows \/ QuotaSummary
  <2>1. UNCHANGED <<opened, handlerVars>>
    BY <1>3 DEF WindowEnds, SetRules, ResetWindows, QuotaSummary
  <2>2. usages' \in [Turns -> Usage] /\ \A t \in Turns : CleanedAt(t)
    <3>1. CASE usages' = usages
      BY <1>1, <3>1 DEF CleanedAt, MeteringTypeOK
    <3>2. CASE usages' = Cleaned(usages)
      <4>1. \A u \in Turns : Cleaned(usages)[u] \in Usage
        BY <1>1, CleanedRows
      <4>11. Cleaned(usages) = [u \in Turns |-> Cleaned(usages)[u]]
        BY DEF Cleaned
      <4>2. usages' \in [Turns -> Usage]
        BY <3>2, <4>1, <4>11
      <4>3. ASSUME NEW t \in Turns PROVE CleanedAt(t)
        BY <1>1, <3>2, CleanedRows DEF CleanedAt
      <4> QED
        BY <4>2, <4>3
    <3> QED
      BY <1>3, <3>1, <3>2 DEF WindowEnds, SetRules, ResetWindows, QuotaSummary
  <2>3. rules' \in Policies
    BY <1>1, <1>3 DEF WindowEnds, SetRules, ResetWindows, QuotaSummary, MeteringTypeOK
  <2>4. ended' \subseteq Models
    BY <1>1, <1>3 DEF WindowEnds, SetRules, ResetWindows, QuotaSummary, MeteringTypeOK
  <2>5. windows' \in [Models -> 0 .. opened]
    <3>1. windows \in [Models -> 0 .. opened] /\ 0 \in 0 .. opened
      BY <1>1 DEF MeteringTypeOK
    <3>2. CASE ResetWindows
      <4>1. PICK chosen \in {Models} \cup {{m} : m \in Models} :
               windows' = [m \in Models |-> IF m \in chosen THEN 0 ELSE windows[m]]
        BY <3>2 DEF ResetWindows
      <4> QED
        BY <3>1, <4>1
    <3>3. CASE QuotaSummary
      BY <3>1, <3>3 DEF QuotaSummary, CurrentWindow
    <3>4. CASE (\E m \in Models : WindowEnds(m)) \/ SetRules
      BY <3>1, <3>4 DEF WindowEnds, SetRules
    <3> QED
      BY <1>3, <3>2, <3>3, <3>4
  <2>6. MeteringTypeOK'
    BY <1>1, <2>1, <2>2, <2>3, <2>4, <2>5 DEF MeteringTypeOK
  <2>7. ASSUME NEW t \in Turns PROVE TurnOK(t)'
    <3>1. usages[t] \in Usage /\ TurnOK(t) /\ SameHandler(t) /\ CleanedAt(t)
      BY <1>1, <2>1, <2>2 DEF MeteringInv, MeteringTypeOK, SameHandler
    <3> QED
      BY <3>1, OtherTurn
  <2> QED
    BY <2>6, <2>7 DEF MeteringInv
<1> QED
  BY <1>2, <1>3

LEMMA MeteringStep ==
    ASSUME MeteringAssumption, MeteringInv, [MeteringNext]_meteringVars
    PROVE  MeteringInv'
<1>1. ASSUME NEW t \in Turns, Threads(t) PROVE MeteringInv'
  BY <1>1, ReserveStep, SettleStep DEF Threads
<1>2. ASSUME NEW t \in Turns, Handler(t) PROVE MeteringInv'
  BY <1>2, HandlerStep, ArrivalStep, EndStep DEF Handler
<1>3. ASSUME NEW t \in Turns, Cuts(t) PROVE MeteringInv'
  BY <1>3, HandlerStep, EndStep DEF Cuts
<1>4. CASE \/ \E t \in Turns : GrowsOld(t)
           \/ \E m \in Models : WindowEnds(m)
           \/ SetRules \/ ResetWindows \/ QuotaSummary
  BY <1>4, AllowanceStep
<1>5. CASE UNCHANGED meteringVars
  <2>1. MeteringTypeOK'
    BY <1>5 DEF meteringVars, MeteringInv, MeteringTypeOK
  <2>2. ASSUME NEW t \in Turns PROVE TurnOK(t)'
    <3>1. TurnOK(t) /\ usages[t] \in Usage /\ SameHandler(t) /\ CleanedAt(t)
      BY <1>5 DEF meteringVars, MeteringInv, MeteringTypeOK, SameHandler, CleanedAt
    <3> QED
      BY <3>1, OtherTurn
  <2> QED
    BY <2>1, <2>2 DEF MeteringInv
<1> QED
  BY <1>1, <1>2, <1>3, <1>4, <1>5 DEF MeteringNext

LEMMA MeteringInvariant ==
    ASSUME MeteringAssumption PROVE MeteringSpec => []MeteringInv
<1>1. MeteringInit => MeteringInv
  BY MeteringStart
<1>2. MeteringInv /\ [MeteringNext]_meteringVars => MeteringInv'
  BY MeteringStep
<1> QED
  BY <1>1, <1>2, PTL DEF MeteringSpec

\* Whatever threads outlive their requests and wherever a turn is cut off, what
\* is shown has been charged (unless the reservation was an hour old), what is
\* charged was shown to begin, and neither a lease nor a reservation stays
\* behind but where the code does not see the cut (metering.py, store.py).
THEOREM TurnsAreSettled ==
    ASSUME MeteringAssumption PROVE MeteringSpec => []TurnsSettled
<1>1. MeteringInv => TurnsSettled
  BY DEF MeteringInv, TurnOK, TurnSettled, TurnsSettled, ChargedForContent, ShownIsCounted,
     LeaseReturned, OwnedOrCut, MeteringTypeOK
<1> QED
  BY <1>1, MeteringInvariant, PTL

\* One verdict per turn: a late commit or release of a thread changes nothing,
\* neither does any other request of the user (store.py, finalize).
THEOREM VerdictsStand ==
    ASSUME MeteringAssumption PROVE MeteringSpec => SettledOnce
<1>1. MeteringInv /\ [MeteringNext]_meteringVars =>
         [\A t \in Turns : usages[t].status \in {"committed", "released"}
                            => usages'[t] = usages[t]]_meteringVars
  <2> SUFFICES ASSUME MeteringInv, MeteringNext, NEW t \in Turns,
                      usages[t].status \in {"committed", "released"}
               PROVE  usages'[t] = usages[t]
    OBVIOUS
  <2>1. MeteringTypeOK /\ \A u \in Turns : TurnOK(u)
    BY DEF MeteringInv
  <2>2. Cleaned(usages)[t] = usages[t]
    BY <2>1, CleanedRows
  <2>3. ASSUME NEW u \in Turns, Threads(u) PROVE usages'[t] = usages[t]
    <3>1. CASE Reserve(u)
      <4>1. u # t
        BY <2>1, <3>1 DEF Reserve, TurnOK, ReservesOnce
      <4>2. PICK m : Reserved(u, m)
        BY <3>1 DEF Reserve
      <4>3. usages'[t] = Cleaned(usages)[t]
        BY <4>1, <4>2 DEF Reserved, Cleaned
      <4> QED
        BY <2>2, <4>3
    <3>2. CASE Refuse(u)
      BY <2>1, <3>2 DEF Refuse, TurnOK, ReservesOnce, MeteringTypeOK
    <3>3. CASE Commit(u)
      <4>1. PICK n \in 1 .. MaxUnits : Finalized(u, "committed", n)
        BY <3>3, ClampedUnits DEF Commit
      <4> QED
        BY <2>1, <4>1, FinalizedRow
    <3>4. CASE Release(u)
      <4>1. PICK n \in 1 .. MaxUnits : Finalized(u, "released", n)
        BY <3>4, ClampedUnits DEF Release
      <4> QED
        BY <2>1, <4>1, FinalizedRow
    <3> QED
      BY <2>3, <3>1, <3>2, <3>3, <3>4 DEF Threads
  <2>4. ASSUME NEW u \in Turns, Handler(u) \/ Cuts(u) PROVE usages'[t] = usages[t]
    <3>1. CASE usages' = usages
      BY <3>1
    <3>2. ASSUME \/ \E k \in {"chat", "task"}, m \in Models : Arrive(u, k, m)
                 \/ \E m \in Models : ArriveImage(u, m)
                 \/ TurnAway(u)
          PROVE  usages'[t] = usages[t]
      <4>1. phase[u] \in {"idle", "queued"} /\ \E m : usages' = [usages EXCEPT ![u].asked = m]
        BY <3>2 DEF Arrive, ArriveImage, TurnAway
      <4>2. u # t
        BY <2>1, <4>1 DEF TurnOK, NothingYet
      <4> QED
        BY <2>1, <4>1, <4>2 DEF MeteringTypeOK
    <3> QED
      BY <2>4, <3>1, <3>2 DEF Handler, Cuts, Admit, Answered, Iterate, FirstContent,
         RecordFirstContent, Ends, ImageEnds, CutReserving, CutOpen, CutCounting, CutClosing
  <2>5. ASSUME NEW u \in Turns, GrowsOld(u) PROVE usages'[t] = usages[t]
    BY <2>1, <2>5 DEF GrowsOld, MeteringTypeOK
  <2>6. CASE (\E m \in Models : WindowEnds(m)) \/ SetRules \/ ResetWindows \/ QuotaSummary
    BY <2>2, <2>6 DEF WindowEnds, SetRules, ResetWindows, QuotaSummary
  <2> QED
    BY <2>3, <2>4, <2>5, <2>6 DEF MeteringNext
<1> QED
  BY <1>1, MeteringInvariant, PTL DEF MeteringSpec, SettledOnce

-----------------------------------------------------------------------------
(***************************************************************************)
(* Chat metering: the allowance.  First sums over finite sets: a recursive *)
(* function exists, and has a property, because there is no least set it   *)
(* fails on (LeastNumber).                                                 *)
(***************************************************************************)
LEMMA LeastNumber ==
    ASSUME NEW T, T \subseteq Nat, T # {}
    PROVE  \E n \in T : \A m \in T : n <= m
<1> DEFINE Below == {0 .. n : n \in T}
<1>1. Below \subseteq FiniteSubsetsOf(Nat) /\ Below # {}
    <2>1. ASSUME NEW n \in T PROVE 0 .. n \in FiniteSubsetsOf(Nat)
        <3>1. n \in Int /\ 0 \in Int /\ 0 .. n \in SUBSET Nat
            OBVIOUS
        <3> QED BY <3>1, FS_Interval DEF FiniteSubsetsOf
    <2> QED BY <2>1
<1>2. PICK x \in Below : \A y \in Below : <<y, x>> \notin StrictSubsetOrdering(Nat)
    <2> HIDE DEF Below
    <2> QED BY <1>1, FS_StrictSubsetOrderingWellFounded, WFMin
<1>3. PICK n \in T : x = 0 .. n
    OBVIOUS
<1>4. ASSUME NEW m \in T, m < n
      PROVE  FALSE
    <2>1. 0 .. m \in Below /\ 0 .. m \in SUBSET Nat /\ x \in SUBSET Nat
        BY <1>3
    <2>2. 0 .. m \subseteq x /\ n \in x /\ n \notin 0 .. m
        BY <1>3, <1>4
    <2> HIDE DEF Below
    <2> QED BY <1>2, <2>1, <2>2 DEF StrictSubsetOrdering
<1> QED BY <1>4

OneOf(s) == CHOOSE x \in s : TRUE

\* The values of a sum on the subsets of a set with at most n elements.
Small(S, n) == {s \in SUBSET S : Cardinality(s) <= n}
Sums(g, f, D) ==
    g = [s \in D |-> IF s = {} THEN 0 ELSE f[OneOf(s)] + g[s \ {OneOf(s)}]]

LEMMA Removed ==
    ASSUME NEW S, IsFiniteSet(S), NEW s \in SUBSET S, s # {}
    PROVE  /\ OneOf(s) \in s /\ OneOf(s) \in S /\ s \ {OneOf(s)} \in SUBSET S
           /\ Cardinality(s) \in Nat \ {0}
           /\ Cardinality(s \ {OneOf(s)}) = Cardinality(s) - 1
<1>1. OneOf(s) \in s
    BY DEF OneOf
<1>2. IsFiniteSet(s)
    BY FS_Subset
<1> QED BY <1>1, <1>2, FS_RemoveElement, FS_CardinalityType, FS_EmptySet

LEMMA SumExists ==
    ASSUME NEW S, IsFiniteSet(S), NEW f
    PROVE  \E g : Sums(g, f, SUBSET S)
<1> DEFINE Has(n) == \E g : Sums(g, f, Small(S, n))
           Lacking == {n \in Nat : ~Has(n)}
<1>1. Has(0)
    <2> DEFINE g == [s \in Small(S, 0) |-> 0]
    <2>1. \A s \in Small(S, 0) : s = {}
        <3> SUFFICES ASSUME NEW s \in SUBSET S, Cardinality(s) <= 0, s # {}
                     PROVE  FALSE
            BY DEF Small
        <3>1. Cardinality(s) \in Nat \ {0}
            BY Removed
        <3> QED BY <3>1
    <2>2. Sums(g, f, Small(S, 0))
        BY <2>1 DEF Sums
    <2> QED BY <2>2
<1>2. ASSUME NEW n \in Nat, Has(n)
      PROVE  Has(n + 1)
    <2>1. PICK g : Sums(g, f, Small(S, n))
        BY <1>2
    <2> DEFINE h == [s \in Small(S, n + 1) |->
                        IF s = {} THEN 0
                        ELSE IF s \in Small(S, n) THEN g[s] ELSE f[OneOf(s)] + g[s \ {OneOf(s)}]]
    <2>2. ASSUME NEW s \in Small(S, n + 1)
          PROVE  h[s] = IF s = {} THEN 0 ELSE f[OneOf(s)] + h[s \ {OneOf(s)}]
        <3>1. CASE s = {}
            BY <3>1
        <3>2. CASE s # {}
            <4> DEFINE r == s \ {OneOf(s)}
            <4>1. s \in SUBSET S /\ r \in Small(S, n) /\ r \in Small(S, n + 1)
                BY <3>2, Removed, FS_CardinalityType, FS_Subset DEF Small
            <4>2. h[s] = f[OneOf(s)] + g[r]
                <5>1. CASE s \in Small(S, n)
                    BY <2>1, <3>2, <5>1 DEF Sums
                <5>2. CASE s \notin Small(S, n)
                    BY <3>2, <5>2
                <5> QED BY <5>1, <5>2
            <4>3. h[r] = g[r]
                <5>1. CASE r = {}
                    BY <2>1, <4>1, <5>1 DEF Sums
                <5>2. CASE r # {}
                    BY <4>1, <5>2
                <5> QED BY <5>1, <5>2
            <4> QED BY <3>2, <4>2, <4>3
        <3> QED BY <3>1, <3>2
    <2>3. h = [s \in Small(S, n + 1) |-> h[s]]
        OBVIOUS
    <2> HIDE DEF h
    <2>4. Sums(h, f, Small(S, n + 1))
        BY <2>2, <2>3 DEF Sums
    <2> QED BY <2>4
<1>3. Lacking = {}
    <2> SUFFICES ASSUME Lacking # {}
                 PROVE  FALSE
        OBVIOUS
    <2>1. Lacking \subseteq Nat
        OBVIOUS
    <2> HIDE DEF Has
    <2>2. PICK n \in Lacking : \A m \in Lacking : n <= m
        BY <2>1, LeastNumber
    <2>3. n # 0
        BY <1>1, <2>2
    <2>4. n - 1 \in Nat /\ n - 1 \notin Lacking /\ (n - 1) + 1 = n
        BY <2>2, <2>3
    <2>5. Has(n)
        BY <1>2, <2>4
    <2> QED BY <2>2, <2>5
<1>4. Has(Cardinality(S))
    BY <1>3, FS_CardinalityType
<1>5. Small(S, Cardinality(S)) = SUBSET S
    BY FS_Subset DEF Small
<1> QED BY <1>4, <1>5

\* A sum of positive numbers is no less than how many they are.
LEMMA SumIsEnough ==
    ASSUME NEW S, IsFiniteSet(S), NEW f, \A x \in S : f[x] \in Nat \ {0},
           NEW g, Sums(g, f, SUBSET S)
    PROVE  g[S] \in Nat /\ Cardinality(S) <= g[S]
<1> DEFINE Fails(s) == ~(g[s] \in Nat /\ Cardinality(s) <= g[s])
           Sizes == {n \in Nat : \E s \in SUBSET S : Cardinality(s) = n /\ Fails(s)}
<1>0. \A s \in SUBSET S : IsFiniteSet(s) /\ Cardinality(s) \in Nat
    BY FS_Subset, FS_CardinalityType
<1>1. Sizes = {}
    <2> SUFFICES ASSUME Sizes # {}
                 PROVE  FALSE
        OBVIOUS
    <2>1. PICK n \in Sizes : \A m \in Sizes : n <= m
        <3>1. Sizes \subseteq Nat
            OBVIOUS
        <3> HIDE DEF Sizes
        <3> QED BY <3>1, LeastNumber
    <2>2. PICK s \in SUBSET S : Cardinality(s) = n /\ Fails(s)
        BY <2>1
    <2>3. ASSUME s = {} PROVE FALSE
        <3>1. {} \in SUBSET S /\ Cardinality({}) = 0
            BY FS_EmptySet
        <3>2. g[{}] = 0
            BY <3>1 DEF Sums
        <3>3. g[s] = 0 /\ Cardinality(s) = 0
            BY <2>3, <3>1, <3>2
        <3> QED BY <2>2, <3>3
    <2> DEFINE r == s \ {OneOf(s)}
    <2>4. /\ OneOf(s) \in S /\ r \in SUBSET S /\ n \in Nat \ {0} /\ Cardinality(r) = n - 1
        BY <2>2, <2>3, Removed
    <2>5. g[s] = f[OneOf(s)] + g[r]
        BY <2>3 DEF Sums
    <2> HIDE DEF r
    <2>6. ~Fails(r)
        <3>1. Cardinality(r) \notin Sizes /\ Cardinality(r) \in Nat
            BY <2>1, <2>4
        <3> QED BY <2>4, <3>1
    <2>7. g[r] \in Nat /\ n - 1 <= g[r] /\ f[OneOf(s)] \in Nat \ {0}
        BY <2>4, <2>6
    <2>8. g[s] \in Nat /\ n <= g[s]
        BY <2>4, <2>5, <2>7
    <2> QED BY <2>2, <2>8
<1>2. S \in SUBSET S
    OBVIOUS
<1> QED BY <1>0, <1>1, <1>2

\* What a window holds is no less than its rows.
LEMMA WindowIsCounted ==
    ASSUME MeteringAssumption, NEW held \in [Turns -> Usage], NEW m, NEW w
    PROVE  /\ WindowCount(held, m, w) \in Nat
           /\ Cardinality(InWindow(held, m, w, {"reserved", "committed"}))
                <= WindowCount(held, m, w)
<1> DEFINE S == InWindow(held, m, w, {"reserved", "committed"})
           f == [x \in Turns |-> held[x].units]
           iter[s \in SUBSET S] ==
               IF s = {} THEN 0 ELSE held[OneOf(s)].units + iter[s \ {OneOf(s)}]
<1>1. /\ S \subseteq Turns /\ IsFiniteSet(S)
      /\ \A x \in Turns : held[x].units \in Nat \ {0}
  <2>1. S \subseteq Turns /\ IsFiniteSet(Turns)
    BY DEF InWindow, MeteringAssumption
  <2>2. MaxUnits \in Nat \ {0} /\ \A x \in Turns : held[x].units \in 1 .. MaxUnits
    BY DEF MeteringAssumption, Usage
  <2> QED BY <2>1, <2>2, FS_Subset
<1>2. WindowCount(held, m, w) = iter[S]
  BY DEF WindowCount, MapThenSumSet, MapThenFoldSet, OneOf
<1>3. iter = CHOOSE g : g = [s \in SUBSET S |-> IF s = {} THEN 0
                               ELSE held[OneOf(s)].units + g[s \ {OneOf(s)}]]
  OBVIOUS
<1> HIDE DEF iter, S
<1>4. Sums(iter, f, SUBSET S)
  <2>1. PICK g : Sums(g, f, SUBSET S)
    BY <1>1, SumExists
  <2>2. ASSUME NEW h
        PROVE  Sums(h, f, SUBSET S) <=>
               h = [s \in SUBSET S |-> IF s = {} THEN 0
                      ELSE held[OneOf(s)].units + h[s \ {OneOf(s)}]]
    <3>1. \A s \in SUBSET S : s # {} => f[OneOf(s)] = held[OneOf(s)].units
      BY <1>1, Removed
    <3> HIDE DEF f
    <3>2. [s \in SUBSET S |-> IF s = {} THEN 0 ELSE f[OneOf(s)] + h[s \ {OneOf(s)}]]
          = [s \in SUBSET S |-> IF s = {} THEN 0
                ELSE held[OneOf(s)].units + h[s \ {OneOf(s)}]]
      BY <3>1
    <3> QED BY <3>2 DEF Sums
  <2> HIDE DEF f
  <2>3. \E h : h = [s \in SUBSET S |-> IF s = {} THEN 0
                      ELSE held[OneOf(s)].units + h[s \ {OneOf(s)}]]
    BY <2>1, <2>2
  <2>4. iter = [s \in SUBSET S |-> IF s = {} THEN 0
                  ELSE held[OneOf(s)].units + iter[s \ {OneOf(s)}]]
    BY <1>3, <2>3
  <2> QED BY <2>2, <2>4
<1>5. \A x \in S : f[x] \in Nat \ {0}
  BY <1>1
<1> HIDE DEF f
<1>6. iter[S] \in Nat /\ Cardinality(S) <= iter[S]
  BY <1>1, <1>4, <1>5, SumIsEnough
<1> QED BY <1>2, <1>6 DEF S

\* What reserve() writes, and where.
LEMMA ReservedRow ==
    ASSUME MeteringAssumption, MeteringInv, NEW t \in Turns, Reserve(t)
    PROVE  /\ usages[t].status = "none"
           /\ usages' \in [Turns -> Usage] /\ usages'[t].status = "reserved"
           /\ \A u \in Turns : u # t => usages'[u] = Cleaned(usages)[u]
           /\ \E m \in Effective(usages[t].asked, Cleaned(usages)) :
                 /\ Reserved(t, m) /\ m \in Models /\ usages'[t].model = m
                 /\ usages'[t].window = IF Limited(m) THEN windows'[m] ELSE 0
<1>1. MeteringTypeOK /\ TurnOK(t) /\ usages[t] \in Usage /\ MeteringTypeOK'
  BY MeteringStep DEF MeteringInv, MeteringTypeOK, MeteringNext, Threads
<1>2. usages[t].status = "none"
  BY <1>1 DEF Reserve, TurnOK, ReservesOnce
<1>3. PICK m \in Effective(usages[t].asked, Cleaned(usages)) : Reserved(t, m)
  BY DEF Reserve
<1>4. m \in Models
  BY <1>3 DEF Effective
<1> DEFINE w == IF Limited(m) THEN windows'[m] ELSE 0
           new == [Cleaned(usages)[t] EXCEPT !.status = "reserved", !.model = m,
                                             !.asked = NoModel, !.window = w]
<1>5. usages' = [Cleaned(usages) EXCEPT ![t] = new]
  BY <1>1, <1>3, CleanedRows DEF Reserved
<1> HIDE DEF w
<1>6. new.status = "reserved" /\ new.model = m /\ new.window = w
  BY <1>1, CleanedRows DEF Usage
<1> HIDE DEF new
<1>7. /\ usages'[t] = new /\ \A u \in Turns : u # t => usages'[u] = Cleaned(usages)[u]
  BY <1>1, <1>5, CleanedRows
<1> QED BY <1>1, <1>2, <1>3, <1>4, <1>6, <1>7 DEF w, MeteringTypeOK

\* To be cleaned up changes nothing but what a row stands at.
LEMMA CleanedStays ==
    ASSUME MeteringTypeOK, NEW t \in Turns
    PROVE  /\ Cleaned(usages)[t].window = usages[t].window
           /\ Cleaned(usages)[t].status = "reserved" => usages[t].status = "reserved"
<1>1. usages[t] \in Usage
  BY DEF MeteringTypeOK
<1>2. CASE Cleaned(usages)[t] = usages[t]
  BY <1>2
<1>3. CASE Cleaned(usages)[t] = [usages[t] EXCEPT !.status = "released"]
  BY <1>1, <1>3 DEF Usage
<1> QED BY <1>2, <1>3, CleanedRows

\* No other step reserves, or moves a row to another window.
LEMMA RowsStay ==
    ASSUME MeteringAssumption, MeteringInv, [MeteringNext]_meteringVars,
           \A t \in Turns : ~Reserve(t)
    PROVE  /\ opened' = opened
           /\ \A t \in Turns : /\ usages'[t].window = usages[t].window
                               /\ usages'[t].status = "reserved" => usages[t].status = "reserved"
<1> DEFINE Stays(t) == /\ usages'[t].window = usages[t].window
                       /\ usages'[t].status = "reserved" => usages[t].status = "reserved"
<1> USE DEF windowVars, handlerVars
<1>1. MeteringTypeOK /\ \A u \in Turns : usages[u] \in Usage
  BY DEF MeteringInv, MeteringTypeOK
<1>2. ASSUME usages' = usages PROVE \A t \in Turns : Stays(t)
  BY <1>2
<1>3. ASSUME usages' = Cleaned(usages) PROVE \A t \in Turns : Stays(t)
  <2> TAKE t \in Turns
  <2> QED BY <1>1, <1>3, CleanedStays
<1>4. ASSUME NEW u \in Turns, NEW m, usages' = [usages EXCEPT ![u].asked = m]
      PROVE  \A t \in Turns : Stays(t)
  BY <1>1, <1>4 DEF MeteringTypeOK, Usage
<1>5. ASSUME NEW u \in Turns, Threads(u)
      PROVE  opened' = opened /\ \A t \in Turns : Stays(t)
  <2>1. CASE Refuse(u)
    BY <1>4, <2>1 DEF Refuse
  <2>2. CASE Commit(u)
    <3>1. PICK n \in 1 .. MaxUnits : Finalized(u, "committed", n)
      BY <2>2, ClampedUnits DEF Commit
    <3>2. \A t \in Turns : Stays(t)
      BY <1>1, <3>1, FinalizedRow
    <3> QED BY <2>2, <3>2 DEF Commit
  <2>3. CASE Release(u)
    <3>1. PICK n \in 1 .. MaxUnits : Finalized(u, "released", n)
      BY <2>3, ClampedUnits DEF Release
    <3>2. \A t \in Turns : Stays(t)
      BY <1>1, <3>1, FinalizedRow
    <3> QED BY <2>3, <3>2 DEF Release
  <2> QED BY <1>5, <2>1, <2>2, <2>3 DEF Threads
<1>6. ASSUME NEW u \in Turns, Handler(u) \/ Cuts(u)
      PROVE  opened' = opened /\ \A t \in Turns : Stays(t)
  <2>1. opened' = opened
    BY <1>6 DEF Handler, Cuts, Arrive, ArriveImage, TurnAway, Admit, Answered, Iterate,
       FirstContent, RecordFirstContent, Ends, ImageEnds, CutReserving, CutOpen, CutCounting,
       CutClosing
  <2>2. usages' = usages \/ \E m : usages' = [usages EXCEPT ![u].asked = m]
    BY <1>6 DEF Handler, Cuts, Arrive, ArriveImage, TurnAway, Admit, Answered, Iterate,
       FirstContent, RecordFirstContent, Ends, ImageEnds, CutReserving, CutOpen, CutCounting,
       CutClosing
  <2> QED BY <1>2, <1>4, <2>1, <2>2
<1>7. ASSUME NEW u \in Turns, GrowsOld(u)
      PROVE  opened' = opened /\ \A t \in Turns : Stays(t)
  BY <1>1, <1>7 DEF GrowsOld, MeteringTypeOK, Usage
<1>8. CASE (\E m \in Models : WindowEnds(m)) \/ SetRules \/ ResetWindows \/ QuotaSummary
  <2>1. opened' = opened /\ (usages' = usages \/ usages' = Cleaned(usages))
    BY <1>8 DEF WindowEnds, SetRules, ResetWindows, QuotaSummary
  <2> QED BY <1>2, <1>3, <2>1
<1>9. CASE UNCHANGED meteringVars
  BY <1>2, <1>9 DEF meteringVars
<1> QED BY <1>5, <1>6, <1>7, <1>8, <1>9 DEF MeteringNext

\* No row is in a window that is still to be opened.
WindowsOpened == \A t \in Turns : usages[t].window <= opened

LEMMA WindowsStep ==
    ASSUME MeteringAssumption, MeteringInv, WindowsOpened, [MeteringNext]_meteringVars
    PROVE  WindowsOpened'
<1>1. /\ opened \in Nat /\ MeteringTypeOK /\ MeteringTypeOK' /\ opened' \in Nat
      /\ \A u \in Turns : usages[u] \in Usage /\ usages[u].window \in Nat
  BY MeteringStep DEF MeteringInv, MeteringTypeOK, Usage, MeteringAssumption
<1>2. CASE \A t \in Turns : ~Reserve(t)
  BY <1>1, <1>2, RowsStay DEF WindowsOpened
<1>3. ASSUME NEW t \in Turns, Reserve(t) PROVE WindowsOpened'
  <2>1. PICK m \in Models : Reserved(t, m) /\ usages'[t].window = IF Limited(m) THEN windows'[m] ELSE 0
    BY <1>3, ReservedRow
  <2>2. opened <= opened' /\ windows'[m] \in 0 .. opened'
    BY <1>1, <2>1 DEF Reserved, MeteringTypeOK
  <2>3. \A u \in Turns : Cleaned(usages)[u].window = usages[u].window
    BY <1>1, CleanedStays
  <2>4. ASSUME NEW u \in Turns PROVE usages'[u].window <= opened'
    <3>1. CASE u = t
      BY <1>1, <2>1, <2>2, <3>1
    <3>2. CASE u # t
      BY <1>1, <1>3, <2>2, <2>3, <3>2, ReservedRow DEF WindowsOpened
    <3> QED BY <3>1, <3>2
  <2> QED BY <2>4 DEF WindowsOpened
<1> QED BY <1>2, <1>3

LEMMA RoomStep ==
    ASSUME MeteringAssumption, PolicyAssumption, MeteringInv, WindowsOpened,
           NEW t \in Turns, Reserve(t), usages'[t].window # 0
    PROVE  Cardinality(InWindow(usages', usages'[t].model, usages'[t].window,
                                {"reserved", "committed"})) <= rules[usages'[t].model].limit
<1> DEFINE m == usages'[t].model
           w == usages'[t].window
           before == InWindow(Cleaned(usages), m, w, {"reserved", "committed"})
           after == InWindow(usages', m, w, {"reserved", "committed"})
<1> SUFFICES Cardinality(after) <= rules[m].limit
  OBVIOUS
<1>1. /\ opened \in Nat /\ MeteringTypeOK
      /\ \A u \in Turns : usages[u] \in Usage /\ usages[u].window \in Nat
      /\ Cleaned(usages) \in [Turns -> Usage] /\ IsFiniteSet(Turns)
  <2>1. MeteringTypeOK /\ \A u \in Turns : Cleaned(usages)[u] \in Usage
    BY CleanedRows DEF MeteringInv
  <2>2. Cleaned(usages) = [u \in Turns |-> Cleaned(usages)[u]]
    BY DEF Cleaned
  <2>3. Cleaned(usages) \in [Turns -> Usage]
    BY <2>1, <2>2
  <2> QED BY <2>1, <2>3 DEF MeteringTypeOK, Usage, MeteringAssumption
<1>2. /\ m \in Effective(usages[t].asked, Cleaned(usages)) /\ Reserved(t, m) /\ m \in Models
      /\ w = windows'[m] /\ Limited(m) /\ usages[t].status = "none"
      /\ \A u \in Turns : u # t => usages'[u] = Cleaned(usages)[u]
  BY ReservedRow
<1>3. Available(Cleaned(usages), m)
  BY <1>2 DEF Effective
<1>4. rules[m].limit \in Nat \ {0}
  BY <1>1, <1>2 DEF PolicyAssumption, MeteringTypeOK, Limited, Rule
<1>5. after \subseteq before \cup {t}
  BY <1>2 DEF InWindow
<1>6. IsFiniteSet(before) /\ IsFiniteSet(after) /\ Cardinality(before) \in Nat
      /\ Cardinality(after) \in Nat /\ Cardinality(after) <= Cardinality(before) + 1
  <2>1. before \subseteq Turns /\ after \subseteq Turns
    BY DEF InWindow
  <2>2. IsFiniteSet(before) /\ IsFiniteSet(after)
    BY <1>1, <2>1, FS_Subset
  <2> HIDE DEF before, after
  <2>3. IsFiniteSet(before \cup {t}) /\ Cardinality(before \cup {t}) <= Cardinality(before) + 1
        /\ Cardinality(before \cup {t}) \in Nat
    <3> DEFINE more == before \cup {t}
    <3>1. Cardinality(before) \in Nat
      BY <2>2, FS_CardinalityType
    <3>2. /\ IsFiniteSet(more)
          /\ Cardinality(more) = IF t \in before THEN Cardinality(before)
                                 ELSE Cardinality(before) + 1
      BY <2>2, FS_AddElement
    <3> HIDE DEF more
    <3>3. IsFiniteSet(more) /\ Cardinality(more) <= Cardinality(before) + 1
          /\ Cardinality(more) \in Nat
      BY <3>1, <3>2
    <3> QED BY <3>3 DEF more
  <2>4. Cardinality(after) <= Cardinality(before \cup {t})
    BY <1>5, <2>3, FS_Subset
  <2> QED BY <2>2, <2>3, <2>4, FS_CardinalityType
<1>7. CASE CurrentWindow(m) = 0
  <2>1. w = opened + 1
    BY <1>2, <1>7 DEF Reserved
  <2>2. before = {}
    <3>1. \A u \in Turns : Cleaned(usages)[u].window = usages[u].window
      BY <1>1, CleanedStays
    <3> QED BY <1>1, <2>1, <3>1 DEF InWindow, WindowsOpened
  <2>3. Cardinality(before) = 0
    BY <2>2, FS_EmptySet
  <2> HIDE DEF before, after, m
  <2> QED BY <1>4, <1>6, <2>3
<1>8. CASE CurrentWindow(m) # 0
  <2>1. w = CurrentWindow(m)
    BY <1>2, <1>8 DEF Reserved
  <2>2. WindowCount(Cleaned(usages), m, w) < rules[m].limit
    BY <1>2, <1>3, <1>8, <2>1 DEF Available
  <2>3. /\ WindowCount(Cleaned(usages), m, w) \in Nat
        /\ Cardinality(before) <= WindowCount(Cleaned(usages), m, w)
    BY <1>1, WindowIsCounted
  <2> HIDE DEF before, after, m, w
  <2> QED BY <1>4, <1>6, <2>2, <2>3
<1> QED BY <1>7, <1>8

\* Whatever is reserved, settled, cleaned up, ruled or reset between two
\* requests of a user, a reservation leaves no more turns in its window than
\* the limit in force allows, and a settled turn keeps its verdict (store.py,
\* reserve and finalize).
THEOREM AllowanceIsKept ==
    ASSUME MeteringAssumption, PolicyAssumption PROVE MeteringSpec => AllowanceKept
<1>1. MeteringInit => WindowsOpened
  BY DEF MeteringInit, WindowsOpened, NoUsage
<1>2. MeteringInv /\ WindowsOpened /\ [MeteringNext]_meteringVars => WindowsOpened'
  BY WindowsStep
<1>3. MeteringInv /\ WindowsOpened /\ [MeteringNext]_meteringVars =>
         [\A t \in Turns : usages[t].status = "none" /\ usages'[t].status = "reserved"
             => LET m == usages'[t].model
                    w == usages'[t].window
                IN w # 0 => Cardinality(InWindow(usages', m, w, {"reserved", "committed"}))
                              <= rules[m].limit]_meteringVars
  <2> SUFFICES ASSUME MeteringInv, WindowsOpened, MeteringNext, NEW t \in Turns,
                      usages[t].status = "none", usages'[t].status = "reserved",
                      usages'[t].window # 0
               PROVE  Cardinality(InWindow(usages', usages'[t].model, usages'[t].window,
                                           {"reserved", "committed"}))
                        <= rules[usages'[t].model].limit
    OBVIOUS
  <2>1. PICK u \in Turns : Reserve(u)
    BY RowsStay
  <2>2. u = t
    <3>1. u # t => usages'[t].status = Cleaned(usages)[t].status
      BY <2>1, ReservedRow
    <3>2. Cleaned(usages)[t].status # "reserved"
      BY CleanedRows DEF MeteringInv, MeteringTypeOK, Usage
    <3> QED BY <3>1, <3>2
  <2> QED BY <2>1, <2>2, RoomStep
<1> QED
  BY <1>1, <1>2, <1>3, MeteringInvariant, VerdictsStand, PTL
     DEF MeteringSpec, AllowanceKept, RoomWhenReserved

-----------------------------------------------------------------------------
(* Sign-in: the switches. *)

\* The arithmetic of the times.
LEMMA SiteConstants ==
    ASSUME SiteAssumption
    PROVE  /\ MaxSaves \in Nat /\ Numbers \subseteq Nat /\ 0 \in Numbers
           /\ KeepTicks \in Nat /\ KeepTicks > 0 /\ FetchTicks \in Nat
           /\ Horizon = KeepTicks + FetchTicks /\ NoNumber \notin Numbers
           /\ \A n \in Numbers : n < MaxSaves => n + 1 \in Numbers
BY DEF SiteAssumption, Numbers, Horizon, NoNumber

\* The row, and what will be written, has not been replaced.
RowIsNew == \A n \in Numbers : n >= saves => retired[n] = 0

\* What a read under way has seen was replaced, if at all, since it began.
ReadIsRecent ==
    \A w \in Sites : fetch[w] # NoNumber => retired[fetch[w]] <= reading[w]

\* Who registers has lived through the present configuration.
HasSeenRow ==
    \A v \in Visitors : UnderWay(v) =>
        /\ signup[v].first \/ CurrentRow.registration => signup[v].open
        /\ ~CurrentRow.turnstile => signup[v].free

\* Whoever was let in has a right to be; nobody registers twice.
LetInRightly ==
    /\ \A v \in Visitors :
          signup[v].pc = "allowed" => signup[v].open /\ (signup[v].free \/ signup[v].passed)
    /\ \A v \in accounts \ {Founder} : signup[v].pc \in {"first", "over"}
    /\ RegisteredRightly

SecretIsThere == CurrentRow.turnstile => CurrentRow.secret

SiteInv ==
    /\ SiteTypeOK /\ RowIsNew /\ ReadIsRecent /\ ShownIsRecent
    /\ HasSeenRow /\ LetInRightly /\ SecretIsThere

Clock == RowIsNew /\ ReadIsRecent /\ ShownIsRecent
Rights == HasSeenRow /\ LetInRightly /\ SecretIsThere

LEMMA SiteStart == ASSUME SiteAssumption, SiteInit PROVE SiteInv
<1> USE SiteConstants DEF SiteInit
<1>1. SiteTypeOK
  BY DEF SiteTypeOK, Config, Default, NoSignup
<1>2. Clock
  BY DEF Clock, RowIsNew, ReadIsRecent, ShownIsRecent
<1>3. Rights
  BY DEF Rights, HasSeenRow, LetInRightly, SecretIsThere, RegisteredRightly, UnderWay,
     CurrentRow, NoSignup, Default
<1> QED
  BY <1>1, <1>2, <1>3 DEF SiteInv, Clock, Rights

\* Steps of readers leave the row and the registrations alone.
LEMMA ReaderStep ==
    ASSUME SiteAssumption, SiteInv, NEW w \in Sites,
           Fetch(w) \/ FetchStored(w) \/ FetchDropped(w)
    PROVE  SiteInv'
<1> USE SiteConstants DEF Fetch, FetchStored, FetchDropped, rowVars
<1>1. SiteTypeOK'
  <2>1. 0 \in 0 .. FetchTicks /\ KeepTicks \in 0 .. KeepTicks
    OBVIOUS
  <2>2. CASE Fetch(w)
    BY <2>1, <2>2 DEF SiteInv, SiteTypeOK
  <2>3. CASE FetchStored(w)
    BY <2>1, <2>3 DEF SiteInv, SiteTypeOK
  <2>4. CASE FetchDropped(w)
    BY <2>1, <2>4 DEF SiteInv, SiteTypeOK
  <2> QED
    BY <2>2, <2>3, <2>4
<1>2. Clock'
  BY DEF SiteInv, SiteTypeOK, Clock, RowIsNew, ReadIsRecent, ShownIsRecent
<1>3. Rights'
  BY DEF SiteInv, Rights, HasSeenRow, LetInRightly, SecretIsThere, RegisteredRightly,
     UnderWay, CurrentRow
<1> QED
  BY <1>1, <1>2, <1>3 DEF SiteInv, Clock, Rights

\* What an administrator sends keeps the secret there is.
LEMMA MergedType ==
    ASSUME SiteAssumption, SiteTypeOK, NEW form \in Forms
    PROVE  Merged(form) \in Config
BY SiteConstants DEF SiteAssumption, SiteTypeOK, Merged, Config, CurrentRow

\* A new configuration takes the row over.
LEMMA EditKeepsClock ==
    ASSUME SiteAssumption, SiteTypeOK, Clock, NEW config \in Config, Edit(config),
           UNCHANGED <<fetch, reading>>,
           \/ UNCHANGED <<cached, kept>>
           \/ \E w \in Sites : Invalidated(w)
    PROVE  /\ log' \in [Numbers -> Config] /\ saves' \in Numbers
           /\ retired' = retired /\ CurrentRow' = config
           /\ cached' \in [Sites -> Numbers] /\ kept' \in [Sites -> 0 .. KeepTicks]
           /\ Clock'
<1> USE SiteConstants DEF Edit, SiteTypeOK
<1>1. log' \in [Numbers -> Config] /\ saves' \in Numbers /\ CurrentRow' = config
  BY DEF CurrentRow
<1>2. cached' \in [Sites -> Numbers] /\ kept' \in [Sites -> 0 .. KeepTicks]
  <2>1. 0 \in 0 .. KeepTicks
    OBVIOUS
  <2>2. ASSUME NEW w \in Sites, Invalidated(w)
        PROVE  cached' \in [Sites -> Numbers] /\ kept' \in [Sites -> 0 .. KeepTicks]
    BY <2>1, <2>2 DEF Invalidated
  <2> QED
    BY <2>2
<1>3. RowIsNew' /\ ReadIsRecent'
  BY DEF Clock, RowIsNew, ReadIsRecent
<1>4. ShownIsRecent'
  BY DEF Clock, ShownIsRecent, Invalidated
<1> QED
  BY <1>1, <1>2, <1>3, <1>4 DEF Clock

Signups == [pc : {"none", "begun", "allowed", "first", "over"}, at : Sites \cup {NoSite},
            first : BOOLEAN, open : BOOLEAN, free : BOOLEAN, passed : BOOLEAN]

\* ... and who registers meanwhile has lived through it too.
LEMMA WitnessFacts ==
    ASSUME signup \in [Visitors -> Signups], NEW config \in Config, NEW v \in Visitors
    PROVE  /\ Witnessed(config)[v] \in Signups
           /\ Witnessed(config)[v].pc = signup[v].pc
           /\ Witnessed(config)[v].first = signup[v].first
           /\ Witnessed(config)[v].passed = signup[v].passed
           /\ Witnessed(config)[v].open <=>
                 signup[v].open \/ (UnderWay(v) /\ config.registration)
           /\ Witnessed(config)[v].free <=>
                 signup[v].free \/ (UnderWay(v) /\ ~config.turnstile)
<1>1. CASE UnderWay(v)
  <2>1. Witnessed(config)[v] = Lived(signup[v], config)
    BY <1>1 DEF Witnessed
  <2>2. /\ (signup[v].open \/ config.registration) \in BOOLEAN
        /\ (signup[v].free \/ ~config.turnstile) \in BOOLEAN
    OBVIOUS
  <2>3. signup[v] \in Signups
    OBVIOUS
  <2>4. Lived(signup[v], config) \in Signups
    BY <2>2, <2>3 DEF Signups, Lived
  <2>5. /\ Lived(signup[v], config).pc = signup[v].pc
        /\ Lived(signup[v], config).first = signup[v].first
        /\ Lived(signup[v], config).passed = signup[v].passed
        /\ Lived(signup[v], config).open = (signup[v].open \/ config.registration)
        /\ Lived(signup[v], config).free = (signup[v].free \/ ~config.turnstile)
    BY <2>3 DEF Signups, Lived
  <2> QED
    BY <1>1, <2>1, <2>4, <2>5
<1>2. CASE ~UnderWay(v)
  BY <1>2 DEF Witnessed
<1> QED
  BY <1>1, <1>2

LEMMA WitnessKeepsRights ==
    ASSUME signup \in [Visitors -> Signups], HasSeenRow, LetInRightly, NEW config \in Config,
           CurrentRow' = config, config.turnstile => config.secret,
           UNCHANGED accounts, accounts \subseteq Visitors \cup {Founder},
           \/ signup' = Witnessed(config)
           \/ \E v \in Visitors :
                 At(v, "first") /\ signup' = [Witnessed(config) EXCEPT ![v].pc = "over"]
    PROVE  signup' \in [Visitors -> Signups] /\ Rights'
<1> DEFINE W == Witnessed(config)
           Follows(v) == /\ signup'[v].first = W[v].first /\ signup'[v].passed = W[v].passed
                         /\ signup'[v].open = W[v].open /\ signup'[v].free = W[v].free
                         /\ \/ signup'[v].pc = W[v].pc
                            \/ signup[v].pc = "first" /\ signup'[v].pc = "over"
<1>0. W \in [Visitors -> Signups]
  <2>1. \A v \in Visitors : W[v] \in Signups
    BY WitnessFacts
  <2>2. W = [v \in Visitors |-> W[v]]
    BY DEF Witnessed
  <2> HIDE DEF W
  <2> QED
    BY <2>1, <2>2
<1>2. \A v \in Visitors :
         /\ W[v].pc = signup[v].pc
         /\ W[v].first = signup[v].first /\ W[v].passed = signup[v].passed
         /\ W[v].open <=> signup[v].open \/ (UnderWay(v) /\ config.registration)
         /\ W[v].free <=> signup[v].free \/ (UnderWay(v) /\ ~config.turnstile)
  BY WitnessFacts
<1>01. \/ signup' = W
      \/ \E v \in Visitors : At(v, "first") /\ signup' = [W EXCEPT ![v].pc = "over"]
  OBVIOUS
<1> HIDE DEF W
<1>1. signup' \in [Visitors -> Signups] /\ \A v \in Visitors : Follows(v)
  <2>1. CASE signup' = W
    BY <1>0, <2>1
  <2>2. ASSUME NEW v \in Visitors, signup' = [W EXCEPT ![v].pc = "over"], At(v, "first")
        PROVE  signup' \in [Visitors -> Signups] /\ \A u \in Visitors : Follows(u)
    BY <1>0, <2>2 DEF Signups, At
  <2> QED
    BY <1>01, <2>1, <2>2
<1>3. HasSeenRow'
  BY <1>1, <1>2 DEF HasSeenRow, UnderWay
<1>4. LetInRightly'
  BY <1>1, <1>2 DEF LetInRightly, RegisteredRightly
<1> QED
  BY <1>1, <1>3, <1>4 DEF Rights, SecretIsThere

\* The parts of SiteTypeOK that a change of the row leaves alone.
LEMMA SaveStep ==
    ASSUME SiteAssumption, SiteInv, NEW a \in Owners,
           \/ \E w \in Sites, form \in Forms : UpdateAdmin(a, w, form)
           \/ SaveEnds(a) \/ SaveDropped(a)
    PROVE  SiteInv'
<1> USE SiteConstants
<1>1. ASSUME NEW w \in Sites, NEW form \in Forms, UpdateAdmin(a, w, form)
      PROVE  SiteInv'
  <2> DEFINE config == Merged(form)
  <2>1. config \in Config
    BY MergedType DEF SiteInv
  <2>2. config.turnstile => config.secret
    BY <1>1 DEF UpdateAdmin, Merged, SiteAssumption
  <2>3. Edit(config) /\ signup' = Witnessed(config) /\ UNCHANGED <<publicVars, accounts>>
    BY <1>1 DEF UpdateAdmin
  <2> HIDE DEF config
  <2>4. /\ log' \in [Numbers -> Config] /\ saves' \in Numbers /\ retired' = retired
        /\ CurrentRow' = config /\ Clock'
        /\ cached' \in [Sites -> Numbers] /\ kept' \in [Sites -> 0 .. KeepTicks]
    <3>1. SiteTypeOK /\ Clock /\ UNCHANGED <<fetch, reading>> /\ UNCHANGED <<cached, kept>>
      BY <2>3 DEF SiteInv, Clock, publicVars
    <3> QED
      BY <2>1, <2>3, <3>1, EditKeepsClock
  <2>5. signup' \in [Visitors -> Signups] /\ Rights'
    <3>1. /\ signup \in [Visitors -> Signups] /\ HasSeenRow /\ LetInRightly
          /\ accounts \subseteq Visitors \cup {Founder} /\ UNCHANGED accounts
      BY <2>3 DEF SiteInv, SiteTypeOK, Signups
    <3> QED
      BY <2>1, <2>2, <2>3, <2>4, <3>1, WitnessKeepsRights
  <2>6. SiteTypeOK'
    BY <1>1, <2>3, <2>4, <2>5 DEF SiteInv, SiteTypeOK, Signups, UpdateAdmin, publicVars
  <2> QED
    BY <2>4, <2>5, <2>6 DEF SiteInv, Clock, Rights
<1>2. ASSUME SaveEnds(a) \/ SaveDropped(a) PROVE SiteInv'
  <2>1. SiteTypeOK'
    <3>1. 0 \in 0 .. KeepTicks
      OBVIOUS
    <3>2. CASE SaveEnds(a)
      BY <3>1, <3>2 DEF SaveEnds, Invalidated, rowVars, SiteInv, SiteTypeOK
    <3>3. CASE SaveDropped(a)
      BY <3>3 DEF SaveDropped, rowVars, publicVars, SiteInv, SiteTypeOK
    <3> QED
      BY <1>2, <3>2, <3>3
  <2>2. Clock'
    BY <1>2 DEF SaveEnds, SaveDropped, Invalidated, rowVars, publicVars, SiteInv, SiteTypeOK,
       Clock, RowIsNew, ReadIsRecent, ShownIsRecent
  <2>3. Rights'
    BY <1>2 DEF SaveEnds, SaveDropped, rowVars, publicVars, SiteInv, Rights, HasSeenRow,
       LetInRightly, SecretIsThere, RegisteredRightly, UnderWay, CurrentRow
  <2> QED
    BY <2>1, <2>2, <2>3 DEF SiteInv, Clock, Rights
<1> QED
  BY <1>1, <1>2

\* What a step of one registration must show when the row stays.
LEMMA SignupStep ==
    ASSUME SiteAssumption, SiteInv, NEW v \in Visitors, NEW attempt \in Signups,
           signup' = [signup EXCEPT ![v] = attempt],
           UNCHANGED <<rowVars, publicVars, saving, accounts>>,
           attempt.pc = "begun" =>
              /\ attempt.first \/ CurrentRow.registration => attempt.open
              /\ ~CurrentRow.turnstile => attempt.free,
           attempt.pc = "allowed" =>
              /\ attempt.open /\ (attempt.free \/ attempt.passed)
              /\ ~CurrentRow.turnstile => attempt.free,
           v \notin accounts \ {Founder} \/ (attempt = [signup[v] EXCEPT !.pc = "over"])
    PROVE  SiteInv'
<1> USE SiteConstants
<1>0. signup' \in [Visitors -> Signups]
  BY DEF SiteInv, SiteTypeOK, Signups
<1>1. SiteTypeOK'
  BY <1>0 DEF SiteInv, SiteTypeOK, Signups, rowVars, publicVars
<1>2. Clock'
  BY DEF SiteInv, SiteTypeOK, Clock, RowIsNew, ReadIsRecent, ShownIsRecent, rowVars, publicVars
<1>3. signup'[v] = attempt /\ \A u \in Visitors : u # v => signup'[u] = signup[u]
  BY DEF SiteInv, SiteTypeOK
<1>4. CurrentRow' = CurrentRow /\ accounts' = accounts
  BY DEF CurrentRow, rowVars
<1>5. HasSeenRow'
  BY <1>3, <1>4 DEF SiteInv, HasSeenRow, UnderWay
<1>6. LetInRightly'
  BY <1>3, <1>4 DEF SiteInv, LetInRightly, RegisteredRightly, Signups, SiteTypeOK
<1>7. SecretIsThere'
  BY <1>4 DEF SiteInv, SecretIsThere
<1> QED
  BY <1>1, <1>2, <1>5, <1>6, <1>7 DEF SiteInv, Clock, Rights

LEMMA RegistrationStep ==
    ASSUME SiteAssumption, SiteInv, NEW v \in Visitors,
           \/ \E w \in Sites : BeginSignup(v, w)
           \/ \E passed \in BOOLEAN : EnforceSignup(v, passed)
           \/ InsertAccount(v) \/ CloseRegistration(v) \/ SignupDropped(v)
    PROVE  SiteInv'
<1> USE SiteConstants
<1>1. signup \in [Visitors -> Signups] /\ signup[v] \in Signups /\ CurrentRow \in Config
  BY DEF SiteInv, SiteTypeOK, Signups, CurrentRow
<1>2. signup[v].pc \notin {"first", "over"} => v \notin accounts \ {Founder}
  BY DEF SiteInv, LetInRightly
<1>3. ASSUME NEW w \in Sites, BeginSignup(v, w) PROVE SiteInv'
  <2>1. /\ Begun(w) \in Signups /\ Begun(w).pc = "begun"
        /\ Begun(w).first \/ CurrentRow.registration => Begun(w).open
        /\ ~CurrentRow.turnstile => Begun(w).free
    <3>1. /\ (accounts = {}) \in BOOLEAN /\ (accounts = {} \/ CurrentRow.registration) \in BOOLEAN
          /\ (~CurrentRow.turnstile) \in BOOLEAN
      OBVIOUS
    <3> QED
      BY <3>1 DEF NoSignup, Signups, Begun
  <2>2. /\ signup[v] = NoSignup /\ signup' = [signup EXCEPT ![v] = Begun(w)]
        /\ UNCHANGED <<rowVars, publicVars, saving, accounts>>
    BY <1>3 DEF BeginSignup
  <2>3. v \notin accounts \ {Founder}
    BY <1>2, <2>2 DEF NoSignup
  <2> QED
    BY <2>1, <2>2, <2>3, SignupStep
<1>4. ASSUME NEW passed \in BOOLEAN, EnforceSignup(v, passed) PROVE SiteInv'
  <2>0. /\ signup[v].pc = "begun" /\ UNCHANGED <<rowVars, publicVars, saving, accounts>>
        /\ signup' = [signup EXCEPT ![v] = IF Turned(v, CurrentRow, passed) THEN TurnedAway
                                           ELSE Allowed(signup[v], passed)]
    BY <1>1, <1>4 DEF EnforceSignup, Enforced, At
  <2>1. /\ v \notin accounts \ {Founder}
        /\ signup[v].first \/ CurrentRow.registration => signup[v].open
        /\ ~CurrentRow.turnstile => signup[v].free
    BY <1>2, <2>0 DEF SiteInv, HasSeenRow, UnderWay
  <2>2. CASE Turned(v, CurrentRow, passed)
    <3>1. TurnedAway \in Signups /\ TurnedAway.pc = "over"
      BY DEF NoSignup, Signups, TurnedAway
    <3>2. signup' = [signup EXCEPT ![v] = TurnedAway]
      BY <2>0, <2>2
    <3> QED
      BY <2>0, <2>1, <3>1, <3>2, SignupStep
  <2>3. CASE ~Turned(v, CurrentRow, passed)
    <3> DEFINE attempt == Allowed(signup[v], passed)
    <3>1. /\ attempt \in Signups /\ attempt.pc = "allowed"
          /\ attempt.open /\ (attempt.free \/ attempt.passed)
          /\ ~CurrentRow.turnstile => attempt.free
      BY <1>1, <2>0, <2>1, <2>3 DEF Signups, Turned, Allowed
    <3>2. signup' = [signup EXCEPT ![v] = attempt]
      BY <2>0, <2>3
    <3> HIDE DEF attempt
    <3> QED
      BY <2>0, <2>1, <3>1, <3>2, SignupStep
  <2> QED
    BY <2>2, <2>3
<1>5. ASSUME SignupDropped(v) PROVE SiteInv'
  <2>1. UNCHANGED <<rowVars, publicVars, saving, accounts>>
    BY <1>5 DEF SignupDropped
  <2>2. CASE At(v, "first")
    <3> DEFINE attempt == [signup[v] EXCEPT !.pc = "over"]
    <3>1. attempt \in Signups /\ attempt.pc = "over"
      BY <1>1 DEF Signups
    <3>2. signup' = [signup EXCEPT ![v] = attempt]
      BY <1>1, <1>5, <2>2 DEF SignupDropped
    <3>3. attempt = [signup[v] EXCEPT !.pc = "over"]
      OBVIOUS
    <3> HIDE DEF attempt
    <3> QED
      BY <2>1, <3>1, <3>2, <3>3, SignupStep
  <2>3. CASE ~At(v, "first")
    <3>1. TurnedAway \in Signups /\ TurnedAway.pc = "over"
      BY DEF NoSignup, Signups, TurnedAway
    <3>2. signup' = [signup EXCEPT ![v] = TurnedAway] /\ v \notin accounts \ {Founder}
      BY <1>2, <1>5, <2>3 DEF SignupDropped, UnderWay
    <3> QED
      BY <2>1, <3>1, <3>2, SignupStep
  <2> QED
    BY <2>2, <2>3
<1>6. ASSUME InsertAccount(v) PROVE SiteInv'
  <2>1. /\ signup[v].pc = "allowed" /\ accounts' = accounts \cup {v}
        /\ UNCHANGED <<rowVars, publicVars, saving>>
        /\ signup' = [signup EXCEPT ![v].pc = IF accounts = {} THEN "first" ELSE "over"]
    BY <1>6 DEF InsertAccount, At
  <2>2. /\ signup' \in [Visitors -> Signups]
        /\ \A u \in Visitors : u # v => signup'[u] = signup[u]
        /\ signup'[v].pc \in {"first", "over"} /\ signup'[v].open = signup[v].open
        /\ signup'[v].free = signup[v].free /\ signup'[v].passed = signup[v].passed
    BY <1>1, <2>1 DEF Signups
  <2>3. SiteTypeOK'
    BY <2>1, <2>2 DEF SiteInv, SiteTypeOK, Signups, rowVars, publicVars
  <2>4. Clock' /\ CurrentRow' = CurrentRow
    BY <2>1 DEF SiteInv, SiteTypeOK, Clock, RowIsNew, ReadIsRecent, ShownIsRecent,
       rowVars, publicVars, CurrentRow
  <2>5. HasSeenRow'
    BY <2>2, <2>4 DEF SiteInv, HasSeenRow, UnderWay
  <2>6. LetInRightly'
    BY <2>1, <2>2 DEF SiteInv, LetInRightly, RegisteredRightly
  <2> QED
    BY <2>3, <2>4, <2>5, <2>6 DEF SiteInv, SecretIsThere, Clock
<1>7. ASSUME CloseRegistration(v) PROVE SiteInv'
  <2> DEFINE config == [CurrentRow EXCEPT !.registration = FALSE]
  <2>1. config \in Config /\ (config.turnstile => config.secret)
    BY <1>1 DEF Config, SiteInv, SecretIsThere
  <2>2. /\ Edit(config) /\ At(v, "first") /\ Invalidated(signup[v].at)
        /\ signup' = [Witnessed(config) EXCEPT ![v].pc = "over"]
        /\ UNCHANGED <<fetch, reading, saving, accounts>>
    BY <1>7 DEF CloseRegistration
  <2> HIDE DEF config
  <2>3. /\ log' \in [Numbers -> Config] /\ saves' \in Numbers /\ retired' = retired
        /\ CurrentRow' = config /\ Clock'
        /\ cached' \in [Sites -> Numbers] /\ kept' \in [Sites -> 0 .. KeepTicks]
    <3>1. CASE signup[v].at \in Sites
      BY <2>1, <2>2, <3>1, EditKeepsClock DEF SiteInv, Clock
    <3>2. CASE signup[v].at \notin Sites
      <4>1. UNCHANGED <<cached, kept>>
        BY <2>2, <3>2 DEF Invalidated, SiteInv, SiteTypeOK
      <4> QED
        BY <2>1, <2>2, <4>1, EditKeepsClock DEF SiteInv, Clock
    <3> QED
      BY <3>1, <3>2
  <2>4. signup' \in [Visitors -> Signups] /\ Rights'
    <3>1. /\ HasSeenRow /\ LetInRightly /\ UNCHANGED accounts
          /\ accounts \subseteq Visitors \cup {Founder}
      BY <2>2 DEF SiteInv, SiteTypeOK
    <3> QED
      BY <1>1, <2>1, <2>2, <2>3, <3>1, WitnessKeepsRights
  <2>5. SiteTypeOK'
    BY <2>2, <2>3, <2>4 DEF SiteInv, SiteTypeOK, Signups
  <2> QED
    BY <2>3, <2>4, <2>5 DEF SiteInv, Clock, Rights
<1> QED
  BY <1>3, <1>4, <1>5, <1>6, <1>7

\* Time: what was replaced ages by one, and so does what shows it.
LEMMA TimeStep == ASSUME SiteAssumption, SiteInv, SiteTick PROVE SiteInv'
<1> USE SiteConstants DEF SiteTick
<1>1. /\ saves \in Nat /\ saves \in Numbers /\ retired \in [Numbers -> 0 .. Horizon + 1]
      /\ cached \in [Sites -> Numbers] /\ kept \in [Sites -> 0 .. KeepTicks]
      /\ fetch \in [Sites -> Numbers \cup {NoNumber}] /\ reading \in [Sites -> 0 .. FetchTicks]
      /\ Horizon \in Nat
  BY DEF SiteInv, SiteTypeOK
<1>11. \A n \in Numbers : retired[n] \in Nat
  BY <1>1
<1>2. \A n \in Numbers : /\ retired'[n] \in 0 .. Horizon + 1 /\ retired'[n] \in Nat
                         /\ retired'[n] <= retired[n] + 1
                         /\ n >= saves => retired'[n] = retired[n]
  BY <1>1
<1>3. \A w \in Sites : /\ reading'[w] \in 0 .. FetchTicks
                       /\ fetch[w] # NoNumber => reading'[w] = reading[w] + 1
  BY <1>1
<1>4. \A w \in Sites : /\ kept'[w] \in 0 .. KeepTicks /\ cached'[w] \in Numbers
                       /\ kept'[w] > 0 => cached'[w] = cached[w] /\ kept[w] = kept'[w] + 1
  BY <1>1
<1>5. SiteTypeOK'
  <2>1. /\ retired' \in [Numbers -> 0 .. Horizon + 1] /\ reading' \in [Sites -> 0 .. FetchTicks]
        /\ kept' \in [Sites -> 0 .. KeepTicks] /\ cached' \in [Sites -> Numbers]
    BY <1>2, <1>3, <1>4
  <2> QED
    BY <2>1 DEF SiteInv, SiteTypeOK
<1>6. RowIsNew'
  BY <1>2 DEF SiteInv, RowIsNew
<1>7. ReadIsRecent'
  <2>1. ASSUME NEW w \in Sites, fetch'[w] # NoNumber PROVE retired'[fetch'[w]] <= reading'[w]
    <3>1. fetch[w] # NoNumber /\ fetch[w] \in Numbers /\ fetch' = fetch
      BY <1>1, <2>1
    <3>2. retired'[fetch[w]] <= retired[fetch[w]] + 1 /\ retired'[fetch[w]] \in Nat
      BY <1>2, <3>1
    <3>3. retired[fetch[w]] <= reading[w] /\ reading'[w] = reading[w] + 1
      BY <1>3, <3>1 DEF SiteInv, ReadIsRecent
    <3>4. retired[fetch[w]] \in Nat
      BY <1>11, <3>1
    <3>5. reading[w] \in Nat
      <4>1. reading[w] \in 0 .. FetchTicks
        BY <1>1
      <4> QED
        BY <4>1
    <3> QED
      BY <3>1, <3>2, <3>3, <3>4, <3>5
  <2> QED
    BY <2>1 DEF ReadIsRecent
<1>8. ShownIsRecent'
  <2>1. ASSUME NEW w \in Sites, kept'[w] > 0 PROVE retired'[cached'[w]] + kept'[w] <= Horizon
    <3>1. cached'[w] = cached[w] /\ kept[w] = kept'[w] + 1 /\ kept'[w] \in Nat
      BY <1>1, <1>4, <2>1
    <3>2. kept[w] > 0 /\ cached[w] \in Numbers
      BY <1>1, <3>1
    <3>3. retired'[cached[w]] <= retired[cached[w]] + 1 /\ retired'[cached[w]] \in Nat
            /\ retired[cached[w]] \in Nat
      BY <1>11, <1>2, <3>2
    <3>4. retired[cached[w]] + kept[w] <= Horizon
      BY <3>2 DEF SiteInv, ShownIsRecent
    <3> QED
      BY <1>1, <3>1, <3>3, <3>4
  <2> QED
    BY <2>1 DEF ShownIsRecent
<1>9. Rights'
  BY DEF SiteInv, Rights, HasSeenRow, LetInRightly, SecretIsThere, RegisteredRightly,
     UnderWay, CurrentRow
<1> QED
  BY <1>5, <1>6, <1>7, <1>8, <1>9 DEF SiteInv, Rights

\* However saves, registrations and readers of any number of processes
\* interleave: a process shows a replaced configuration for a read and the two
\* seconds at most, whoever has registered did so while registration was open
\* to the visitor, with Turnstile passed unless it was off meanwhile, and
\* Turnstile is never on without its secret (turtle_auth service.py, core.py).
THEOREM SwitchesAreObeyed == ASSUME SiteAssumption PROVE SiteSpec => []AccessSafety
<1>1. SiteInit => SiteInv
  BY SiteStart
<1>2. SiteInv /\ [SiteNext]_siteVars => SiteInv'
  <2>1. CASE SiteTick
    BY <2>1, TimeStep
  <2>2. ASSUME NEW w \in Sites, Fetch(w) \/ FetchStored(w) \/ FetchDropped(w), SiteInv
        PROVE  SiteInv'
    BY <2>2, ReaderStep
  <2>3. ASSUME NEW a \in Owners, SiteInv,
               \/ \E w \in Sites, form \in Forms : UpdateAdmin(a, w, form)
               \/ SaveEnds(a) \/ SaveDropped(a)
        PROVE  SiteInv'
    BY <2>3, SaveStep
  <2>4. ASSUME NEW v \in Visitors, SiteInv,
               \/ \E w \in Sites : BeginSignup(v, w)
               \/ \E passed \in BOOLEAN : EnforceSignup(v, passed)
               \/ InsertAccount(v) \/ CloseRegistration(v) \/ SignupDropped(v)
        PROVE  SiteInv'
    BY <2>4, RegistrationStep
  <2>5. CASE UNCHANGED siteVars
    <3> SUFFICES ASSUME SiteInv PROVE SiteInv'
      BY <2>5
    <3>1. SiteTypeOK' /\ Clock'
      BY <2>5 DEF siteVars, rowVars, publicVars, SiteInv, SiteTypeOK, Clock, RowIsNew,
         ReadIsRecent, ShownIsRecent
    <3>2. Rights'
      BY <2>5 DEF siteVars, rowVars, publicVars, SiteInv, Rights, HasSeenRow, LetInRightly,
         SecretIsThere, RegisteredRightly, UnderWay, CurrentRow
    <3> QED
      BY <3>1, <3>2 DEF SiteInv, Clock, Rights
  <2> QED
    BY <2>1, <2>2, <2>3, <2>4, <2>5 DEF SiteNext
<1>3. SiteInv => AccessSafety
  BY DEF SiteInv, AccessSafety, LetInRightly, SecretIsThere
<1> QED
  BY <1>1, <1>2, <1>3, PTL DEF SiteSpec

-----------------------------------------------------------------------------
(***************************************************************************)
(* Subscriptions: a row comes with its journal, and time goes on.          *)
(***************************************************************************)
SubscriptionInv ==
    /\ SubscriptionTypeOK /\ DefaultComesFirst
    /\ subscription = <<>> \/ \E row \in Window : subscription = <<row>>
    /\ events = <<>> <=> subscription = <<>>
    /\ \A r \in Requests : doing[r].at <= clock

LEMMA SubscriptionStart == ASSUME SubscriptionAssumption, SubscriptionInit PROVE SubscriptionInv
  BY DEF SubscriptionAssumption, SubscriptionInit, SubscriptionInv, SubscriptionTypeOK, NoCall,
     DefaultComesFirst, Actions

\* The end of a day some days on is later than where one stands.
LEMMA LaterEnd ==
    ASSUME NEW tick \in Nat, NEW days \in Nat
    PROVE  EndOfDay(tick, days) \in Nat /\ EndOfDay(tick, days) >= tick
<1>1. tick \div 2 \in Nat /\ 2 * (tick \div 2) + 1 >= tick
  BY Z3
<1> DEFINE half == tick \div 2
<1>2. half \in Nat /\ 2 * half + 1 >= tick
  BY <1>1
<1>3. EndOfDay(tick, days) = 2 * (half + days) + 1
  BY DEF EndOfDay
<1> HIDE DEF half
<1> QED
  BY <1>2, <1>3

LEMMA JournalGrows ==
    ASSUME NEW S, NEW journal \in Seq(S), NEW entry \in S
    PROVE  /\ Append(journal, entry) \in Seq(S) /\ Append(journal, entry) # <<>>
           /\ \A i \in DOMAIN Append(journal, entry) :
                 \/ i \in DOMAIN journal /\ Append(journal, entry)[i] = journal[i]
                 \/ i = Len(journal) + 1 /\ Append(journal, entry)[i] = entry
  OBVIOUS

\* What the calls write: a window, and one more entry.
LEMMA WriteStep ==
    ASSUME SubscriptionInv, NEW r \in Requests, NEW row \in Window, NEW action \in Actions,
           Write(row, action, r), action = "default_provision" => ~Configured
    PROVE  SubscriptionInv'
<1>1. /\ subscription' = <<row>> /\ events' = Append(events, action)
      /\ doing' = [doing EXCEPT ![r].call = "over"] /\ UNCHANGED <<clock, member>>
  BY DEF Write
<1>2. events \in Seq(Actions)
  BY DEF SubscriptionInv, SubscriptionTypeOK
<1>3. events' \in Seq(Actions) /\ events' # <<>>
  BY <1>1, <1>2, JournalGrows
<1>4. DefaultComesFirst'
  <2>1. ASSUME NEW i \in DOMAIN events', events'[i] = "default_provision" PROVE i = 1
    <3>1. CASE i \in DOMAIN events /\ events'[i] = events[i]
      BY <2>1, <3>1 DEF SubscriptionInv, DefaultComesFirst
    <3>2. CASE i = Len(events) + 1 /\ events'[i] = action
      <4>1. events = <<>>
        BY <2>1, <3>2 DEF SubscriptionInv, Configured
      <4> QED
        BY <3>2, <4>1
    <3> QED
      BY <1>1, <1>2, <2>1, <3>1, <3>2, JournalGrows
  <2> QED
    BY <2>1 DEF DefaultComesFirst
<1>5. SubscriptionTypeOK'
  <2>1. Len(subscription') = 1 /\ subscription'[1] \in Window
    BY <1>1
  <2> QED
    BY <1>1, <1>3, <2>1 DEF SubscriptionInv, SubscriptionTypeOK
<1>6. \A q \in Requests : doing'[q].at <= clock'
  BY <1>1 DEF SubscriptionInv, SubscriptionTypeOK
<1>7. subscription' # <<>>
  BY <1>1
<1> QED
  BY <1>1, <1>3, <1>4, <1>5, <1>6, <1>7 DEF SubscriptionInv

LEMMA DeclineStep ==
    ASSUME SubscriptionInv, NEW r \in Requests, Decline(r) PROVE SubscriptionInv'
  BY DEF SubscriptionInv, SubscriptionTypeOK, DefaultComesFirst, Decline

\* Read, extended, set and cancelled: all of it is written or declined.
LEMMA WritesOrDeclines ==
    ASSUME SubscriptionAssumption, SubscriptionInv, NEW r \in Requests,
           Read(r) \/ Set(r) \/ Extend(r) \/ Cancel(r)
    PROVE  \/ Decline(r)
           \/ \E row \in Window, action \in Actions :
                 /\ Write(row, action, r)
                 /\ action = "default_provision" => ~Configured
<1>1. /\ doing[r].at \in Nat /\ doing[r].days \in Nat /\ DefaultDays \in Nat
      /\ \A days \in {DefaultDays, doing[r].days}, tick \in Nat :
            EndOfDay(tick, days) \in Nat
      /\ Configured => subscription = <<Stored>> /\ Stored \in Window
      /\ \A from \in Nat, to \in Nat : [from |-> from, to |-> to, state |-> "active"] \in Window
  BY LaterEnd DEF SubscriptionAssumption, SubscriptionInv, SubscriptionTypeOK, Configured, Stored,
     Window
<1>2. CASE Read(r)
  BY <1>1, <1>2 DEF Read, ProvidesDefault, Actions
<1>3. CASE Set(r)
  <2>1. PICK from \in 0 .. LastTick :
           \E to \in {EndOfDay(from, doing[r].days)} \cup Given :
              IF to <= from \/ to - from > MaxSpan THEN Decline(r)
              ELSE Write([from |-> from, to |-> to, state |-> "active"], SetNamed(doing[r].at), r)
    BY <1>3 DEF Set
  <2>2. PICK to \in {EndOfDay(from, doing[r].days)} \cup Given :
              IF to <= from \/ to - from > MaxSpan THEN Decline(r)
              ELSE Write([from |-> from, to |-> to, state |-> "active"], SetNamed(doing[r].at), r)
    BY <2>1
  <2>3. from \in Nat /\ to \in Nat
    <3>1. from \in Nat /\ \A tick \in Given : tick \in Nat
      BY DEF SubscriptionAssumption
    <3>2. EndOfDay(from, doing[r].days) \in Nat
      BY <1>1, <3>1
    <3> QED
      BY <2>2, <3>1, <3>2
  <2>4. SetNamed(doing[r].at) \in Actions \ {"default_provision"}
    BY DEF SetNamed, Actions
  <2> QED
    BY <1>1, <2>2, <2>3, <2>4
<1>4. CASE Extend(r)
  <2> DEFINE now == doing[r].at
             from == IF Current(now) THEN Stored.from ELSE now
             to == EndOfDay(IF Current(now) THEN Stored.to ELSE now, doing[r].days)
  <2>1. from \in Nat /\ to \in Nat
    BY <1>1 DEF Current, Window
  <2>2. \/ Decline(r)
        \/ Write([from |-> from, to |-> to, state |-> "active"],
                 IF Current(now) THEN "extend" ELSE "renew", r)
    BY <1>4 DEF Extend
  <2> HIDE DEF now, from, to
  <2> QED
    BY <1>1, <2>1, <2>2 DEF Actions
<1>5. CASE Cancel(r)
  <2>1. Configured => [Stored EXCEPT !.state = "cancelled"] \in Window
    BY <1>1 DEF Window
  <2> QED
    BY <1>5, <2>1 DEF Cancel, Actions
<1> QED
  BY <1>2, <1>3, <1>4, <1>5

LEMMA SubscriptionStep ==
    ASSUME SubscriptionAssumption, SubscriptionInv, [SubscriptionNext]_subscriptionVars
    PROVE  SubscriptionInv'
<1>1. ASSUME NEW r \in Requests, Call(r) PROVE SubscriptionInv'
  BY <1>1 DEF SubscriptionAssumption, SubscriptionInv, SubscriptionTypeOK, DefaultComesFirst, Call
<1>2. ASSUME NEW r \in Requests, Read(r) \/ Set(r) \/ Extend(r) \/ Cancel(r) PROVE SubscriptionInv'
  BY <1>2, WritesOrDeclines, WriteStep, DeclineStep
<1>3. CASE Tick
  <2>1. clock' \in 0 .. LastTick /\ clock <= clock'
    BY <1>3 DEF Tick, SubscriptionInv, SubscriptionTypeOK, SubscriptionAssumption
  <2>2. \A r \in Requests : doing[r].at \in 0 .. LastTick
    BY DEF SubscriptionInv, SubscriptionTypeOK
  <2>3. \A r \in Requests : doing'[r].at <= clock'
    BY <1>3, <2>1, <2>2 DEF Tick, SubscriptionInv, SubscriptionTypeOK, SubscriptionAssumption
  <2> QED
    BY <1>3, <2>1, <2>3 DEF Tick, SubscriptionInv, SubscriptionTypeOK, DefaultComesFirst
<1>4. CASE ChangeRole \/ UNCHANGED subscriptionVars
  BY <1>4 DEF ChangeRole, subscriptionVars, SubscriptionInv, SubscriptionTypeOK, DefaultComesFirst
<1> QED
  BY <1>1, <1>2, <1>3, <1>4 DEF SubscriptionNext

\* An extension adds to a window that is on or still to come, and one that has
\* gone by covers no tick from now on.
LEMMA ExtensionKeeps ==
    ASSUME SubscriptionAssumption, SubscriptionInv, NEW r \in Requests, Extend(r),
           NEW tick \in clock .. LastTick + 8, Covers(subscription, tick)
    PROVE  Covers(subscription', tick)
<1> DEFINE now == doing[r].at
           from == IF Current(now) THEN Stored.from ELSE now
           to == EndOfDay(IF Current(now) THEN Stored.to ELSE now, doing[r].days)
<1>1. /\ now \in Nat /\ now <= clock /\ doing[r].days \in Nat /\ clock \in Nat /\ tick \in Nat
      /\ clock <= tick
  <2>1. clock \in Nat /\ LastTick \in Nat /\ clock <= LastTick
    BY DEF SubscriptionAssumption, SubscriptionInv, SubscriptionTypeOK
  <2>2. doing[r].at \in 0 .. LastTick /\ doing[r].days \in Lengths \cup {0} /\ doing[r].at <= clock
    BY DEF SubscriptionInv, SubscriptionTypeOK
  <2>3. \A days \in Lengths \cup {0} : days \in Nat
    BY DEF SubscriptionAssumption
  <2>4. tick \in Nat /\ clock <= tick
    BY <2>1
  <2>5. doing[r].at \in Nat /\ doing[r].at <= clock
    BY <2>1, <2>2
  <2>6. doing[r].days \in Nat
    BY <2>2, <2>3
  <2> QED
    BY <2>1, <2>4, <2>5, <2>6
<1>2. /\ Stored \in Window /\ Stored.state = "active" /\ Stored.from <= tick /\ tick <= Stored.to
      /\ Stored.from \in Nat /\ Stored.to \in Nat /\ Configured
  BY DEF SubscriptionInv, SubscriptionTypeOK, Covers, Stored, Configured, Window
<1>3. Current(now)
  BY <1>1, <1>2 DEF Current
<1>4. from = Stored.from /\ to >= Stored.to /\ to \in Nat
  BY <1>1, <1>2, <1>3, LaterEnd
<1>5. \/ UNCHANGED subscription
      \/ subscription' = <<[from |-> from, to |-> to, state |-> "active"]>>
  BY DEF Extend, Decline, Write
<1> HIDE DEF now, from, to
<1>6. CASE subscription' = <<[from |-> from, to |-> to, state |-> "active"]>>
  <2>1. subscription' # <<>> /\ subscription'[1] = [from |-> from, to |-> to, state |-> "active"]
    BY <1>6
  <2> QED
    BY <1>1, <1>2, <1>4, <2>1 DEF Covers
<1>7. CASE UNCHANGED subscription
  BY <1>7 DEF Covers
<1> QED
  BY <1>5, <1>6, <1>7

LEMMA AccessIsKept ==
    ASSUME SubscriptionAssumption, SubscriptionInv, [SubscriptionNext]_subscriptionVars,
           NEW r \in Requests, doing'[r].call = "over", doing[r].call \in {"read", "extend"},
           NEW tick \in clock .. LastTick + 8, Covers(subscription, tick)
    PROVE  Covers(subscription', tick)
<1>1. \A q \in Requests : doing[q] = [call |-> doing[q].call, at |-> doing[q].at, days |-> doing[q].days]
  BY DEF SubscriptionInv, SubscriptionTypeOK
<1>2. doing' # doing
  OBVIOUS
<1>3. CASE Extend(r)
  BY <1>3, ExtensionKeeps
<1>4. CASE Read(r)
  <2>1. Configured
    BY DEF Covers, Configured
  <2>2. UNCHANGED subscription
    BY <1>4, <2>1 DEF Read, ProvidesDefault, Decline
  <2> QED
    BY <2>2 DEF Covers
<1>5. ASSUME NEW q \in Requests, q # r,
             Call(q) \/ Read(q) \/ Set(q) \/ Extend(q) \/ Cancel(q)
      PROVE  FALSE
  <2>1. doing'[r] = doing[r]
    BY <1>5, WritesOrDeclines DEF Call, Write, Decline, SubscriptionInv, SubscriptionTypeOK
  <2> QED
    BY <2>1
<1>6. CASE Call(r) \/ Set(r) \/ Cancel(r)
  BY <1>6 DEF Call, Set, Cancel
<1>7. CASE Tick \/ ChangeRole \/ UNCHANGED subscriptionVars
  BY <1>2, <1>7 DEF Tick, ChangeRole, subscriptionVars
<1> QED
  BY <1>3, <1>4, <1>5, <1>6, <1>7 DEF SubscriptionNext

\* However reads, extensions and changes of one subscription overlap: nobody
\* loses a tick that was granted except by a cancellation or by a window set
\* anew, and the default comes before everything else or not at all
\* (subscription_for_user, extend_user_subscription).
THEOREM GrantedTimeIsKept ==
    ASSUME SubscriptionAssumption PROVE SubscriptionSpec => SubscriptionSafety
<1>1. SubscriptionInit => SubscriptionInv
  BY SubscriptionStart
<1>2. SubscriptionInv /\ [SubscriptionNext]_subscriptionVars => SubscriptionInv'
  BY SubscriptionStep
<1>3. SubscriptionInv => SubscriptionTypeOK /\ DefaultComesFirst
  BY DEF SubscriptionInv
<1>4. SubscriptionInv /\ [SubscriptionNext]_subscriptionVars
      => [\A r \in Requests :
             doing'[r].call = "over" /\ doing[r].call \in {"read", "extend"}
               => \A tick \in clock .. LastTick + 8 :
                     Covers(subscription, tick) => Covers(subscription', tick)]_subscriptionVars
  BY AccessIsKept
<1> QED
  BY <1>1, <1>2, <1>3, <1>4, PTL DEF SubscriptionSpec, SubscriptionSafety, AccessKept

-----------------------------------------------------------------------------
(***************************************************************************)
(* Announcements: what is under way knows no revision that is not there,   *)
(* and of the present one only its wording.                                *)
(***************************************************************************)
Known(i, revision, body) ==
    /\ revision <= item[i].revision
    /\ revision = item[i].revision => body = item[i].body

\* An announcement has a wording from its first revision on.
WordedRow(entry) ==
    /\ entry.live => entry.used
    /\ entry.used => entry.revision # 0 /\ entry.body \in Bodies
    /\ ~entry.used => entry.revision = 0
Worded(i) == WordedRow(item[i])

\* Read, not for an old client, means seen.
ReceiptOK(i) ==
    /\ receipt[i] <= item[i].revision
    /\ i \notin blind /\ receipt[i] # 0 /\ receipt[i] = item[i].revision
          => <<i, item[i].revision, item[i].body>> \in seen

PageOK(b, i) ==
    page[b][i].revision # 0 => /\ page[b][i].body \in Bodies
                               /\ Known(i, page[b][i].revision, page[b][i].body)

\* A receipt is for what was on the screen, and the server writes the one that
\* is under way.
SendingOK(b) ==
    LET sent == sending[b] IN
    sent # NoReceipt =>
        /\ sent.item \in Items /\ sent.revision # 0
        /\ sent.revision <= item[sent.item].revision
        /\ sent.revision = item[sent.item].revision
              => <<sent.item, item[sent.item].revision, item[sent.item].body>> \in seen

WritingOK(b) ==
    writing[b] # NoReceipt => /\ writing[b] = sending[b] /\ sending[b] # NoReceipt
                              /\ receipt[writing[b].item] <= writing[b].revision

\* One receipt of an announcement at a time.
OneWriter == \A b, c \in Tabs :
    writing[b] # NoReceipt /\ writing[c] # NoReceipt /\ writing[b].item = writing[c].item => b = c

EditOK(e) ==
    /\ editing[e].op = "update" => editing[e].item \in Items /\ editing[e].body \in Bodies
    /\ editing[e].op = "delete" => editing[e].item \in Items

AnnouncementsInv ==
    /\ AnnouncementsTypeOK
    /\ \A i \in Items : Worded(i) /\ ReceiptOK(i)
    /\ \A b \in Tabs, i \in Items : PageOK(b, i)
    /\ \A b \in Tabs : SendingOK(b) /\ WritingOK(b)
    /\ OneWriter
    /\ \A e \in Editors : EditOK(e)

Announced == [live : BOOLEAN, used : BOOLEAN, on : BOOLEAN,
              revision : 0 .. MaxRevision, body : Bodies \cup {NoItem}]
PageRow == [revision : 0 .. MaxRevision, body : Bodies \cup {NoItem}, unread : BOOLEAN]
ReceiptRow == [item : Items \cup {NoItem}, revision : 0 .. MaxRevision]

\* The rows, of one announcement, tab and receipt.
LEMMA RowTypes ==
    ASSUME AnnouncementsAssumption, AnnouncementsTypeOK
    PROVE  /\ \A i \in Items : item[i] \in Announced /\ receipt[i] \in 0 .. MaxRevision
           /\ \A b \in Tabs, i \in Items : page[b][i] \in PageRow
           /\ \A b \in Tabs : sending[b] \in ReceiptRow /\ writing[b] \in ReceiptRow
           /\ item \in [Items -> Announced]
           /\ page \in [Tabs -> [Items -> PageRow]]
           /\ sending \in [Tabs -> ReceiptRow] /\ writing \in [Tabs -> ReceiptRow]
           /\ NoReceipt \in ReceiptRow
           /\ MaxRevision \in Nat
  BY DEF AnnouncementsAssumption, AnnouncementsTypeOK, Announced, PageRow, ReceiptRow, NoReceipt

\* What an edit, a deletion and a receipt change of a row.
LEMMA Updates ==
    ASSUME NEW row \in Announced, NEW body \in Bodies, NEW on \in BOOLEAN,
           row.revision + 1 \in 0 .. MaxRevision
    PROVE  LET updated == Updated(row, body, on) IN
           /\ updated \in Announced /\ updated.live = row.live /\ updated.used = row.used
           /\ updated.revision = row.revision + 1 /\ updated.body = body
<1>1. Updated(row, body, on) \in Announced
  BY Zenon DEF Updated, Announced
<1> QED
  BY <1>1 DEF Updated, Announced

LEMMA Deletions ==
    ASSUME NEW row \in Announced
    PROVE  /\ Deleted(row) \in Announced /\ Deleted(row).live = FALSE
           /\ Deleted(row).used = row.used /\ Deleted(row).revision = row.revision
           /\ Deleted(row).body = row.body
  BY DEF Deleted, Announced

LEMMA PageEdits ==
    ASSUME NEW row \in PageRow
    PROVE  LET read == [row EXCEPT !.unread = FALSE] IN
           read \in PageRow /\ read.revision = row.revision /\ read.body = row.body
  BY DEF PageRow

LEMMA AnnouncementsStart ==
    ASSUME AnnouncementsAssumption, AnnouncementsInit PROVE AnnouncementsInv
<1>1. AnnouncementsTypeOK
  <2>1. NoBody \in Announced /\ NotLoaded \in PageRow /\ NoReceipt \in ReceiptRow
    BY DEF AnnouncementsAssumption, NoBody, Announced, NotLoaded, PageRow, NoReceipt, ReceiptRow
  <2> QED
    BY <2>1 DEF AnnouncementsAssumption, AnnouncementsInit, AnnouncementsTypeOK, NoEdit,
       Announced, PageRow, ReceiptRow
<1>2. \A i \in Items : Worded(i) /\ ReceiptOK(i)
  BY DEF AnnouncementsInit, Worded, WordedRow, ReceiptOK, NoBody
<1>3. \A b \in Tabs, i \in Items : PageOK(b, i)
  BY DEF AnnouncementsInit, PageOK, NotLoaded
<1>4. (\A b \in Tabs : SendingOK(b) /\ WritingOK(b)) /\ OneWriter
  BY DEF AnnouncementsInit, SendingOK, WritingOK, OneWriter
<1>5. \A e \in Editors : EditOK(e)
  BY DEF AnnouncementsInit, EditOK, NoEdit
<1> QED
  BY <1>1, <1>2, <1>3, <1>4, <1>5 DEF AnnouncementsInv

\* The administrators' steps: rows only go forward, and a wording changes with
\* its revision.
GoesForward(i) ==
    \/ /\ item'[i].revision = item[i].revision
       /\ item'[i].body = item[i].body
    \/ /\ item'[i].revision > item[i].revision

LEMMA RowsForward ==
    ASSUME AnnouncementsAssumption, AnnouncementsInv, AnnouncementsTypeOK',
           \A i \in Items : GoesForward(i) /\ Worded(i)',
           \A e \in Editors : EditOK(e)',
           UNCHANGED <<receipt, blind, tabVars>>
    PROVE  AnnouncementsInv'
<1>1. /\ \A i \in Items : item[i].revision \in Nat /\ item'[i].revision \in Nat
      /\ \A i \in Items : receipt[i] \in Nat
      /\ \A b \in Tabs : sending[b].revision \in Nat
      /\ \A b \in Tabs, i \in Items : page[b][i].revision \in Nat
  <2>1. AnnouncementsTypeOK
    BY DEF AnnouncementsInv
  <2> QED
    BY <2>1 DEF AnnouncementsTypeOK, AnnouncementsAssumption
<1>2. ASSUME NEW i \in Items PROVE ReceiptOK(i)'
  <2>1. ReceiptOK(i) /\ GoesForward(i) /\ UNCHANGED <<receipt, blind, seen>>
    BY DEF AnnouncementsInv, tabVars
  <2>2. CASE item'[i].revision = item[i].revision /\ item'[i].body = item[i].body
    BY <2>1, <2>2 DEF ReceiptOK
  <2>3. CASE item'[i].revision > item[i].revision
    BY <1>1, <2>1, <2>3 DEF ReceiptOK
  <2> QED
    BY <2>1, <2>2, <2>3 DEF GoesForward
<1>3. \A b \in Tabs, i \in Items : PageOK(b, i)'
  BY <1>1 DEF AnnouncementsInv, PageOK, Known, GoesForward, tabVars
<1>4. ASSUME NEW b \in Tabs PROVE SendingOK(b)' /\ WritingOK(b)'
  <2>1. SendingOK(b) /\ WritingOK(b)
    BY DEF AnnouncementsInv
  <2>2. SendingOK(b)'
    BY <1>1, <2>1 DEF SendingOK, GoesForward, tabVars
  <2>3. WritingOK(b)'
    BY <2>1 DEF WritingOK, tabVars
  <2> QED
    BY <2>2, <2>3
<1>5. OneWriter'
  BY DEF AnnouncementsInv, OneWriter, tabVars
<1> QED
  BY <1>2, <1>3, <1>4, <1>5 DEF AnnouncementsInv

LEMMA AdministratorStep ==
    ASSUME AnnouncementsAssumption, AnnouncementsInv,
           \/ \E i \in Items, body \in Bodies, on \in BOOLEAN :
                 \/ CreateAnnouncement(i, body, on)
                 \/ \E e \in Editors : LookToUpdate(e, i, body, on)
           \/ \E e \in Editors : UpdateAnnouncement(e) \/ DeleteAnnouncement(e)
           \/ \E e \in Editors, i \in Items : LookToDelete(e, i)
    PROVE  AnnouncementsInv' /\ UNCHANGED receipt
<1>1. /\ AnnouncementsTypeOK /\ \A i \in Items : Worded(i)
      /\ \A e \in Editors : EditOK(e)
      /\ \A i \in Items : item[i] \in Announced
      /\ item \in [Items -> Announced] /\ MaxRevision \in Nat /\ MaxRevision # 0
  BY RowTypes DEF AnnouncementsInv, AnnouncementsAssumption
<1> DEFINE EditRow == [op : {"none", "update", "delete"}, item : Items \cup {NoItem},
                    body : Bodies \cup {NoItem}, on : BOOLEAN]
<1>2. editing \in [Editors -> EditRow] /\ NoEdit \in EditRow
  BY <1>1 DEF AnnouncementsTypeOK, NoEdit
\* A row is replaced, or an edit is begun; one edit may end with it.
<1>3. ASSUME NEW i \in Items, NEW row \in Announced,
             item' = [item EXCEPT ![i] = row], WordedRow(row),
             \/ row.revision = item[i].revision /\ row.body = item[i].body
             \/ row.revision > item[i].revision,
             UNCHANGED <<receipt, blind, tabVars>>,
             \/ UNCHANGED editing
             \/ \E e \in Editors : editing' = [editing EXCEPT ![e] = NoEdit]
      PROVE  AnnouncementsInv'
  <2>1. item' \in [Items -> Announced] /\ editing' \in [Editors -> EditRow]
    BY <1>1, <1>2, <1>3
  <2>2. AnnouncementsTypeOK'
    BY <1>1, <1>3, <2>1 DEF AnnouncementsTypeOK, Announced, tabVars
  <2>3. \A j \in Items : GoesForward(j) /\ Worded(j)'
    BY <1>1, <1>3 DEF GoesForward, Worded
  <2>4. \A e \in Editors : EditOK(e)'
    BY <1>1, <1>2, <1>3 DEF EditOK, NoEdit
  <2> QED
    BY <1>3, <2>2, <2>3, <2>4, RowsForward
<1>4. ASSUME NEW e \in Editors, NEW edit \in EditRow, editing' = [editing EXCEPT ![e] = edit],
             edit.op = "update" => edit.item \in Items /\ edit.body \in Bodies,
             edit.op = "delete" => edit.item \in Items,
             UNCHANGED <<storeVars, tabVars>>
      PROVE  AnnouncementsInv'
  <2>1. AnnouncementsTypeOK'
    BY <1>1, <1>2, <1>4 DEF AnnouncementsTypeOK, storeVars, tabVars
  <2>2. \A j \in Items : GoesForward(j) /\ Worded(j)'
    BY <1>1, <1>4 DEF GoesForward, Worded, storeVars
  <2>3. \A d \in Editors : EditOK(d)'
    BY <1>1, <1>2, <1>4 DEF EditOK
  <2> QED
    BY <1>4, <2>1, <2>2, <2>3, RowsForward DEF storeVars
<1>5. ASSUME NEW i \in Items, NEW body \in Bodies, NEW on \in BOOLEAN,
             CreateAnnouncement(i, body, on)
      PROVE  AnnouncementsInv' /\ UNCHANGED receipt
  <2> DEFINE row == [live |-> TRUE, used |-> TRUE, on |-> on, revision |-> 1, body |-> body]
  <2>1. row \in Announced /\ item[i].revision = 0
    <3>1. 1 \in 0 .. MaxRevision
      BY <1>1
    <3>2. ~item[i].used /\ Worded(i)
      BY <1>1, <1>5 DEF CreateAnnouncement
    <3> QED
      BY <3>1, <3>2 DEF Announced, Worded, WordedRow
  <2>2. /\ item' = [item EXCEPT ![i] = row] /\ UNCHANGED <<receipt, blind, editing, tabVars>>
    BY <1>5 DEF CreateAnnouncement
  <2>3. WordedRow(row) /\ row.revision = 1
    BY DEF WordedRow
  <2>4. row.revision > item[i].revision
    BY <2>1, <2>3
  <2> HIDE DEF row
  <2> QED
    BY <1>3, <2>1, <2>2, <2>3, <2>4
<1>6. ASSUME NEW i \in Items, NEW body \in Bodies, NEW on \in BOOLEAN, NEW e \in Editors,
             LookToUpdate(e, i, body, on)
      PROVE  AnnouncementsInv' /\ UNCHANGED receipt
  <2> DEFINE edit == [op |-> "update", item |-> i, body |-> body, on |-> on]
  <2>1. edit \in EditRow /\ edit.item \in Items /\ edit.body \in Bodies
    OBVIOUS
  <2>2. editing' = [editing EXCEPT ![e] = edit] /\ UNCHANGED <<storeVars, tabVars>>
    BY <1>6 DEF LookToUpdate
  <2> HIDE DEF edit
  <2> QED
    BY <1>4, <2>1, <2>2 DEF storeVars
<1>7. ASSUME NEW e \in Editors, UpdateAnnouncement(e)
      PROVE  AnnouncementsInv' /\ UNCHANGED receipt
  <2> DEFINE i == editing[e].item
  <2>1. i \in Items /\ editing[e].body \in Bodies /\ editing[e].on \in BOOLEAN
    BY <1>1, <1>2, <1>7 DEF UpdateAnnouncement, EditOK
  <2>2. /\ editing' = [editing EXCEPT ![e] = NoEdit] /\ UNCHANGED <<receipt, blind, tabVars>>
        /\ \/ /\ item[i].live /\ item[i].revision < MaxRevision
              /\ item' = [item EXCEPT ![i] = Updated(item[i], editing[e].body, editing[e].on)]
           \/ UNCHANGED item
    BY <1>7 DEF UpdateAnnouncement
  <2>3. CASE UNCHANGED item
    BY <1>2, <1>4, <2>2, <2>3 DEF storeVars, NoEdit
  <2>4. CASE /\ item[i].live /\ item[i].revision < MaxRevision
             /\ item' = [item EXCEPT ![i] = Updated(item[i], editing[e].body, editing[e].on)]
    <3> DEFINE row == Updated(item[i], editing[e].body, editing[e].on)
    <3>1. item[i] \in Announced /\ item[i].revision \in Nat /\ item[i].revision < MaxRevision
      BY <1>1, <2>1, <2>4 DEF Announced
    <3>2. item' = [item EXCEPT ![i] = row]
      BY <2>4
    <3>3. item[i].used /\ item[i].live
      BY <1>1, <2>1, <2>4 DEF Worded, WordedRow
    <3> HIDE DEF i
    <3>4. /\ row \in Announced /\ row.live = item[i].live /\ row.used = item[i].used
          /\ row.revision = item[i].revision + 1 /\ row.body = editing[e].body
      <4>1. item[i].revision + 1 \in 0 .. MaxRevision
        BY <1>1, <3>1
      <4> QED
        BY <2>1, <3>1, <4>1, Updates, ZenonT(30)
    <3>5. WordedRow(row) /\ row.revision > item[i].revision
      BY <2>1, <3>1, <3>3, <3>4 DEF WordedRow
    <3> HIDE DEF row
    <3> QED
      BY <1>3, <2>1, <2>2, <3>2, <3>4, <3>5
  <2> QED
    BY <2>2, <2>3, <2>4
<1>8. ASSUME NEW e \in Editors, NEW i \in Items, LookToDelete(e, i)
      PROVE  AnnouncementsInv' /\ UNCHANGED receipt
  <2> DEFINE edit == [op |-> "delete", item |-> i, body |-> NoItem, on |-> FALSE]
  <2>1. edit \in EditRow /\ edit.item \in Items /\ edit.op = "delete"
    OBVIOUS
  <2>2. editing' = [editing EXCEPT ![e] = edit] /\ UNCHANGED <<storeVars, tabVars>>
    BY <1>8 DEF LookToDelete
  <2> HIDE DEF edit
  <2> QED
    BY <1>4, <2>1, <2>2 DEF storeVars
<1>9. ASSUME NEW e \in Editors, DeleteAnnouncement(e)
      PROVE  AnnouncementsInv' /\ UNCHANGED receipt
  <2> DEFINE i == editing[e].item
             row == Deleted(item[i])
  <2>1. i \in Items
    BY <1>1, <1>9 DEF DeleteAnnouncement, EditOK
  <2>2. /\ editing' = [editing EXCEPT ![e] = NoEdit] /\ UNCHANGED <<receipt, blind, tabVars>>
        /\ item' = [item EXCEPT ![i] = row]
    BY <1>9 DEF DeleteAnnouncement
  <2>3. /\ row \in Announced /\ row.live = FALSE /\ row.used = item[i].used
        /\ row.revision = item[i].revision /\ row.body = item[i].body
    BY <1>1, <2>1, Deletions
  <2>4. WordedRow(item[i])
    BY <1>1, <2>1 DEF Worded
  <2>5. WordedRow(row)
    BY <2>3, <2>4 DEF WordedRow
  <2> HIDE DEF row, i
  <2> QED
    BY <1>3, <2>1, <2>2, <2>3, <2>5
<1> QED
  BY <1>5, <1>6, <1>7, <1>8, <1>9

\* What a tab loads is what is there.
LEMMA LoadedPages ==
    ASSUME AnnouncementsAssumption, AnnouncementsInv, NEW b \in Tabs,
           page' = [page EXCEPT ![b] = [i \in Items |-> Loaded(i)]], UNCHANGED item
    PROVE  /\ page' \in [Tabs -> [Items -> PageRow]]
           /\ \A c \in Tabs, i \in Items : PageOK(c, i)'
<1>1. /\ page \in [Tabs -> [Items -> PageRow]]
      /\ \A i \in Items : item[i] \in Announced
  BY RowTypes DEF AnnouncementsInv
<1>2. ASSUME NEW i \in Items
      PROVE  /\ Loaded(i) \in PageRow
             /\ Loaded(i).revision # 0 => /\ Loaded(i).body \in Bodies
                                          /\ Loaded(i).revision = item[i].revision
                                          /\ Loaded(i).body = item[i].body
  <2>1. CASE Shown(i)
    <3>1. Loaded(i) = [revision |-> item[i].revision, body |-> item[i].body, unread |-> Unread(i)]
      BY <2>1 DEF Loaded
    <3>2. Unread(i) \in BOOLEAN
      BY DEF Unread, Shown
    <3>3. item[i].body \in Bodies
      BY <2>1 DEF Shown, AnnouncementsInv, Worded, WordedRow
    <3> QED
      BY <1>1, <3>1, <3>2, <3>3 DEF PageRow, Announced
  <2>2. CASE ~Shown(i)
    BY <2>2 DEF Loaded, NotLoaded, PageRow, AnnouncementsAssumption
  <2> QED
    BY <2>1, <2>2
<1>3. page' \in [Tabs -> [Items -> PageRow]]
  BY <1>1, <1>2
<1>4. ASSUME NEW c \in Tabs, NEW i \in Items PROVE PageOK(c, i)'
  <2>1. CASE c = b
    <3>1. page'[c][i] = Loaded(i)
      BY <1>1, <2>1
    <3> QED
      BY <1>1, <1>2, <3>1 DEF PageOK, Known, Announced
  <2>2. CASE c # b
    <3>1. page'[c][i] = page[c][i] /\ PageOK(c, i)
      BY <1>1, <2>2 DEF AnnouncementsInv
    <3> QED
      BY <3>1 DEF PageOK, Known
  <2> QED
    BY <2>1, <2>2
<1> QED
  BY <1>3, <1>4

LEMMA TabStep ==
    ASSUME AnnouncementsAssumption, AnnouncementsInv, NEW b \in Tabs,
           \/ LoadAnnouncements(b) \/ LookToDismiss(b) \/ LoseReceipt(b)
           \/ \E i \in Items : OpenAnnouncement(b, i)
    PROVE  AnnouncementsInv' /\ UNCHANGED receipt
<1>1. /\ AnnouncementsTypeOK /\ sending[b] \in ReceiptRow /\ writing[b] \in ReceiptRow
      /\ sending \in [Tabs -> ReceiptRow] /\ writing \in [Tabs -> ReceiptRow]
      /\ page \in [Tabs -> [Items -> PageRow]] /\ NoReceipt \in ReceiptRow
      /\ \A i \in Items : item[i] \in Announced /\ receipt[i] \in 0 .. MaxRevision
      /\ \A i \in Items : Worded(i) /\ ReceiptOK(i)
      /\ \A c \in Tabs : SendingOK(c) /\ WritingOK(c)
      /\ \A e \in Editors : EditOK(e)
  BY RowTypes DEF AnnouncementsInv
<1>2. ASSUME LoadAnnouncements(b) PROVE AnnouncementsInv' /\ UNCHANGED receipt
  <2>1. /\ page' \in [Tabs -> [Items -> PageRow]] /\ \A c \in Tabs, i \in Items : PageOK(c, i)'
        /\ UNCHANGED <<item, receipt, blind, editing, sending, writing, seen>>
    BY <1>2, LoadedPages DEF LoadAnnouncements, storeVars
  <2>2. AnnouncementsTypeOK'
    BY <1>1, <2>1 DEF AnnouncementsTypeOK, PageRow
  <2> QED
    BY <1>1, <2>1, <2>2 DEF AnnouncementsInv, Worded, ReceiptOK, SendingOK, WritingOK, OneWriter,
       EditOK
<1>3. ASSUME LoseReceipt(b) PROVE AnnouncementsInv' /\ UNCHANGED receipt
  <2>1. /\ sending' = [sending EXCEPT ![b] = NoReceipt] /\ writing[b] = NoReceipt
        /\ UNCHANGED <<item, receipt, blind, editing, page, writing, seen>>
    BY <1>3 DEF LoseReceipt, storeVars
  <2>2. sending' \in [Tabs -> ReceiptRow]
    BY <1>1, <2>1
  <2>3. AnnouncementsTypeOK'
    BY <1>1, <2>1, <2>2 DEF AnnouncementsTypeOK, ReceiptRow
  <2>4. \A c \in Tabs : sending'[c] = NoReceipt \/ sending'[c] = sending[c]
    BY <1>1, <2>1
  <2>5. \A c \in Tabs : SendingOK(c)'
    BY <1>1, <2>1, <2>4 DEF SendingOK
  <2>6. \A c \in Tabs : WritingOK(c)'
    BY <1>1, <2>1 DEF WritingOK
  <2> QED
    BY <1>1, <2>1, <2>3, <2>5, <2>6 DEF AnnouncementsInv, Worded, ReceiptOK, PageOK, Known,
       OneWriter, EditOK
<1>4. ASSUME LookToDismiss(b) PROVE AnnouncementsInv' /\ UNCHANGED receipt
  <2> DEFINE i == sending[b].item
  <2>1. /\ sending[b] # NoReceipt /\ writing[b] = NoReceipt
        /\ UNCHANGED <<item, receipt, blind, editing, seen>>
        /\ i \in Items
    BY <1>1, <1>4 DEF LookToDismiss, storeVars, SendingOK
  <2>2. CASE CurrentRevision(i, sending[b].revision)
    <3>1. /\ ReceiptLocked(i) /\ UNCHANGED <<page, sending>>
          /\ writing' = [writing EXCEPT ![b] = [item |-> i, revision |-> item[i].revision]]
      BY <1>4, <2>2 DEF LookToDismiss
    <3>2. sending[b].revision = item[i].revision
      BY <2>2 DEF CurrentRevision
    <3>3. sending[b] = [item |-> i, revision |-> item[i].revision]
      BY <1>1, <3>2 DEF ReceiptRow
    <3>4. writing' = [writing EXCEPT ![b] = sending[b]]
      BY <3>1, <3>3
    <3>5. writing' \in [Tabs -> ReceiptRow]
      BY <1>1, <3>4
    <3>6. AnnouncementsTypeOK'
      BY <1>1, <2>1, <3>1, <3>5 DEF AnnouncementsTypeOK, ReceiptRow
    <3>7. \A c \in Tabs : WritingOK(c)'
      <4>1. ASSUME NEW c \in Tabs, c # b PROVE WritingOK(c)'
        <5>1. writing'[c] = writing[c] /\ WritingOK(c)
          BY <1>1, <3>4, <4>1
        <5> QED
          BY <2>1, <3>1, <5>1 DEF WritingOK
      <4>2. receipt[i] <= sending[b].revision
        BY <1>1, <2>1, <3>2 DEF ReceiptOK
      <4>3. writing'[b] = sending[b]
        BY <1>1, <3>4
      <4>4. WritingOK(b)'
        BY <2>1, <3>1, <4>2, <4>3 DEF WritingOK
      <4> QED
        BY <4>1, <4>4
    <3>8. OneWriter'
      <4>1. ASSUME NEW c \in Tabs, c # b PROVE writing'[c].item # i /\ writing'[c] = writing[c]
        BY <1>1, <3>1, <3>4, <4>1 DEF ReceiptLocked
      <4>2. writing'[b].item = i
        BY <1>1, <3>4
      <4> HIDE DEF i
      <4> QED
        BY <4>1, <4>2 DEF AnnouncementsInv, OneWriter
    <3> QED
      BY <1>1, <2>1, <3>1, <3>6, <3>7, <3>8 DEF AnnouncementsInv, Worded, ReceiptOK, PageOK, Known,
         SendingOK, EditOK
  <2>3. CASE ~CurrentRevision(i, sending[b].revision)
    <3>1. /\ page' = [page EXCEPT ![b] = [j \in Items |-> Loaded(j)]]
          /\ sending' = [sending EXCEPT ![b] = NoReceipt] /\ UNCHANGED writing
      BY <1>4, <2>3 DEF LookToDismiss
    <3>2. page' \in [Tabs -> [Items -> PageRow]] /\ \A c \in Tabs, j \in Items : PageOK(c, j)'
      BY <2>1, <3>1, LoadedPages
    <3>3. sending' \in [Tabs -> ReceiptRow]
      BY <1>1, <3>1
    <3>4. AnnouncementsTypeOK'
      BY <1>1, <2>1, <3>1, <3>2, <3>3 DEF AnnouncementsTypeOK, PageRow, ReceiptRow
    <3>5. \A c \in Tabs : sending'[c] = NoReceipt \/ sending'[c] = sending[c]
      BY <1>1, <3>1
    <3>6. \A c \in Tabs : SendingOK(c)'
      BY <1>1, <2>1, <3>5 DEF SendingOK
    <3>7. \A c \in Tabs : WritingOK(c)'
      BY <1>1, <2>1, <3>1 DEF WritingOK
    <3> QED
      BY <1>1, <2>1, <3>1, <3>2, <3>4, <3>6, <3>7 DEF AnnouncementsInv, Worded, ReceiptOK,
         OneWriter, EditOK
  <2> QED
    BY <2>2, <2>3
<1>5. ASSUME NEW i \in Items, OpenAnnouncement(b, i) PROVE AnnouncementsInv' /\ UNCHANGED receipt
  <2> DEFINE read == <<i, page[b][i].revision, page[b][i].body>>
             sent == [item |-> i, revision |-> page[b][i].revision]
  <2>1. /\ page[b][i].revision # 0 /\ seen' = seen \cup {read}
        /\ UNCHANGED <<item, receipt, blind, editing, page, writing>>
        /\ \/ UNCHANGED sending
           \/ sending[b] = NoReceipt /\ sending' = [sending EXCEPT ![b] = sent]
    BY <1>1, <1>5 DEF OpenAnnouncement, storeVars
  <2>2. PageOK(b, i) /\ page[b][i] \in PageRow
    BY <1>1 DEF AnnouncementsInv
  <2>3. read \in Items \X (0 .. MaxRevision) \X Bodies /\ sent \in ReceiptRow
    BY <2>1, <2>2 DEF PageOK, PageRow, ReceiptRow
  <2>4. AnnouncementsTypeOK'
    <3>1. sending' \in [Tabs -> ReceiptRow]
      BY <1>1, <2>1, <2>3
    <3>2. seen' \subseteq Items \X (0 .. MaxRevision) \X Bodies
      BY <1>1, <2>1, <2>3 DEF AnnouncementsTypeOK
    <3> QED
      BY <1>1, <2>1, <3>1, <3>2 DEF AnnouncementsTypeOK, ReceiptRow
  <2>5. ASSUME NEW c \in Tabs PROVE SendingOK(c)'
    <3>1. CASE sending'[c] = sending[c]
      BY <1>1, <2>1, <3>1 DEF SendingOK
    <3>2. CASE sending'[c] = sent
      <4>1. /\ sending'[c].item = i /\ sending'[c].revision = page[b][i].revision
        BY <3>2
      <4>2. page[b][i].revision = item[i].revision
            => <<i, item[i].revision, item[i].body>> \in seen'
        BY <2>1, <2>2 DEF PageOK, Known
      <4>3. page[b][i].revision <= item[i].revision
        BY <2>1, <2>2 DEF PageOK, Known
      <4> QED
        BY <2>1, <4>1, <4>2, <4>3 DEF SendingOK
    <3> QED
      BY <1>1, <2>1, <3>1, <3>2
  <2>6. \A c \in Tabs : WritingOK(c)'
    <3>1. \A c \in Tabs : writing[c] # NoReceipt => sending'[c] = sending[c]
      BY <1>1, <2>1 DEF WritingOK
    <3> QED
      BY <1>1, <2>1, <3>1 DEF WritingOK
  <2>7. \A j \in Items : ReceiptOK(j)'
    BY <1>1, <2>1 DEF ReceiptOK
  <2> QED
    BY <1>1, <2>1, <2>4, <2>5, <2>6, <2>7 DEF AnnouncementsInv, Worded, PageOK, Known, OneWriter,
       EditOK
<1> QED
  BY <1>2, <1>3, <1>4, <1>5

\* A receipt is written: it is for what has been seen, and not older than the
\* one there.
LEMMA ReceiptStep ==
    ASSUME AnnouncementsAssumption, AnnouncementsInv, NEW b \in Tabs, DismissAnnouncement(b)
    PROVE  AnnouncementsInv' /\ \A j \in Items : receipt'[j] >= receipt[j]
<1>0. PICK i, read : i = writing[b].item /\ read = writing[b].revision
  OBVIOUS
<1>1. /\ AnnouncementsTypeOK /\ writing[b] # NoReceipt /\ writing[b] = sending[b]
      /\ i \in Items /\ read # 0 /\ receipt[i] <= read
      /\ read <= item[i].revision
      /\ read = item[i].revision => <<i, item[i].revision, item[i].body>> \in seen
      /\ receipt \in [Items -> 0 .. MaxRevision] /\ MaxRevision \in Nat
      /\ sending \in [Tabs -> ReceiptRow] /\ writing \in [Tabs -> ReceiptRow]
      /\ page \in [Tabs -> [Items -> PageRow]] /\ NoReceipt \in ReceiptRow
  BY <1>0, RowTypes DEF AnnouncementsInv, DismissAnnouncement, WritingOK, SendingOK,
     AnnouncementsTypeOK
<1>2. /\ receipt' = [receipt EXCEPT ![i] = read] /\ blind' = blind \ {i}
      /\ page' = [page EXCEPT ![b][i].unread = FALSE]
      /\ writing' = [writing EXCEPT ![b] = NoReceipt]
      /\ sending' = [sending EXCEPT ![b] = NoReceipt]
      /\ UNCHANGED <<item, editing, seen>>
  BY <1>0 DEF DismissAnnouncement
<1>3. read \in 0 .. MaxRevision
  BY <1>0, <1>1 DEF ReceiptRow
<1>4. page' = [page EXCEPT ![b] = [page[b] EXCEPT ![i] = [page[b][i] EXCEPT !.unread = FALSE]]]
  BY <1>1, <1>2
<1>5. /\ [page[b][i] EXCEPT !.unread = FALSE] \in PageRow
      /\ [page[b][i] EXCEPT !.unread = FALSE].revision = page[b][i].revision
      /\ [page[b][i] EXCEPT !.unread = FALSE].body = page[b][i].body
  <2>1. page[b][i] \in PageRow
    BY <1>1
  <2> QED
    BY <2>1, PageEdits
<1>6. /\ page' \in [Tabs -> [Items -> PageRow]]
      /\ \A c \in Tabs, j \in Items : /\ page'[c][j].revision = page[c][j].revision
                                      /\ page'[c][j].body = page[c][j].body
  BY <1>1, <1>4, <1>5
<1>7. receipt' \in [Items -> 0 .. MaxRevision] /\ sending' \in [Tabs -> ReceiptRow]
      /\ writing' \in [Tabs -> ReceiptRow]
  BY <1>1, <1>2, <1>3
<1>8. AnnouncementsTypeOK'
  BY <1>1, <1>2, <1>6, <1>7 DEF AnnouncementsTypeOK, PageRow, ReceiptRow
<1>9. \A j \in Items : receipt'[j] >= receipt[j]
  BY <1>1, <1>2
<1>10. \A j \in Items : Worded(j)' /\ ReceiptOK(j)'
  <2>1. ASSUME NEW j \in Items, j # i PROVE ReceiptOK(j)'
    <3>1. ReceiptOK(j) /\ receipt'[j] = receipt[j] /\ (j \in blind' <=> j \in blind)
      BY <1>1, <1>2, <2>1 DEF AnnouncementsInv
    <3> QED
      BY <1>2, <3>1 DEF ReceiptOK
  <2>2. ReceiptOK(i)'
    <3>1. receipt'[i] = read
      BY <1>1, <1>2
    <3>2. receipt'[i] <= item'[i].revision
      BY <1>1, <1>2, <3>1
    <3>3. receipt'[i] = item'[i].revision
          => <<i, item'[i].revision, item'[i].body>> \in seen'
      BY <1>1, <1>2, <3>1
    <3> QED
      BY <3>2, <3>3 DEF ReceiptOK
  <2>3. \A j \in Items : Worded(j)'
    BY <1>2 DEF AnnouncementsInv, Worded
  <2> QED
    BY <2>1, <2>2, <2>3
<1>11. \A c \in Tabs, j \in Items : PageOK(c, j)'
  BY <1>2, <1>6 DEF AnnouncementsInv, PageOK, Known
<1>12. ASSUME NEW c \in Tabs PROVE SendingOK(c)' /\ WritingOK(c)'
  <2>1. CASE c = b
    <3>1. sending'[c] = NoReceipt /\ writing'[c] = NoReceipt
      BY <1>1, <1>2, <2>1
    <3> QED
      BY <3>1 DEF SendingOK, WritingOK
  <2>2. CASE c # b
    <3>1. sending'[c] = sending[c] /\ writing'[c] = writing[c] /\ SendingOK(c) /\ WritingOK(c)
      BY <1>1, <1>2, <2>2 DEF AnnouncementsInv
    <3>2. writing[c] # NoReceipt => writing[c].item # i
      BY <1>0, <1>1, <2>2 DEF AnnouncementsInv, OneWriter
    <3>3. writing[c] # NoReceipt => writing[c].item \in Items
      BY <3>1 DEF SendingOK, WritingOK
    <3>4. writing[c] # NoReceipt => receipt'[writing[c].item] = receipt[writing[c].item]
      BY <1>1, <1>2, <3>2, <3>3
    <3>5. SendingOK(c)'
      BY <1>2, <3>1 DEF SendingOK
    <3>6. WritingOK(c)'
      BY <3>1, <3>4 DEF WritingOK
    <3> QED
      BY <3>5, <3>6
  <2> QED
    BY <2>1, <2>2
<1>13. OneWriter'
  BY <1>1, <1>2 DEF AnnouncementsInv, OneWriter
<1>14. \A e \in Editors : EditOK(e)'
  BY <1>2 DEF AnnouncementsInv, EditOK
<1> QED
  BY <1>8, <1>9, <1>10, <1>11, <1>12, <1>13, <1>14 DEF AnnouncementsInv

\* The receipt of an old client is for the present revision.
LEMMA OldClientStep ==
    ASSUME AnnouncementsAssumption, AnnouncementsInv,
           NEW revision \in 1 .. MaxRevision, DismissCurrent(revision)
    PROVE  AnnouncementsInv' /\ \A j \in Items : receipt'[j] >= receipt[j]
<1>1. PICK i \in Items :
         /\ Unread(i) /\ item[i].revision = revision /\ ReceiptLocked(i)
         /\ receipt' = [receipt EXCEPT ![i] = revision] /\ blind' = blind \cup {i}
         /\ UNCHANGED <<item, editing, tabVars>>
  BY DEF DismissCurrent
<1>2. /\ AnnouncementsTypeOK /\ receipt \in [Items -> 0 .. MaxRevision] /\ MaxRevision \in Nat
      /\ UNCHANGED <<page, sending, writing, seen>>
      /\ ReceiptOK(i) /\ revision \in 0 .. MaxRevision
  BY <1>1 DEF AnnouncementsInv, AnnouncementsAssumption, AnnouncementsTypeOK, tabVars
<1>3. AnnouncementsTypeOK'
  <2>1. receipt' \in [Items -> 0 .. MaxRevision] /\ blind' \subseteq Items
    BY <1>1, <1>2 DEF AnnouncementsTypeOK
  <2> QED
    BY <1>1, <1>2, <2>1 DEF AnnouncementsTypeOK
<1>4. \A j \in Items : receipt'[j] >= receipt[j]
  BY <1>1, <1>2 DEF ReceiptOK
<1>5. \A j \in Items : Worded(j)' /\ ReceiptOK(j)'
  <2>1. ASSUME NEW j \in Items PROVE ReceiptOK(j)'
    <3>1. CASE j = i
      <4>1. receipt'[i] = revision /\ i \in blind'
        BY <1>1, <1>2
      <4> QED
        BY <1>1, <1>2, <3>1, <4>1 DEF ReceiptOK
    <3>2. CASE j # i
      <4>1. ReceiptOK(j) /\ receipt'[j] = receipt[j] /\ (j \in blind' <=> j \in blind)
        BY <1>1, <1>2, <3>2 DEF AnnouncementsInv
      <4> QED
        BY <1>1, <1>2, <4>1 DEF ReceiptOK
    <3> QED
      BY <3>1, <3>2
  <2> QED
    BY <1>1, <2>1 DEF AnnouncementsInv, Worded
<1>6. ASSUME NEW c \in Tabs PROVE SendingOK(c)' /\ WritingOK(c)'
  <2>1. SendingOK(c) /\ WritingOK(c)
    BY DEF AnnouncementsInv
  <2>2. writing[c].item # i
    BY <1>1 DEF ReceiptLocked
  <2>3. writing[c] # NoReceipt => writing[c].item \in Items
    BY <2>1 DEF SendingOK, WritingOK
  <2>4. writing[c] # NoReceipt => receipt'[writing[c].item] = receipt[writing[c].item]
    BY <1>1, <1>2, <2>2, <2>3
  <2>5. SendingOK(c)'
    BY <1>1, <1>2, <2>1 DEF SendingOK
  <2>6. WritingOK(c)'
    BY <1>2, <2>1, <2>4 DEF WritingOK
  <2> QED
    BY <2>5, <2>6
<1> QED
  BY <1>1, <1>2, <1>3, <1>4, <1>5, <1>6 DEF AnnouncementsInv, PageOK, Known, OneWriter, EditOK

\* However administrators change and delete announcements while tabs load,
\* open and dismiss them: what counts as read has been on the screen in its
\* present wording, and a receipt never takes back a newer one
\* (update_announcement, dismiss_announcement).
THEOREM ReadingIsSeeing ==
    ASSUME AnnouncementsAssumption PROVE AnnouncementsSpec => AnnouncementsSafety
<1>1. AnnouncementsInit => AnnouncementsInv
  BY AnnouncementsStart
<1>2. AnnouncementsInv /\ [AnnouncementsNext]_announcementVars
      => AnnouncementsInv' /\ [\A i \in Items : receipt'[i] >= receipt[i]]_announcementVars
  <2> SUFFICES ASSUME AnnouncementsInv, [AnnouncementsNext]_announcementVars
               PROVE  AnnouncementsInv' /\ (UNCHANGED announcementVars
                                            \/ \A i \in Items : receipt'[i] >= receipt[i])
    OBVIOUS
  <2>1. \A i \in Items : receipt[i] \in Nat
    BY DEF AnnouncementsInv, AnnouncementsTypeOK, AnnouncementsAssumption
  <2>2. UNCHANGED receipt => \A i \in Items : receipt'[i] >= receipt[i]
    BY <2>1
  <2>3. CASE UNCHANGED announcementVars
    BY <2>3 DEF announcementVars, storeVars, tabVars, AnnouncementsInv, AnnouncementsTypeOK,
       Worded, ReceiptOK, PageOK, Known, SendingOK, WritingOK, OneWriter, EditOK
  <2>4. CASE AnnouncementsNext
    BY <2>2, <2>4, AdministratorStep, TabStep, ReceiptStep, OldClientStep DEF AnnouncementsNext
  <2> QED
    BY <2>3, <2>4
<1>3. AnnouncementsInv => AnnouncementsTypeOK /\ ReadMeansSeen
  <2> SUFFICES ASSUME AnnouncementsInv PROVE AnnouncementsTypeOK /\ ReadMeansSeen
    OBVIOUS
  <2>1. ASSUME NEW i \in Items \ blind, Shown(i), ~Unread(i)
        PROVE  <<i, item[i].revision, item[i].body>> \in seen
    BY <2>1 DEF AnnouncementsInv, Worded, WordedRow, ReceiptOK, Shown, Unread
  <2> QED
    BY <2>1 DEF AnnouncementsInv, ReadMeansSeen
<1> QED
  BY <1>1, <1>2, <1>3, PTL DEF AnnouncementsSpec, AnnouncementsSafety, ReceiptsGoForward

-----------------------------------------------------------------------------
(***************************************************************************)
(* The memory backend: a call that has not ended has the entry of its      *)
(* identifier to itself, and no time passes between the end of a run and   *)
(* the release of its entry.                                               *)
(***************************************************************************)
Entry == [state : {"none", "queued", "admitted", "expired", "ended"}, left : Nat]

Places == {"idle", "resolving", "waiting", "running", "closing", "over", "unresolved"}
CallerRow == [at : Places, id : CallIds, wait : Nat, beat : Nat, run : Nat]

InLine(c) == caller[c].at \in {"resolving", "waiting", "unresolved"}
HasEntry(c) == InLine(c) \/ caller[c].at \in {"running", "closing"}

\* A run renews its lease before it lapses.
EntryOfCaller(c) ==
    /\ InLine(c) => entries[caller[c].id].state = "queued"
    /\ caller[c].at = "running" => /\ entries[caller[c].id].state = "admitted"
                                   /\ entries[caller[c].id].left > caller[c].beat
    /\ caller[c].at = "closing" => /\ entries[caller[c].id].state = "admitted"
                                   /\ entries[caller[c].id].left > 0

OneCaller == \A c, d \in Callers :
    HasEntry(c) /\ HasEntry(d) /\ caller[c].id = caller[d].id => c = d

NumberedOnce ==
    /\ \A r \in CallIds : number[r] <= numbered
    /\ \A r, q \in CallIds : entries[r].state = "queued" /\ entries[q].state = "queued"
                             /\ number[r] = number[q] => r = q

\* What an entry counts for, and what the abstract specification sees of it.
Counts(entry) == entry.state = "admitted" /\ entry.left > 0
SeenAs(entry) == IF entry.state \in {"expired", "ended"} /\ entry.left = 0 THEN "none"
                 ELSE IF entry.state = "expired" THEN "admitted" ELSE entry.state

In(k) == {r \in CallIds : Counts(entries[r]) /\ k \in ScopesOf[r]}
WithinCeiling == \A k \in Scopes : Cardinality(In(k)) <= Ceiling[k]

MemoryInv ==
    /\ MemoryTypeOK /\ (\A c \in Callers : EntryOfCaller(c)) /\ OneCaller
    /\ NumberedOnce /\ NobodyStays /\ WithinCeiling

LEMMA MemoryConstants ==
    ASSUME MemoryAssumption
    PROVE  /\ QueueTicks \in Nat /\ RunTicks \in Nat /\ LeaseTicks \in Nat /\ StatusTicks \in Nat
           /\ BeatTicks \in Nat /\ LeaseTicks > 0 /\ StatusTicks > 0 /\ LeaseTicks > BeatTicks
           /\ \A k \in Scopes : Ceiling[k] \in Nat
           /\ \A l \in Limits, k \in Scopes : l[k] \in Nat /\ l[k] <= Ceiling[k]
           /\ \A r \in CallIds : ScopesOf[r] \subseteq Scopes
           /\ IsFiniteSet(CallIds)
  BY DEF MemoryAssumption

LEMMA FiniteScopes ==
    ASSUME MemoryAssumption, NEW k
    PROVE  IsFiniteSet(In(k)) /\ Cardinality(In(k)) \in Nat
  BY MemoryConstants, FS_Subset, FS_CardinalityType DEF In

LEMMA MemoryStart == ASSUME MemoryAssumption, MemoryInit PROVE MemoryInv
<1>1. MemoryTypeOK /\ \A c \in Callers : caller[c].at = "idle"
  BY MemoryConstants DEF MemoryInit, MemoryTypeOK, Absent, NewCaller
<1>2. WithinCeiling
  <2>1. ASSUME NEW k \in Scopes PROVE In(k) = {}
    BY DEF In, Counts, MemoryInit, Absent
  <2> QED
    BY <2>1, FS_EmptySet, MemoryConstants DEF WithinCeiling
<1>3. NumberedOnce /\ NobodyStays
  BY DEF MemoryInit, NumberedOnce, NobodyStays, Absent
<1> QED
  BY <1>1, <1>2, <1>3 DEF MemoryInv, EntryOfCaller, OneCaller, HasEntry, InLine

\* _memory_cleanup() touches nothing that is in line or counted, and changes
\* nothing that anybody sees.
LEMMA Cleaning ==
    ASSUME MemoryAssumption, MemoryTypeOK, NEW q \in CallIds
    PROVE  /\ CleanedUp[q] \in Entry
           /\ entries[q] \in Entry
           /\ CleanedUp[q].state = "queued" <=> entries[q].state = "queued"
           /\ CleanedUp[q].state = "admitted" <=> Counts(entries[q])
           /\ entries[q].state = "queued" \/ Counts(entries[q]) => CleanedUp[q] = entries[q]
           /\ SeenAs(CleanedUp[q]) = SeenAs(entries[q])
           /\ Counts(CleanedUp[q]) <=> Counts(entries[q])
<1>1. entries[q] \in Entry
  BY DEF MemoryTypeOK, Entry
<1>2. CleanedUp[q] =
        IF entries[q].state = "admitted" /\ entries[q].left = 0
        THEN [state |-> "expired", left |-> StatusTicks]
        ELSE IF entries[q].state \in {"expired", "ended"} /\ entries[q].left = 0 THEN Absent
        ELSE entries[q]
  BY DEF CleanedUp
<1>3. CASE entries[q].state = "admitted" /\ entries[q].left = 0
  BY <1>1, <1>2, <1>3, MemoryConstants DEF Counts, SeenAs, Entry
<1>4. CASE entries[q].state \in {"expired", "ended"} /\ entries[q].left = 0
  BY <1>1, <1>2, <1>4 DEF Counts, SeenAs, Entry, Absent
<1>5. CASE /\ ~(entries[q].state = "admitted" /\ entries[q].left = 0)
           /\ ~(entries[q].state \in {"expired", "ended"} /\ entries[q].left = 0)
  BY <1>1, <1>2, <1>5 DEF Counts, Entry
<1> QED
  BY <1>3, <1>4, <1>5

\* Who is counted in a scope is who the attempt finds active.
LEMMA ActiveAreCounted ==
    ASSUME MemoryAssumption, MemoryTypeOK, NEW k
    PROVE  ActiveIn(k) = In(k)
  BY Cleaning DEF ActiveIn, In

-----------------------------------------------------------------------------
\* One call steps, and touches the entry of its identifier at most; the others
\* may be cleaned up.
Cleaned1(q) == entries'[q] = entries[q] \/ entries'[q] = CleanedUp[q]
OnlyCaller(c) ==
    /\ \A d \in Callers \ {c} : caller'[d] = caller[d]
    /\ caller'[c].id = caller[c].id
OnlyEntry(r) == \A q \in CallIds \ {r} : Cleaned1(q)

LEMMA UntouchedEntry ==
    ASSUME MemoryAssumption, MemoryTypeOK, NEW q \in CallIds, Cleaned1(q)
    PROVE  /\ entries'[q].state = "queued" <=> entries[q].state = "queued"
           /\ Counts(entries'[q]) <=> Counts(entries[q])
           /\ SeenAs(entries'[q]) = SeenAs(entries[q])
           /\ entries[q].state = "queued" \/ Counts(entries[q]) => entries'[q] = entries[q]
  BY Cleaning DEF Cleaned1

\* What a call writes down of itself.
LEMMA CallerRows ==
    ASSUME MemoryTypeOK, NEW c \in Callers, NEW row \in CallerRow, row.id = caller[c].id,
           caller' = [caller EXCEPT ![c] = row]
    PROVE  caller' \in [Callers -> CallerRow] /\ OnlyCaller(c) /\ caller'[c] = row
<1>1. caller \in [Callers -> CallerRow]
  BY DEF MemoryTypeOK, CallerRow, Places
<1> QED
  BY <1>1 DEF OnlyCaller

LEMMA CallerMoves ==
    ASSUME MemoryTypeOK, NEW c \in Callers, NEW at \in Places,
           caller' = [caller EXCEPT ![c].at = at]
    PROVE  caller' \in [Callers -> CallerRow] /\ OnlyCaller(c) /\ caller'[c].at = at
<1> DEFINE row == [caller[c] EXCEPT !.at = at]
<1>1. row \in CallerRow /\ row.id = caller[c].id /\ row.at = at
  BY DEF MemoryTypeOK, CallerRow, Places
<1>2. caller' = [caller EXCEPT ![c] = row]
  OBVIOUS
<1> HIDE DEF row
<1> QED
  BY <1>1, <1>2, CallerRows

LEMMA CallerWaits ==
    ASSUME MemoryTypeOK, NEW c \in Callers, NEW at \in Places, NEW wait \in Nat,
           caller' = [caller EXCEPT ![c].at = at, ![c].wait = wait]
    PROVE  caller' \in [Callers -> CallerRow] /\ OnlyCaller(c) /\ caller'[c].at = at
<1> DEFINE row == [caller[c] EXCEPT !.at = at, !.wait = wait]
<1>0. caller \in [Callers -> CallerRow]
  BY DEF MemoryTypeOK, CallerRow, Places
<1>1. row \in CallerRow /\ row.id = caller[c].id /\ row.at = at
  BY <1>0 DEF CallerRow, Places
<1>2. caller' = [caller EXCEPT ![c] = row]
  BY <1>0
<1> HIDE DEF row
<1> QED
  BY <1>1, <1>2, CallerRows

RowAt(c, at, beat, run) == [caller[c] EXCEPT !.at = at, !.beat = beat, !.run = run]

LEMMA CallerStep ==
    ASSUME MemoryAssumption, MemoryInv, MemoryTypeOK', NEW c \in Callers, NEW r \in CallIds,
           r = caller[c].id, OnlyCaller(c), OnlyEntry(r),
           HasEntry(c) \/ entries[r].state = "none",
           EntryOfCaller(c)', entries'[r].state = "queued" => InLine(c)',
           NumberedOnce', WithinCeiling'
    PROVE  MemoryInv'
<1>1. ASSUME NEW d \in Callers, d # c, HasEntry(d) PROVE caller[d].id # r /\ caller[d].id \in CallIds
  <2>1. caller[d].id \in CallIds
    BY DEF MemoryInv, MemoryTypeOK
  <2>2. CASE HasEntry(c)
    BY <1>1, <2>1, <2>2 DEF MemoryInv, OneCaller
  <2>3. CASE entries[r].state = "none"
    BY <1>1, <2>1, <2>3 DEF MemoryInv, EntryOfCaller, HasEntry
  <2> QED
    BY <2>1, <2>2, <2>3
<1>2. ASSUME NEW d \in Callers PROVE EntryOfCaller(d)'
  <2>1. CASE d # c /\ HasEntry(d)
    <3>1. caller'[d] = caller[d] /\ caller[d].id # r /\ caller[d].id \in CallIds
      BY <1>1, <2>1 DEF OnlyCaller
    <3>2. EntryOfCaller(d) /\ caller[d].beat \in Nat /\ entries[caller[d].id].left \in Nat
      BY <3>1 DEF MemoryInv, MemoryTypeOK
    <3>3. entries[caller[d].id].state = "queued" \/ Counts(entries[caller[d].id])
      BY <2>1, <3>2 DEF EntryOfCaller, HasEntry, Counts
    <3>4. entries'[caller[d].id] = entries[caller[d].id]
      BY <3>1, <3>3, UntouchedEntry DEF OnlyEntry, MemoryInv
    <3> QED
      BY <3>1, <3>2, <3>4 DEF EntryOfCaller, InLine
  <2>2. CASE d # c /\ ~HasEntry(d)
    <3>1. caller'[d] = caller[d]
      BY <2>2 DEF OnlyCaller
    <3> QED
      BY <2>2, <3>1 DEF EntryOfCaller, HasEntry, InLine
  <2> QED
    BY <2>1, <2>2
<1>3. OneCaller'
  <2>1. ASSUME NEW d \in Callers, d # c, HasEntry(d)' PROVE caller'[d].id # r /\ HasEntry(d)
    <3>1. caller'[d] = caller[d]
      BY <2>1 DEF OnlyCaller
    <3>2. HasEntry(d)
      BY <2>1, <3>1 DEF HasEntry, InLine
    <3> QED
      BY <1>1, <2>1, <3>1, <3>2
  <2>2. ASSUME NEW d \in Callers, NEW e \in Callers, HasEntry(d)', HasEntry(e)',
               caller'[d].id = caller'[e].id
        PROVE  d = e
    <3>1. CASE d = c \/ e = c
      BY <2>1, <2>2, <3>1 DEF OnlyCaller
    <3>2. CASE d # c /\ e # c
      <4>1. HasEntry(d) /\ HasEntry(e) /\ caller[d].id = caller[e].id
        BY <2>1, <2>2, <3>2 DEF OnlyCaller
      <4> QED
        BY <4>1 DEF MemoryInv, OneCaller
    <3> QED
      BY <3>1, <3>2
  <2> QED
    BY <2>2 DEF OneCaller
<1>4. NobodyStays'
  <2>1. ASSUME NEW q \in CallIds, entries'[q].state = "queued"
        PROVE  \E d \in Callers : caller'[d].id = q
                   /\ caller'[d].at \in {"resolving", "waiting", "unresolved"}
    <3>1. CASE q = r
      BY <2>1, <3>1 DEF InLine, OnlyCaller
    <3>2. CASE q # r
      <4>1. entries[q].state = "queued"
        BY <2>1, <3>2, UntouchedEntry DEF OnlyEntry, MemoryInv
      <4>2. PICK d \in Callers : caller[d].id = q
                                 /\ caller[d].at \in {"resolving", "waiting", "unresolved"}
        BY <4>1 DEF MemoryInv, NobodyStays
      <4>3. caller'[d] = caller[d]
        BY <3>2, <4>2 DEF OnlyCaller
      <4> QED
        BY <4>2, <4>3
    <3> QED
      BY <3>1, <3>2
  <2> QED
    BY <2>1 DEF NobodyStays
<1> QED
  BY <1>2, <1>3, <1>4 DEF MemoryInv

\* Numbers stay, and nobody joins the line.
LEMMA SameNumbers ==
    ASSUME MemoryInv, UNCHANGED <<numbered, number>>,
           \A q \in CallIds : entries'[q].state = "queued" => entries[q].state = "queued"
    PROVE  NumberedOnce'
  BY DEF MemoryInv, NumberedOnce

\* Nobody is counted who was not.
LEMMA FewerCounted ==
    ASSUME MemoryAssumption, MemoryInv,
           \A q \in CallIds : Counts(entries'[q]) => Counts(entries[q])
    PROVE  WithinCeiling'
<1>1. ASSUME NEW k \in Scopes PROVE Cardinality(In(k)') <= Ceiling[k]
  <2>1. In(k)' \subseteq In(k)
    BY DEF In
  <2>2. Cardinality(In(k)') <= Cardinality(In(k)) /\ Cardinality(In(k)') \in Nat
    BY <2>1, FiniteScopes, FS_Subset, FS_CardinalityType
  <2>3. Cardinality(In(k)) <= Ceiling[k] /\ Ceiling[k] \in Nat /\ Cardinality(In(k)) \in Nat
    BY MemoryConstants, FiniteScopes DEF MemoryInv, WithinCeiling
  <2> QED
    BY <2>2, <2>3
<1> QED
  BY <1>1 DEF WithinCeiling

-----------------------------------------------------------------------------
(* What the abstract specification sees of a step. *)

LineStep == [Line!Next]_(Line!vars)

Phases == [r \in CallIds |-> SeenAs(entries[r])]
Counting == [k \in Scopes |-> In(k)]

SeenPhases == [r \in CallIds |-> IF Lapsed(r) THEN "none"
                                  ELSE IF entries[r].state = "expired" THEN "admitted"
                                  ELSE entries[r].state]
SeenCounts == [k \in Scopes |-> {r \in CallIds :
    entries[r].state = "admitted" /\ entries[r].left > 0 /\ k \in ScopesOf[r]}]

LineSeen == SeenPhases = Phases /\ SeenCounts = Counting

LEMMA LineIsSeen == LineSeen
  BY DEF LineSeen, SeenPhases, SeenCounts, Lapsed, SeenAs, In, Counts, Phases, Counting

LEMMA LineIsSeenNext == LineSeen'
  BY LineIsSeen, PTL

\* Others are seen as before.
OthersSeen(r) == \A q \in CallIds \ {r} : /\ SeenAs(entries'[q]) = SeenAs(entries[q])
                                          /\ Counts(entries'[q]) <=> Counts(entries[q])

\* Nothing, for somebody who sees what counts.
LEMMA LineUnchanged ==
    ASSUME UNCHANGED number,
           \A q \in CallIds : /\ SeenAs(entries'[q]) = SeenAs(entries[q])
                              /\ Counts(entries'[q]) <=> Counts(entries[q])
    PROVE  LineStep
<1>1. Phases' = Phases
  BY DEF Phases
<1>2. Counting' = Counting
  BY DEF Counting, In
<1> QED
  BY <1>1, <1>2, LineIsSeen, LineIsSeenNext DEF LineStep, LineSeen, SeenPhases,
     SeenCounts, Line!vars

\* A call gets a new number and a place in line.
LEMMA LineJoins ==
    ASSUME MemoryAssumption, MemoryInv, NEW r \in CallIds, OthersSeen(r),
           SeenAs(entries[r]) = "none", SeenAs(entries'[r]) = "queued",
           ~Counts(entries[r]), ~Counts(entries'[r]),
           number' = [number EXCEPT ![r] = numbered + 1]
    PROVE  LineStep
<1>1. Phases[r] = "none" /\ Phases' = [Phases EXCEPT ![r] = "queued"]
  BY DEF Phases, OthersSeen
<1>2. Counting' = Counting
  BY DEF Counting, In, OthersSeen
<1>3. /\ number \in [CallIds -> Nat] /\ numbered \in Nat /\ \A q \in CallIds : number[q] <= numbered
  BY DEF MemoryInv, MemoryTypeOK, NumberedOnce
<1>4. /\ DOMAIN number' = CallIds /\ \A q \in CallIds : number'[r] > number[q]
      /\ \A q \in CallIds \ {r} : number'[q] = number[q]
  BY <1>3
<1>5. Line!Join(r)
  BY <1>1, <1>2, <1>4, LineIsSeen, LineIsSeenNext DEF LineSeen, SeenPhases, SeenCounts, Line!Join
<1> QED
  BY <1>5 DEF LineStep, Line!Next

LEMMA LineLeaves ==
    ASSUME NEW r \in CallIds, OthersSeen(r), UNCHANGED number,
           SeenAs(entries[r]) \in {"queued", "admitted"}, SeenAs(entries'[r]) = "ended",
           ~Counts(entries'[r])
    PROVE  LineStep
<1>1. Phases[r] \in {"queued", "admitted"} /\ Phases' = [Phases EXCEPT ![r] = "ended"]
  BY DEF Phases, OthersSeen
<1>2. Counting' = [k \in Scopes |-> Counting[k] \ {r}]
  BY DEF Counting, In, OthersSeen
<1>3. Line!Leave(r)
  BY <1>1, <1>2, LineIsSeen, LineIsSeenNext DEF LineSeen, SeenPhases, SeenCounts, Line!Leave
<1> QED
  BY <1>3 DEF LineStep, Line!Next

\* Line!Admit, of phases and counts by any other name.
Admits(r, phases, counts, phasesNext, countsNext) ==
    /\ phases[r] = "queued"
    /\ \A q \in CallIds \ {r} :
          phases[q] = "queued" /\ Line!Rivals(r, q) => number[r] < number[q]
    /\ \A k \in ScopesOf[r] : Cardinality(counts[k]) < Ceiling[k]
    /\ phasesNext = [phases EXCEPT ![r] = "admitted"]
    /\ countsNext = [k \in Scopes |-> IF k \in ScopesOf[r] THEN counts[k] \cup {r} ELSE counts[k]]
    /\ UNCHANGED number

LEMMA LineCounts == \A S : Line!Cardinality(S) = Cardinality(S)
  BY DEF Line!Cardinality, Cardinality

LEMMA AdmitsIsAdmit ==
    ASSUME NEW r \in CallIds, Admits(r, Phases, Counting, Phases', Counting') PROVE Line!Admit(r)
<1>1. Admits(r, SeenPhases, SeenCounts, SeenPhases', SeenCounts')
  BY LineIsSeen, LineIsSeenNext, Zenon DEF LineSeen
<1>2. SeenPhases[r] = "queued" /\ SeenPhases' = [SeenPhases EXCEPT ![r] = "admitted"]
      /\ UNCHANGED number
  BY <1>1, Zenon DEF Admits
<1>3. \A q \in CallIds \ {r} :
         SeenPhases[q] = "queued" /\ Line!Rivals(r, q) => number[r] < number[q]
  BY <1>1, Zenon DEF Admits
<1>4. \A k \in ScopesOf[r] : Line!Cardinality(SeenCounts[k]) < Ceiling[k]
  BY <1>1, LineCounts DEF Admits
<1>5. SeenCounts' = [k \in Scopes |->
                      IF k \in ScopesOf[r] THEN SeenCounts[k] \cup {r} ELSE SeenCounts[k]]
  BY <1>1, Zenon DEF Admits
<1> QED
  BY <1>2, <1>3, <1>4, <1>5, Zenon DEF SeenPhases, SeenCounts, Line!Admit

\* Nobody earlier shares a first-come scope with it, and there is room.
LEMMA LineAdmits ==
    ASSUME MemoryAssumption, MemoryInv, NEW r \in CallIds, OthersSeen(r), UNCHANGED number,
           entries[r].state = "queued", SeenAs(entries'[r]) = "admitted", Counts(entries'[r]),
           NEW limits \in Limits, MayEnter(r, limits)
    PROVE  LineStep
<1>1. Phases[r] = "queued" /\ Phases' = [Phases EXCEPT ![r] = "admitted"]
  <2>1. SeenAs(entries[r]) = "queued"
    BY DEF SeenAs
  <2> QED
    BY <2>1 DEF Phases, OthersSeen
<1>2. Counting' = [k \in Scopes |-> IF k \in ScopesOf[r] THEN Counting[k] \cup {r} ELSE Counting[k]]
  BY DEF Counting, In, OthersSeen, Counts
<1>3. ASSUME NEW k \in ScopesOf[r] PROVE Cardinality(Counting[k]) < Ceiling[k]
  <2>1. /\ k \in Scopes /\ limits[k] <= Ceiling[k] /\ limits[k] \in Nat /\ Ceiling[k] \in Nat
        /\ Cardinality(In(k)) \in Nat
    BY MemoryConstants, FiniteScopes
  <2>2. Cardinality(In(k)) < limits[k]
    BY ActiveAreCounted DEF MayEnter, MemoryInv
  <2> QED
    BY <2>1, <2>2 DEF Counting
<1>4. ASSUME NEW q \in CallIds \ {r}, Phases[q] = "queued", Line!Rivals(r, q)
      PROVE  number[r] < number[q]
  <2>1. entries[q].state = "queued" /\ number[q] \in Nat /\ number[r] \in Nat
    BY <1>4 DEF Phases, SeenAs, MemoryInv, MemoryTypeOK
  <2>2. number[q] # number[r]
    BY <1>4, <2>1 DEF MemoryInv, NumberedOnce
  <2>3. ~(number[q] < number[r])
    BY <1>4, <2>1 DEF MayEnter, Earlier, Line!Rivals
  <2> QED
    BY <2>1, <2>2, <2>3
<1>5. Line!Admit(r)
  BY <1>1, <1>2, <1>3, <1>4, AdmitsIsAdmit DEF Admits
<1> QED
  BY <1>5 DEF LineStep, Line!Next

-----------------------------------------------------------------------------
LEMMA AskStep ==
    ASSUME MemoryAssumption, MemoryInv, NEW c \in Callers, AskForPlace(c)
    PROVE  MemoryInv' /\ LineStep
<1>0. PICK r \in CallIds : r = caller[c].id
  BY DEF MemoryInv, MemoryTypeOK
<1>1. /\ MemoryTypeOK /\ caller[c].at = "idle" /\ ~HasEntry(c) /\ ~InLine(c)
      /\ QueueTicks \in Nat /\ entries[r] \in Entry
  BY <1>0, MemoryConstants DEF AskForPlace, MemoryInv, HasEntry, InLine, MemoryTypeOK, Entry
<1>2. CASE entries[r].state # "none"
  <2>1. /\ UNCHANGED <<entries, numbered, number, condition>>
        /\ caller' = [caller EXCEPT ![c].at = "over"]
    BY <1>0, <1>2 DEF AskForPlace, Place
  <2>2. /\ \A d \in Callers \ {c} : caller'[d] = caller[d]
        /\ caller'[c].at = "over" /\ caller' \in [Callers -> CallerRow]
    BY <1>1, <2>1, CallerMoves DEF OnlyCaller, Places
  <2>3. MemoryTypeOK'
    BY <1>1, <2>1, <2>2 DEF MemoryTypeOK, CallerRow, Places
  <2>4. (\A d \in Callers : EntryOfCaller(d)') /\ OneCaller'
    <3>1. ASSUME NEW d \in Callers, HasEntry(d)' PROVE d # c /\ caller'[d] = caller[d] /\ HasEntry(d)
      BY <2>2, <3>1 DEF HasEntry, InLine
    <3>2. OneCaller'
      BY <3>1 DEF MemoryInv, OneCaller
    <3>3. ASSUME NEW d \in Callers PROVE EntryOfCaller(d)'
      <4>1. CASE HasEntry(d)'
        BY <2>1, <3>1, <4>1 DEF MemoryInv, EntryOfCaller, InLine
      <4>2. CASE ~HasEntry(d)'
        BY <4>2 DEF EntryOfCaller, HasEntry, InLine
      <4> QED
        BY <4>1, <4>2
    <3> QED
      BY <3>2, <3>3
  <2>5. NobodyStays'
    <3>1. ASSUME NEW q \in CallIds, entries'[q].state = "queued"
          PROVE  \E d \in Callers : /\ caller'[d].id = q
                                    /\ caller'[d].at \in {"resolving", "waiting", "unresolved"}
      <4>1. PICK d \in Callers : /\ caller[d].id = q
                                 /\ caller[d].at \in {"resolving", "waiting", "unresolved"}
        BY <2>1, <3>1 DEF MemoryInv, NobodyStays
      <4>2. caller'[d] = caller[d]
        BY <1>1, <2>2, <4>1
      <4> QED
        BY <4>1, <4>2
    <3> QED
      BY <3>1 DEF NobodyStays
  <2>6. NumberedOnce' /\ WithinCeiling'
    BY <2>1 DEF MemoryInv, NumberedOnce, WithinCeiling, In
  <2> QED
    BY <2>1, <2>3, <2>4, <2>5, <2>6, LineUnchanged DEF MemoryInv
<1>3. CASE entries[r].state = "none"
  <2>1. /\ numbered' = numbered + 1 /\ number' = [number EXCEPT ![r] = numbered + 1]
        /\ entries' = [entries EXCEPT ![r] = [state |-> "queued", left |-> 0]]
        /\ caller' = [caller EXCEPT ![c].at = "resolving", ![c].wait = QueueTicks]
        /\ condition' = c
    BY <1>0, <1>3 DEF AskForPlace, Entered
  <2>2. OnlyCaller(c) /\ caller'[c].at = "resolving" /\ caller' \in [Callers -> CallerRow]
    BY <1>1, <2>1, CallerWaits DEF Places
  <2>3. /\ entries'[r] = [state |-> "queued", left |-> 0]
        /\ \A q \in CallIds \ {r} : entries'[q] = entries[q]
        /\ entries' \in [CallIds -> Entry]
    BY <1>1, <2>1 DEF MemoryTypeOK, Entry
  <2>10. MemoryTypeOK'
    BY <1>1, <2>1, <2>2, <2>3 DEF MemoryTypeOK, Entry, CallerRow, Places
  <2>4. NumberedOnce'
    <3>1. /\ number \in [CallIds -> Nat] /\ numbered \in Nat /\ NumberedOnce
      BY DEF MemoryInv, MemoryTypeOK
    <3>2. /\ number'[r] = numbered + 1 /\ \A q \in CallIds \ {r} : number'[q] = number[q]
      BY <2>1, <3>1
    <3> QED
      BY <2>1, <2>3, <3>1, <3>2 DEF NumberedOnce
  <2>5. ~Counts(entries[r]) /\ ~Counts(entries'[r]) /\ SeenAs(entries[r]) = "none"
        /\ SeenAs(entries'[r]) = "queued" /\ entries'[r].state = "queued"
    BY <1>3, <2>3 DEF Counts, SeenAs
  <2>6. WithinCeiling'
    BY <2>3, <2>5, FewerCounted
  <2>7. InLine(c)' /\ EntryOfCaller(c)'
    BY <1>0, <2>2, <2>3 DEF InLine, EntryOfCaller, OnlyCaller
  <2>8. OnlyEntry(r) /\ OthersSeen(r)
    BY <2>3 DEF OnlyEntry, Cleaned1, OthersSeen
  <2>9. MemoryInv'
    BY <1>0, <1>3, <2>2, <2>4, <2>6, <2>7, <2>8, <2>10, CallerStep
  <2> QED
    BY <2>1, <2>5, <2>8, <2>9, LineJoins
<1> QED
  BY <1>2, <1>3

LEMMA AttemptStep ==
    ASSUME MemoryAssumption, MemoryInv, NEW c \in Callers, NEW limits \in Limits,
           Attempt(c, limits)
    PROVE  MemoryInv' /\ LineStep
<1>0. PICK r \in CallIds : r = caller[c].id
  BY DEF MemoryInv, MemoryTypeOK
<1>1. /\ MemoryTypeOK /\ caller[c].at = "resolving" /\ HasEntry(c)
      /\ entries[r].state = "queued" /\ UNCHANGED <<numbered, number>> /\ condition' = Released
      /\ LeaseTicks \in Nat /\ BeatTicks \in Nat /\ RunTicks \in Nat /\ StatusTicks \in Nat
      /\ LeaseTicks > BeatTicks /\ LeaseTicks > 0 /\ StatusTicks > 0
      /\ CleanedUp \in [CallIds -> Entry]
  <2>1. \A q \in CallIds : CleanedUp[q] \in Entry
    BY Cleaning DEF MemoryInv
  <2>2. CleanedUp = [q \in CallIds |-> CleanedUp[q]]
    BY DEF CleanedUp
  <2> QED
    BY <1>0, <2>1, <2>2, MemoryConstants DEF Attempt, MemoryInv, EntryOfCaller, HasEntry, InLine
<1>2. ASSUME NEW entry \in Entry, entries' = [CleanedUp EXCEPT ![r] = entry]
      PROVE  /\ entries' \in [CallIds -> Entry] /\ entries'[r] = entry
             /\ OnlyEntry(r) /\ OthersSeen(r)
             /\ \A q \in CallIds \ {r} : /\ entries'[q].state = "queued" <=> entries[q].state = "queued"
                                         /\ Counts(entries'[q]) <=> Counts(entries[q])
  <2>1. entries' \in [CallIds -> Entry] /\ entries'[r] = entry /\ OnlyEntry(r)
    BY <1>1, <1>2 DEF OnlyEntry, Cleaned1
  <2> QED
    BY <1>1, <2>1, UntouchedEntry DEF OnlyEntry, OthersSeen
<1>3. CASE MayEnter(r, limits)
  <2> DEFINE entry == [state |-> "admitted", left |-> LeaseTicks]
  <2>1. /\ entries' = [CleanedUp EXCEPT ![r] = entry]
        /\ caller' = [caller EXCEPT ![c].at = "running", ![c].beat = BeatTicks, ![c].run = RunTicks]
    BY <1>0, <1>3 DEF Attempt
  <2>2. entry \in Entry /\ entry.state = "admitted" /\ entry.left = LeaseTicks /\ Counts(entry)
        /\ SeenAs(entry) = "admitted"
    BY <1>1 DEF Entry, Counts, SeenAs
  <2> HIDE DEF entry
  <2>3. /\ entries' \in [CallIds -> Entry] /\ entries'[r] = entry
        /\ OnlyEntry(r) /\ OthersSeen(r)
        /\ \A q \in CallIds \ {r} : /\ entries'[q].state = "queued" <=> entries[q].state = "queued"
                                    /\ Counts(entries'[q]) <=> Counts(entries[q])
    BY <1>2, <2>1, <2>2
  <2>4. /\ OnlyCaller(c) /\ caller'[c].at = "running" /\ caller'[c].beat = BeatTicks
        /\ caller'[c].id = r /\ caller' \in [Callers -> CallerRow]
    <3>1. /\ OnlyCaller(c) /\ caller'[c].at = "running" /\ caller' \in [Callers -> CallerRow]
          /\ caller'[c].beat = BeatTicks
      <4>1. "running" \in Places /\ MemoryTypeOK /\ BeatTicks \in Nat /\ RunTicks \in Nat
        BY <1>1 DEF Places
      <4>2. caller' = [caller EXCEPT ![c] = RowAt(c, "running", BeatTicks, RunTicks)]
        BY <2>1, <4>1 DEF MemoryTypeOK, RowAt
      <4> QED
        <5> DEFINE row == RowAt(c, "running", BeatTicks, RunTicks)
        <5>1. /\ row \in CallerRow /\ row.id = caller[c].id /\ row.at = "running"
              /\ row.beat = BeatTicks
          <6>1. caller[c] \in CallerRow
            BY <4>1 DEF MemoryTypeOK, CallerRow, Places
          <6> QED
            BY <4>1, <6>1 DEF CallerRow, RowAt
        <5> HIDE DEF row
        <5> QED
          BY <4>1, <4>2, <5>1, CallerRows DEF row
    <3> QED
      BY <1>0, <3>1 DEF OnlyCaller
  <2>5. MemoryTypeOK'
    BY <1>1, <2>3, <2>4 DEF MemoryTypeOK, Entry, CallerRow, Places
  <2>6. NumberedOnce'
    BY <1>1, <2>2, <2>3, SameNumbers
  <2>7. EntryOfCaller(c)'
    BY <1>1, <2>2, <2>3, <2>4 DEF EntryOfCaller, InLine
  <2>8. WithinCeiling'
    <3>1. ASSUME NEW k \in Scopes PROVE Cardinality(In(k)') <= Ceiling[k]
      <4>0. Cardinality(In(k)) <= Ceiling[k] /\ IsFiniteSet(In(k)) /\ Cardinality(In(k)) \in Nat
        BY FiniteScopes DEF MemoryInv, WithinCeiling
      <4>1. CASE k \in ScopesOf[r]
        <5>1. In(k)' = In(k) \cup {r}
          BY <2>2, <2>3, <4>1 DEF In
        <5>2. Cardinality(In(k)') <= Cardinality(In(k)) + 1
          <6>1. /\ Cardinality(In(k) \cup {r}) = Cardinality(In(k))
                   \/ Cardinality(In(k) \cup {r}) = Cardinality(In(k)) + 1
            BY <4>0, FS_AddElement
          <6> QED
            BY <4>0, <5>1, <6>1
        <5>3. Cardinality(In(k)) < limits[k] /\ limits[k] <= Ceiling[k] /\ limits[k] \in Nat
              /\ Ceiling[k] \in Nat
          BY <1>1, <1>3, <4>1, ActiveAreCounted, MemoryConstants DEF MayEnter
        <5>4. Cardinality(In(k)') \in Nat
          BY <4>0, <5>1, FS_AddElement, FS_CardinalityType
        <5> QED
          BY <4>0, <5>2, <5>3, <5>4
      <4>2. CASE k \notin ScopesOf[r]
        <5>1. In(k)' = In(k)
          BY <2>2, <2>3, <4>2 DEF In
        <5> QED
          BY <4>0, <5>1
      <4> QED
        BY <4>1, <4>2
    <3> QED
      BY <3>1 DEF WithinCeiling
  <2>9. MemoryInv'
    BY <1>0, <1>1, <2>2, <2>3, <2>4, <2>5, <2>6, <2>7, <2>8, CallerStep
  <2>10. LineStep
    BY <1>1, <1>3, <2>2, <2>3, LineAdmits
  <2> QED
    BY <2>9, <2>10
<1>4. CASE ~MayEnter(r, limits) /\ caller[c].wait = 0
  <2> DEFINE entry == [state |-> "ended", left |-> StatusTicks]
  <2>1. /\ entries' = [CleanedUp EXCEPT ![r] = entry]
        /\ caller' = [caller EXCEPT ![c].at = "over"]
    BY <1>0, <1>4 DEF Attempt, Place
  <2>2. entry \in Entry /\ entry.state = "ended" /\ ~Counts(entry) /\ SeenAs(entry) = "ended"
    BY <1>1 DEF Entry, Counts, SeenAs
  <2> HIDE DEF entry
  <2>3. /\ entries' \in [CallIds -> Entry] /\ entries'[r] = entry
        /\ OnlyEntry(r) /\ OthersSeen(r)
        /\ \A q \in CallIds \ {r} : /\ entries'[q].state = "queued" <=> entries[q].state = "queued"
                                    /\ Counts(entries'[q]) <=> Counts(entries[q])
    BY <1>2, <2>1, <2>2
  <2>4. OnlyCaller(c) /\ caller'[c].at = "over" /\ caller' \in [Callers -> CallerRow]
    BY <1>1, <2>1, CallerMoves DEF Places
  <2>5. MemoryTypeOK'
    BY <1>1, <2>3, <2>4 DEF MemoryTypeOK, Entry, CallerRow, Places
  <2>6. NumberedOnce' /\ WithinCeiling'
    BY <1>1, <2>2, <2>3, SameNumbers, FewerCounted
  <2>7. EntryOfCaller(c)'
    BY <2>4 DEF EntryOfCaller, InLine
  <2>8. MemoryInv'
    BY <1>0, <1>1, <2>2, <2>3, <2>4, <2>5, <2>6, <2>7, CallerStep
  <2>9. SeenAs(entries[r]) = "queued"
    BY <1>1 DEF SeenAs
  <2>10. LineStep
    BY <1>1, <2>2, <2>3, <2>9, LineLeaves
  <2> QED
    BY <2>8, <2>10
<1>5. CASE ~MayEnter(r, limits) /\ caller[c].wait # 0
  <2>1. entries' = CleanedUp /\ caller' = [caller EXCEPT ![c].at = "waiting"]
    BY <1>0, <1>5 DEF Attempt, Place
  <2>2. \A q \in CallIds : /\ entries'[q].state = "queued" <=> entries[q].state = "queued"
                           /\ Counts(entries'[q]) <=> Counts(entries[q])
                           /\ SeenAs(entries'[q]) = SeenAs(entries[q])
    BY <1>1, <2>1, Cleaning
  <2>3. OnlyCaller(c) /\ caller'[c].at = "waiting" /\ caller' \in [Callers -> CallerRow]
    BY <1>1, <2>1, CallerMoves DEF Places
  <2>4. MemoryTypeOK'
    BY <1>1, <2>1, <2>3 DEF MemoryTypeOK, Entry, CallerRow, Places
  <2>5. NumberedOnce' /\ WithinCeiling' /\ OnlyEntry(r)
    BY <1>1, <2>1, <2>2, SameNumbers, FewerCounted DEF OnlyEntry, Cleaned1
  <2>6. EntryOfCaller(c)' /\ InLine(c)'
    BY <1>0, <1>1, <2>2, <2>3 DEF EntryOfCaller, InLine, OnlyCaller
  <2>7. MemoryInv'
    BY <1>0, <1>1, <2>3, <2>4, <2>5, <2>6, CallerStep
  <2> QED
    BY <1>1, <2>2, <2>7, LineUnchanged
<1> QED
  BY <1>3, <1>4, <1>5

\* A call moves on, and the entries stay.
LEMMA MoveStep ==
    ASSUME MemoryAssumption, MemoryInv, NEW c \in Callers,
           LookupFails(c) \/ WakeUp(c) \/ RunEnds(c) \/ GiveBackCut(c)
    PROVE  MemoryInv' /\ LineStep
<1>0. PICK r \in CallIds : r = caller[c].id
  BY DEF MemoryInv, MemoryTypeOK
<1>1. MemoryTypeOK /\ UNCHANGED <<entries, numbered, number>> /\ EntryOfCaller(c)
  BY DEF MemoryInv, LookupFails, WakeUp, RunEnds, GiveBackCut
<1>2. /\ OnlyCaller(c) /\ MemoryTypeOK' /\ HasEntry(c)
      /\ \/ caller[c].at = "resolving" /\ caller'[c].at = "unresolved"
         \/ caller[c].at = "waiting" /\ caller'[c].at = "resolving"
         \/ caller[c].at = "running" /\ caller'[c].at = "closing"
         \/ caller[c].at = "closing" /\ caller'[c].at = "over"
  <2>1. ASSUME NEW at \in {"resolving", "unresolved", "closing", "over"},
               \/ caller' = [caller EXCEPT ![c].at = at]
               \/ caller' = [caller EXCEPT ![c].at = at, ![c].beat = 0, ![c].run = 0],
               condition' \in {condition, c, Released}
        PROVE  OnlyCaller(c) /\ MemoryTypeOK' /\ caller'[c].at = at
    <3>1. OnlyCaller(c) /\ caller'[c].at = at /\ caller' \in [Callers -> CallerRow]
      <4>1. at \in Places /\ MemoryTypeOK /\ 0 \in Nat
        BY <1>1 DEF Places
      <4>2. CASE caller' = [caller EXCEPT ![c].at = at]
        BY <4>1, <4>2, CallerMoves
      <4>3. CASE caller' = [caller EXCEPT ![c].at = at, ![c].beat = 0, ![c].run = 0]
        <5>1. caller' = [caller EXCEPT ![c] = RowAt(c, at, 0, 0)]
          BY <4>1, <4>3 DEF MemoryTypeOK, RowAt
        <5> QED
          <6> DEFINE row == RowAt(c, at, 0, 0)
          <6>1. row \in CallerRow /\ row.id = caller[c].id /\ row.at = at
            <7>1. caller[c] \in CallerRow
              BY <4>1 DEF MemoryTypeOK, CallerRow, Places
            <7> QED
              BY <4>1, <7>1 DEF CallerRow, RowAt
          <6> HIDE DEF row
          <6> QED
            BY <4>1, <5>1, <6>1, CallerRows DEF row
      <4> QED
        BY <2>1, <4>2, <4>3
    <3> QED
      BY <1>1, <2>1, <3>1 DEF MemoryTypeOK, CallerRow, Places
  <2>2. CASE LookupFails(c)
    BY <2>1, <2>2 DEF LookupFails, Place, HasEntry, InLine
  <2>3. CASE WakeUp(c)
    BY <2>1, <2>3 DEF WakeUp, Place, HasEntry, InLine
  <2>4. CASE RunEnds(c)
    BY <2>1, <2>4 DEF RunEnds, HasEntry, InLine
  <2>5. CASE GiveBackCut(c)
    BY <2>1, <2>5 DEF GiveBackCut, Place, HasEntry, InLine
  <2> QED
    BY <2>2, <2>3, <2>4, <2>5
<1>3. caller[c].beat \in Nat /\ entries[r].left \in Nat
  BY <1>1 DEF MemoryTypeOK
<1>4. EntryOfCaller(c)'
  BY <1>0, <1>1, <1>2, <1>3 DEF EntryOfCaller, InLine, OnlyCaller
<1>5. entries'[r].state = "queued" => InLine(c)'
  BY <1>0, <1>1, <1>2 DEF EntryOfCaller, InLine
<1>6. NumberedOnce' /\ WithinCeiling' /\ OnlyEntry(r)
  BY <1>1, SameNumbers, FewerCounted DEF OnlyEntry, Cleaned1
<1>7. MemoryInv'
  BY <1>0, <1>2, <1>4, <1>5, <1>6, CallerStep
<1> QED
  BY <1>1, <1>7, LineUnchanged

\* A cancelled call, and one that gives back what it has, end their entry.
LEMMA EndingStep ==
    ASSUME MemoryAssumption, MemoryInv, NEW c \in Callers, CancelCall(c) \/ GiveBack(c)
    PROVE  MemoryInv' /\ LineStep
<1>0. PICK r \in CallIds : r = caller[c].id
  BY DEF MemoryInv, MemoryTypeOK
<1> DEFINE entry == [state |-> "ended", left |-> StatusTicks]
<1>1. /\ MemoryTypeOK /\ UNCHANGED <<numbered, number>> /\ HasEntry(c)
      /\ entries[r].state = "queued" \/ (entries[r].state = "admitted" /\ entries[r].left > 0)
      /\ entries' = [entries EXCEPT ![r] = entry] /\ condition' \in {Released, condition}
      /\ caller' = [caller EXCEPT ![c].at = "over"]
      /\ StatusTicks \in Nat /\ StatusTicks > 0
  <2>1. CASE CancelCall(c)
    BY <1>0, <2>1, MemoryConstants DEF CancelCall, Place, Entered, MemoryInv, EntryOfCaller,
       HasEntry, InLine
  <2>2. CASE GiveBack(c)
    <3>1. entries[r].state = "admitted" /\ entries[r].left > 0 /\ HasEntry(c)
      BY <1>0, <2>2 DEF GiveBack, MemoryInv, EntryOfCaller, HasEntry
    <3>2. entries[r] # Absent
      BY <3>1 DEF Absent
    <3> QED
      BY <1>0, <2>2, <3>1, <3>2, MemoryConstants DEF GiveBack, Place, Entered, MemoryInv
  <2> QED
    BY <2>1, <2>2
<1>2. entry \in Entry /\ entry.state = "ended" /\ ~Counts(entry) /\ SeenAs(entry) = "ended"
  BY <1>1 DEF Entry, Counts, SeenAs
<1> HIDE DEF entry
<1>3. /\ entries' \in [CallIds -> Entry] /\ entries'[r] = entry
      /\ \A q \in CallIds \ {r} : entries'[q] = entries[q]
  BY <1>1, <1>2 DEF MemoryTypeOK, Entry
<1>4. OnlyCaller(c) /\ caller'[c].at = "over" /\ caller' \in [Callers -> CallerRow]
  BY <1>1, CallerMoves DEF Places
<1>5. MemoryTypeOK'
  BY <1>1, <1>3, <1>4 DEF MemoryTypeOK, Entry, CallerRow, Places
<1>6. OnlyEntry(r) /\ OthersSeen(r)
  BY <1>3 DEF OnlyEntry, Cleaned1, OthersSeen
<1>7. NumberedOnce' /\ WithinCeiling'
  BY <1>1, <1>2, <1>3, SameNumbers, FewerCounted
<1>8. EntryOfCaller(c)'
  BY <1>4 DEF EntryOfCaller, InLine
<1>9. MemoryInv'
  BY <1>0, <1>1, <1>2, <1>3, <1>4, <1>5, <1>6, <1>7, <1>8, CallerStep
<1>10. SeenAs(entries[r]) \in {"queued", "admitted"}
  BY <1>1 DEF SeenAs
<1> QED
  BY <1>1, <1>2, <1>3, <1>6, <1>9, <1>10, LineLeaves

LEMMA RenewStep ==
    ASSUME MemoryAssumption, MemoryInv, NEW c \in Callers, RenewLease(c)
    PROVE  MemoryInv' /\ LineStep
<1>0. PICK r \in CallIds : r = caller[c].id
  BY DEF MemoryInv, MemoryTypeOK
<1> DEFINE entry == [state |-> "admitted", left |-> LeaseTicks]
<1>1. /\ MemoryTypeOK /\ UNCHANGED <<numbered, number, condition>> /\ HasEntry(c)
      /\ caller[c].at = "running" /\ Counts(entries[r]) /\ entries[r].state = "admitted"
      /\ entries' = [entries EXCEPT ![r] = entry]
      /\ caller' = [caller EXCEPT ![c].beat = BeatTicks]
      /\ LeaseTicks \in Nat /\ LeaseTicks > 0 /\ BeatTicks \in Nat /\ LeaseTicks > BeatTicks
  BY <1>0, MemoryConstants DEF RenewLease, Entered, MemoryInv, MemoryTypeOK, EntryOfCaller,
     HasEntry, InLine, Counts
<1>2. entry \in Entry /\ entry.state = "admitted" /\ entry.left = LeaseTicks /\ Counts(entry)
      /\ SeenAs(entry) = "admitted" /\ SeenAs(entries[r]) = "admitted"
  BY <1>1 DEF Entry, Counts, SeenAs
<1> HIDE DEF entry
<1>3. /\ entries' \in [CallIds -> Entry] /\ entries'[r] = entry
      /\ \A q \in CallIds \ {r} : entries'[q] = entries[q]
  BY <1>1, <1>2 DEF MemoryTypeOK, Entry
<1>4. /\ OnlyCaller(c) /\ caller'[c].at = "running" /\ caller'[c].beat = BeatTicks
      /\ caller'[c].id = r /\ caller' \in [Callers -> CallerRow]
  <2>1. caller \in [Callers -> CallerRow]
    BY <1>1 DEF MemoryTypeOK, CallerRow, Places
  <2>2. /\ caller'[c] = [caller[c] EXCEPT !.beat = BeatTicks]
        /\ \A d \in Callers \ {c} : caller'[d] = caller[d]
    BY <1>1, <2>1
  <2>3. [caller[c] EXCEPT !.beat = BeatTicks] \in CallerRow
    BY <1>1, <2>1 DEF CallerRow
  <2>4. caller' = [caller EXCEPT ![c] = [caller[c] EXCEPT !.beat = BeatTicks]]
    BY <1>1, <2>1
  <2> QED
    BY <1>0, <1>1, <2>1, <2>2, <2>3, <2>4 DEF OnlyCaller, CallerRow
<1>5. MemoryTypeOK'
  BY <1>1, <1>3, <1>4 DEF MemoryTypeOK, Entry, CallerRow, Places
<1>6. OnlyEntry(r)
  BY <1>3 DEF OnlyEntry, Cleaned1
<1>7. NumberedOnce' /\ WithinCeiling'
  BY <1>1, <1>2, <1>3, SameNumbers, FewerCounted
<1>8. EntryOfCaller(c)'
  BY <1>1, <1>2, <1>3, <1>4 DEF EntryOfCaller, InLine
<1>9. MemoryInv'
  BY <1>0, <1>1, <1>2, <1>3, <1>4, <1>5, <1>6, <1>7, <1>8, CallerStep
<1>10. \A q \in CallIds : SeenAs(entries'[q]) = SeenAs(entries[q])
                         /\ (Counts(entries'[q]) <=> Counts(entries[q]))
  BY <1>1, <1>2, <1>3
<1> QED
  BY <1>1, <1>9, <1>10, LineUnchanged

\* Time passes for calls that wait or run, and for every entry.
LEMMA MemoryTickStep == ASSUME MemoryAssumption, MemoryInv, MemoryTick PROVE MemoryInv' /\ LineStep
<1>0. \A n \in Nat : Fewer(n) \in Nat
  BY DEF Fewer
<1>1. /\ MemoryTypeOK /\ UNCHANGED <<numbered, number, condition>>
      /\ \A r \in CallIds : /\ entries[r] \in Entry /\ entries'[r] \in Entry
                            /\ entries'[r].state = entries[r].state
                            /\ entries'[r].left = Fewer(entries[r].left)
      /\ \A c \in Callers : /\ caller'[c].at = caller[c].at /\ caller'[c].id = caller[c].id
                            /\ caller'[c].beat = Fewer(caller[c].beat) /\ caller[c].beat \in Nat
                            /\ caller[c].id \in CallIds
      /\ entries' \in [CallIds -> Entry] /\ caller' \in [Callers -> CallerRow]
  <2>1. /\ entries \in [CallIds -> Entry] /\ caller \in [Callers -> CallerRow] /\ MemoryTypeOK
        /\ UNCHANGED <<numbered, number, condition>>
        /\ entries' = [r \in CallIds |-> Aged(entries[r])]
        /\ caller' = [c \in Callers |-> Later(caller[c])]
    BY DEF MemoryInv, MemoryTypeOK, Entry, CallerRow, Places, MemoryTick
  <2>2. ASSUME NEW e \in Entry
        PROVE  /\ Aged(e) \in Entry /\ Aged(e).state = e.state /\ Aged(e).left = Fewer(e.left)
    BY <1>0 DEF Entry, Aged
  <2>3. ASSUME NEW row \in CallerRow
        PROVE  /\ Later(row) \in CallerRow /\ Later(row).at = row.at /\ Later(row).id = row.id
               /\ Later(row).beat = Fewer(row.beat)
    BY <1>0 DEF CallerRow, Later
  <2>4. entries' \in [CallIds -> Entry] /\ caller' \in [Callers -> CallerRow]
    BY <2>1, <2>2, <2>3
  <2>5. \A c \in Callers : caller[c].beat \in Nat /\ caller[c].id \in CallIds
    BY <2>1 DEF CallerRow
  <2> QED
    BY <2>1, <2>2, <2>3, <2>4, <2>5
<1>2. MemoryTypeOK'
  BY <1>1 DEF MemoryTypeOK, Entry, CallerRow, Places
<1>3. \A n \in Nat : Fewer(n) \in Nat /\ Fewer(n) <= n /\ (n > 0 => Fewer(n) = n - 1)
  BY DEF Fewer
<1>4. ASSUME NEW c \in Callers PROVE EntryOfCaller(c)'
  <2>0. /\ EntryOfCaller(c) /\ caller[c].id \in CallIds
        /\ caller[c].at # "closing" /\ (caller[c].at = "running" => caller[c].beat > 0)
    <3>1. EntryOfCaller(c) /\ caller[c].id \in CallIds
      BY <1>1 DEF MemoryInv
    <3>2. caller[c].at # "closing" /\ (caller[c].at = "running" => caller[c].beat > 0)
      BY DEF MemoryTick, Idling
    <3> QED
      BY <3>1, <3>2
  <2>1. CASE caller[c].at = "running"
    <3>1. /\ entries[caller[c].id].left \in Nat /\ entries[caller[c].id].left > caller[c].beat
          /\ caller[c].beat \in Nat /\ caller[c].beat > 0 /\ entries[caller[c].id].state = "admitted"
      BY <1>1, <2>0, <2>1 DEF EntryOfCaller, Entry
    <3>2. /\ entries'[caller[c].id].left = entries[caller[c].id].left - 1
          /\ caller'[c].beat = caller[c].beat - 1
      BY <1>1, <1>3, <2>0, <3>1
    <3> QED
      BY <1>1, <2>0, <2>1, <3>1, <3>2 DEF EntryOfCaller, InLine
  <2>2. CASE caller[c].at # "running"
    BY <1>1, <2>0, <2>2 DEF EntryOfCaller, InLine
  <2> QED
    BY <2>1, <2>2
<1>5. OneCaller' /\ NumberedOnce' /\ NobodyStays'
  BY <1>1 DEF MemoryInv, OneCaller, HasEntry, InLine, NumberedOnce, NobodyStays
<1>6. \A r \in CallIds : Counts(entries'[r]) => Counts(entries[r])
  BY <1>1, <1>3 DEF Counts, Entry
<1>7. MemoryInv'
  BY <1>2, <1>4, <1>5, <1>6, FewerCounted DEF MemoryInv
<1>8. ASSUME NEW r \in CallIds
      PROVE  /\ SeenAs(entries'[r]) \in {SeenAs(entries[r]), "none"}
             /\ Counts(entries'[r]) => SeenAs(entries'[r]) = SeenAs(entries[r])
  BY <1>1, <1>3 DEF Counts, SeenAs, Entry
<1>9. /\ DOMAIN Phases' = CallIds /\ DOMAIN Counting' = Scopes
      /\ \A r \in CallIds : Phases'[r] \in {Phases[r], "none"}
  BY <1>8 DEF Phases, Counting
<1>10. \A k \in Scopes : Counting'[k] \subseteq {r \in Counting[k] : Phases'[r] = Phases[r]}
  BY <1>6, <1>8 DEF Phases, Counting, In
<1>11. Line!Expire
  BY <1>1, <1>9, <1>10, LineIsSeen, LineIsSeenNext DEF LineSeen, SeenPhases, SeenCounts, Line!Expire
<1> QED
  BY <1>7, <1>11 DEF LineStep, Line!Next

-----------------------------------------------------------------------------
\* Calls that run have entries of their own, all of them counted.
LEMMA RunnersAreCounted == ASSUME MemoryAssumption, MemoryInv PROVE RunnersCounted
<1>1. ASSUME NEW c \in Callers, caller[c].at = "running"
      PROVE  caller[c].id \in CallIds /\ Counts(entries[caller[c].id])
  BY <1>1 DEF MemoryInv, MemoryTypeOK, EntryOfCaller, Counts
<1>2. ASSUME NEW k \in Scopes
      PROVE  Cardinality({c \in Callers : caller[c].at = "running"
                                          /\ k \in ScopesOf[caller[c].id]}) <= Ceiling[k]
  <2> DEFINE running == {c \in Callers : caller[c].at = "running" /\ k \in ScopesOf[caller[c].id]}
             id == [c \in running |-> caller[c].id]
  <2>1. id \in [running -> In(k)]
    BY <1>1 DEF In
  <2>2. ASSUME NEW c \in running, NEW d \in running, id[c] = id[d] PROVE c = d
    BY <2>2 DEF MemoryInv, OneCaller, HasEntry
  <2>3. id \in Injection(running, In(k))
    BY <2>1, <2>2 DEF Injection, IsInjective
  <2> HIDE DEF running, id
  <2>4. Cardinality(running) <= Cardinality(In(k)) /\ Cardinality(running) \in Nat
    BY <2>3, FiniteScopes, FS_Injection, FS_CardinalityType
  <2>5. Cardinality(In(k)) <= Ceiling[k] /\ Cardinality(In(k)) \in Nat /\ Ceiling[k] \in Nat
    BY FiniteScopes, MemoryConstants DEF MemoryInv, WithinCeiling
  <2>6. Cardinality(running) <= Ceiling[k]
    BY <2>4, <2>5
  <2> QED
    BY <2>6 DEF running
<1> QED
  BY <1>1, <1>2 DEF RunnersCounted, Counts

LEMMA MemoryStep ==
    ASSUME MemoryAssumption, MemoryInv, [MemoryNext]_memoryVars PROVE MemoryInv' /\ LineStep
<1>1. ASSUME NEW c \in Callers,
             \/ AskForPlace(c) \/ (\E limits \in Limits : Attempt(c, limits))
             \/ LookupFails(c) \/ WakeUp(c) \/ CancelCall(c)
             \/ RunEnds(c) \/ GiveBack(c) \/ GiveBackCut(c) \/ RenewLease(c)
      PROVE  MemoryInv' /\ LineStep
  BY <1>1, AskStep, AttemptStep, MoveStep, EndingStep, RenewStep
<1>2. CASE MemoryTick
  BY <1>2, MemoryTickStep
<1>3. CASE UNCHANGED memoryVars
  <2>1. UNCHANGED <<entries, numbered, number, condition, caller>>
    BY <1>3 DEF memoryVars
  <2>2. MemoryInv'
    BY <2>1 DEF MemoryInv, MemoryTypeOK, EntryOfCaller, InLine, OneCaller, HasEntry, NumberedOnce,
       NobodyStays, WithinCeiling, In
  <2> QED
    BY <2>1, <2>2, LineUnchanged
<1> QED
  BY <1>1, <1>2, <1>3 DEF MemoryNext

\* The memory backend admits first come, first served within the limits, like
\* the one in Redis: whatever calls are cancelled, time out, are never released
\* or find their limits changed, each that runs is counted in all its scopes,
\* no scope runs more than its limit, and a place in line is somebody's
\* (_acquire_memory, release, _memory_cleanup).
THEOREM MemoryAdmitsInOrder == ASSUME MemoryAssumption PROVE MemorySpec => MemorySafety
<1>1. MemoryInit => MemoryInv
  BY MemoryStart
<1>2. MemoryInv /\ [MemoryNext]_memoryVars => MemoryInv' /\ LineStep
  BY MemoryStep
<1>3. MemoryInv => MemoryTypeOK /\ RunnersCounted /\ NobodyStays
  BY RunnersAreCounted DEF MemoryInv
<1>4. MemoryInit => Line!Init
  <2> SUFFICES ASSUME MemoryInit PROVE Line!Init
    OBVIOUS
  <2>1. Phases = [r \in CallIds |-> "none"] /\ number = [r \in CallIds |-> 0]
    BY DEF MemoryInit, Phases, SeenAs, Absent
  <2>2. Counting = [k \in Scopes |-> {}]
    BY DEF MemoryInit, Counting, In, Counts, Absent
  <2> QED
    BY <2>1, <2>2, LineIsSeen DEF LineSeen, SeenPhases, SeenCounts, Line!Init
<1>5. MemoryInv /\ [MemoryNext]_memoryVars
      => [UNCHANGED memoryVars \/ [Line!Next]_(Line!vars)]_memoryVars
  BY <1>2 DEF LineStep
<1> QED
  BY <1>1, <1>2, <1>3, <1>4, <1>5, PTL DEF MemorySpec, MemorySafety, MemoryImplements

-----------------------------------------------------------------------------
(***************************************************************************)
(* Groups: an assignment never dangles, and the groups of the deployment   *)
(* keep a projection with rules.                                           *)
(***************************************************************************)
GroupRow == [there : BOOLEAN, name : Names \cup {NoId},
             rules : RuleSets \cup {NoRules}, legacy : {NoId}]
ModelRow == [there : BOOLEAN, name : Names \cup {NoId},
             rules : RuleSets \cup {NoRules}, legacy : GroupIds \cup {NoId}]
LookedRow == [op : {"none", "assign", "assignModel", "delete", "deleteModel"},
              user : Members \cup {NoId}, id : GroupIds \cup ModelIds \cup {NoId}]

GroupTables ==
    /\ groups \in [GroupIds -> GroupRow] /\ models \in [ModelIds -> ModelRow]
    /\ memberOf \in [Members -> GroupIds \cup {NoId}]
    /\ modelOf \in [Members -> ModelIds \cup {NoId}]
    /\ override \subseteq Members /\ spent \subseteq GroupIds \cup ModelIds
    /\ looked \in [Admins -> LookedRow]

\* A model group has rules, and that of a group of the deployment is always
\* there and known as that group's projection.
ModelsRuled == \A m \in ModelIds : models[m].there => models[m].rules \in RuleSets
SystemStays == \A g \in System :
    models[Projection[g]].there /\ models[Projection[g]].legacy = g

\* What a transaction has looked at is of the kind that it will write, and is
\* no projection of the deployment's if it is to be deleted.
WillWrite(l) ==
    \/ l = Idle
    \/ l.op = "assign" /\ l.id \in GroupIds /\ l.user \in Members
    \/ l.op = "assignModel" /\ l.id \in ModelIds /\ l.user \in Members
    \/ l.op = "delete" /\ l.id \in GroupIds
    \/ l.op = "deleteModel" /\ l.id \in ModelIds /\ \A g \in System : l.id # Projection[g]

GroupsInv ==
    /\ GroupTables /\ Referenced /\ ModelsRuled /\ SystemStays
    /\ \A a \in Admins : WillWrite(looked[a])

\* What a group's row and a projection are made of.
LEMMA GroupsRows ==
    ASSUME GroupsAssumption
    PROVE  /\ Gone \in GroupRow /\ Gone \in ModelRow /\ ~Gone.there /\ Idle \in LookedRow
           /\ \A name \in Names \cup {NoId}, r \in RuleSets \cup {NoRules} :
                 /\ Row(name, r, NoId) \in GroupRow
                 /\ \A g \in GroupIds \cup {NoId} : Row(name, r, g) \in ModelRow
           /\ \A name, r, g : /\ Row(name, r, g).there /\ Row(name, r, g).name = name
                              /\ Row(name, r, g).rules = r /\ Row(name, r, g).legacy = g
BY DEF Gone, Idle, Row, GroupRow, ModelRow, LookedRow

\* A start adds projections with the rules of their groups and leaves every
\* model group that is there.
LEMMA StartAdds ==
    ASSUME GroupsAssumption, GroupTables
    PROVE  /\ ProjectedAll \in [ModelIds -> ModelRow]
           /\ \A m \in ModelIds : models[m].there => ProjectedAll[m] = models[m]
           /\ \A m \in ModelIds : ~models[m].there /\ ProjectedAll[m].there
                 => ProjectedAll[m].rules \in RuleSets
<1> SUFFICES ASSUME NEW m \in ModelIds
             PROVE  /\ ProjectedAll[m] \in ModelRow
                    /\ models[m].there => ProjectedAll[m] = models[m]
                    /\ ~models[m].there /\ ProjectedAll[m].there
                          => ProjectedAll[m].rules \in RuleSets
    BY DEF ProjectedAll
<1>1. models[m] \in ModelRow
    BY DEF GroupTables
<1>2. CASE \E g \in Combined : Projection[g] = m
    <2> DEFINE g == CHOOSE x \in Combined : Projection[x] = m
               new == Row(groups[g].name, groups[g].rules, g)
    <2>1. g \in Combined /\ Projection[g] = m
        BY <1>2
    <2>2. g \in GroupIds /\ groups[g].there /\ groups[g].rules # NoRules
        BY <2>1 DEF Combined
    <2>3. new \in ModelRow /\ new.rules \in RuleSets
        <3> HIDE DEF g
        <3>1. groups[g].name \in Names \cup {NoId} /\ groups[g].rules \in RuleSets
            BY <2>2 DEF GroupTables, GroupRow
        <3> DEFINE name == groups[g].name
                   r == groups[g].rules
        <3> HIDE DEF name, r
        <3>2. Row(name, r, g) \in ModelRow /\ Row(name, r, g).rules = r
            BY <2>2, <3>1, GroupsRows DEF name, r
        <3> QED BY <3>1, <3>2 DEF name, r
    <2>4. ProjectedAll[m] = Projected(g, models)[m]
        BY <1>2 DEF ProjectedAll
    <2> HIDE DEF g
    <2>5. Projected(g, models)[m] = IF models[m].there THEN models[m] ELSE new
        BY <2>1 DEF Projected, GroupTables
    <2> HIDE DEF new
    <2> QED BY <1>1, <2>3, <2>4, <2>5
<1>3. CASE ~\E g \in Combined : Projection[g] = m
    <2>1. ProjectedAll[m] = models[m]
        BY <1>3 DEF ProjectedAll
    <2> QED BY <1>1, <2>1
<1> QED BY <1>2, <1>3

LEMMA StartAssigns ==
    ASSUME GroupsAssumption, GroupTables, NEW u \in Members
    PROVE  /\ Assigned(ProjectedAll, modelOf)[u] \in ModelIds \cup {NoId}
           /\ modelOf[u] # NoId => Assigned(ProjectedAll, modelOf)[u] = modelOf[u]
           /\ modelOf[u] = NoId /\ Assigned(ProjectedAll, modelOf)[u] # NoId
                 => ProjectedAll[Assigned(ProjectedAll, modelOf)[u]].there
           /\ Assigned(ProjectedAll, modelOf)[u] = NoId
                 => memberOf[u] = NoId \/ Heir(memberOf[u], ProjectedAll) = {}
<1>1. Heir(memberOf[u], ProjectedAll) \subseteq
          {m \in ModelIds : ProjectedAll[m].there}
    BY StartAdds DEF Heir
<1>2. NoId \notin ModelIds
    BY DEF GroupsAssumption
<1>3. modelOf[u] \in ModelIds \cup {NoId}
    BY DEF GroupTables
<1>4. CASE modelOf[u] = NoId /\ memberOf[u] # NoId /\ Heir(memberOf[u], ProjectedAll) # {}
    <2> DEFINE heir == CHOOSE m \in Heir(memberOf[u], ProjectedAll) : TRUE
    <2>1. heir \in Heir(memberOf[u], ProjectedAll)
        BY <1>4
    <2>2. Assigned(ProjectedAll, modelOf)[u] = heir
        BY <1>4 DEF Assigned
    <2> QED BY <1>1, <1>2, <1>4, <2>1, <2>2
<1>5. CASE ~(modelOf[u] = NoId /\ memberOf[u] # NoId /\ Heir(memberOf[u], ProjectedAll) # {})
    <2>1. Assigned(ProjectedAll, modelOf)[u] = modelOf[u]
        BY <1>5 DEF Assigned
    <2> QED BY <1>3, <1>5, <2>1
<1> QED BY <1>4, <1>5

\* The first start's projections of the deployment's groups.
LEMMA GroupsBegin ==
    ASSUME GroupsAssumption, GroupsInit
    PROVE  GroupsInv
<1>1. PICK name \in [System -> Names], r \in [System -> RuleSets] :
          /\ groups = [g \in GroupIds |-> IF g \in System THEN Row(name[g], r[g], NoId) ELSE Gone]
          /\ models = [m \in ModelIds |->
                IF \E g \in System : Projection[g] = m
                THEN LET g == CHOOSE x \in System : Projection[x] = m IN Row(name[g], r[g], g)
                ELSE Gone]
    BY DEF GroupsInit
<1>2. groups \in [GroupIds -> GroupRow]
    BY <1>1, GroupsRows
<1>3. /\ models \in [ModelIds -> ModelRow]
      /\ ModelsRuled /\ SystemStays
    <2>1. ASSUME NEW m \in ModelIds, \E g \in System : Projection[g] = m
          PROVE  \E g \in System : Projection[g] = m /\ models[m] = Row(name[g], r[g], g)
        BY <1>1, <2>1
    <2>2. ASSUME NEW m \in ModelIds, ~\E g \in System : Projection[g] = m
          PROVE  models[m] = Gone
        BY <1>1, <2>2
    <2>3. models \in [ModelIds -> ModelRow] /\ ModelsRuled
        <3>1. ASSUME NEW m \in ModelIds
              PROVE  models[m] \in ModelRow /\ (models[m].there => models[m].rules \in RuleSets)
            <4>1. CASE \E g \in System : Projection[g] = m
                BY <2>1, <4>1, GroupsRows DEF GroupsAssumption
            <4>2. CASE ~\E g \in System : Projection[g] = m
                BY <2>2, <4>2, GroupsRows
            <4> QED BY <4>1, <4>2
        <3>2. models = [m \in ModelIds |-> models[m]]
            BY <1>1
        <3> QED BY <3>1, <3>2 DEF ModelsRuled
    <2>4. SystemStays
        <3> SUFFICES ASSUME NEW g \in System
                     PROVE  models[Projection[g]].there /\ models[Projection[g]].legacy = g
            BY DEF SystemStays
        <3>1. Projection[g] \in ModelIds /\ g \in GroupIds
            BY DEF GroupsAssumption
        <3>2. PICK h \in System : Projection[h] = Projection[g]
                                  /\ models[Projection[g]] = Row(name[h], r[h], h)
            BY <2>1, <3>1
        <3>3. h = g
            BY <3>1, <3>2 DEF GroupsAssumption
        <3> QED BY <3>2, <3>3, GroupsRows
    <2> QED BY <2>3, <2>4
<1>4. /\ memberOf \in [Members -> GroupIds \cup {NoId}] /\ modelOf \in [Members -> ModelIds \cup {NoId}]
      /\ override \subseteq Members /\ spent \subseteq GroupIds \cup ModelIds /\ Referenced
    BY DEF GroupsInit, Referenced
<1>5. looked \in [Admins -> LookedRow] /\ \A a \in Admins : WillWrite(looked[a])
    BY GroupsRows DEF GroupsInit, WillWrite
<1> QED BY <1>2, <1>3, <1>4, <1>5 DEF GroupsInv, GroupTables

\* A transaction that is over or that has just looked keeps the others'.
LEMMA LookedIsTyped ==
    ASSUME GroupsAssumption, GroupsInv, NEW a \in Admins, NEW l \in LookedRow, WillWrite(l),
           looked' = [looked EXCEPT ![a] = l]
    PROVE  looked' \in [Admins -> LookedRow] /\ \A b \in Admins : WillWrite(looked'[b])
BY DEF GroupsInv, GroupTables

LEMMA IdleIsTyped ==
    ASSUME GroupsAssumption, GroupsInv, NEW a \in Admins, Wrote(a)
    PROVE  looked' \in [Admins -> LookedRow] /\ \A b \in Admins : WillWrite(looked'[b])
BY LookedIsTyped, GroupsRows DEF Wrote, WillWrite

\* A statement on one row of a table.
LEMMA StartKeeps ==
    ASSUME GroupsAssumption, GroupsInv, Start
    PROVE  GroupsInv'
<1>1. /\ models' = ProjectedAll /\ modelOf' = Assigned(ProjectedAll, modelOf)
      /\ looked' = [a \in Admins |-> Idle] /\ UNCHANGED <<groups, memberOf, override, spent>>
    BY DEF Start, Started
<1>2. GroupTables
    BY DEF GroupsInv
<1>3. models' \in [ModelIds -> ModelRow] /\ \A m \in ModelIds : models[m].there => models'[m] = models[m]
    BY <1>1, <1>2, StartAdds
<1>4. modelOf' \in [Members -> ModelIds \cup {NoId}]
    <2>1. modelOf' = [u \in Members |-> modelOf'[u]]
        BY <1>1 DEF Assigned
    <2> QED BY <1>1, <1>2, <2>1, StartAssigns
<1>5. looked' \in [Admins -> LookedRow] /\ \A a \in Admins : WillWrite(looked'[a])
    BY <1>1, GroupsRows DEF WillWrite
<1>6. GroupTables'
    BY <1>1, <1>2, <1>3, <1>4, <1>5 DEF GroupTables
<1>7. Referenced'
    <2> SUFFICES ASSUME NEW u \in Members
                 PROVE  /\ memberOf[u] # NoId => groups[memberOf[u]].there
                        /\ modelOf'[u] # NoId => models'[modelOf'[u]].there
        BY <1>1 DEF Referenced
    <2>1. memberOf[u] # NoId => groups[memberOf[u]].there
        BY DEF GroupsInv, Referenced
    <2>2. CASE modelOf[u] # NoId
        <3>1. modelOf[u] \in ModelIds /\ models[modelOf[u]].there
            BY <2>2 DEF GroupsInv, GroupTables, Referenced
        <3>2. modelOf'[u] = modelOf[u]
            BY <1>1, <1>2, <2>2, StartAssigns
        <3> QED BY <1>3, <2>1, <3>1, <3>2
    <2>3. CASE modelOf[u] = NoId
        BY <1>1, <1>2, <2>1, <2>3, StartAssigns
    <2> QED BY <2>2, <2>3
<1>8. ModelsRuled'
    BY <1>1, <1>2, <1>3, StartAdds DEF GroupsInv, ModelsRuled
<1>9. SystemStays'
    <2>1. \A g \in System : Projection[g] \in ModelIds
        BY DEF GroupsAssumption
    <2> QED BY <1>3, <2>1 DEF GroupsInv, SystemStays
<1> QED BY <1>5, <1>6, <1>7, <1>8, <1>9 DEF GroupsInv

\* A model group is written with rules, and as the projection of the group it
\* projects.
LEMMA ModelsWritten ==
    ASSUME GroupsAssumption, GroupsInv, NEW m \in ModelIds,
           \E new \in ModelRow : /\ new.there /\ new.rules \in RuleSets
                                 /\ \A h \in System : Projection[h] = m => new.legacy = h
                                 /\ models' = [models EXCEPT ![m] = new]
    PROVE  /\ models' \in [ModelIds -> ModelRow] /\ ModelsRuled' /\ SystemStays'
           /\ \A n \in ModelIds : models[n].there => models'[n].there
<1>1. PICK new \in ModelRow : /\ new.there /\ new.rules \in RuleSets
                              /\ \A h \in System : Projection[h] = m => new.legacy = h
                              /\ models' = [models EXCEPT ![m] = new]
    OBVIOUS
<1>3. models \in [ModelIds -> ModelRow]
    BY DEF GroupsInv, GroupTables
<1>4. models' \in [ModelIds -> ModelRow] /\ models'[m] = new
      /\ \A n \in ModelIds \ {m} : models'[n] = models[n]
    BY <1>1, <1>3
<1>5. ModelsRuled'
    BY <1>1, <1>4 DEF GroupsInv, ModelsRuled
<1>6. \A n \in ModelIds : models[n].there => models'[n].there
    BY <1>1, <1>4
<1>7. SystemStays'
    <2> SUFFICES ASSUME NEW h \in System
                 PROVE  models'[Projection[h]].there /\ models'[Projection[h]].legacy = h
        BY DEF SystemStays
    <2>1. Projection[h] \in ModelIds
        BY DEF GroupsAssumption
    <2>2. CASE Projection[h] = m
        BY <1>1, <1>4, <2>2
    <2>3. CASE Projection[h] # m
        BY <1>4, <2>1, <2>3 DEF GroupsInv, SystemStays
    <2> QED BY <2>2, <2>3
<1> QED BY <1>4, <1>5, <1>6, <1>7

LEMMA WritesKeep ==
    ASSUME GroupsAssumption, GroupsInv,
           \/ \E g \in GroupIds, name \in Names, r \in RuleSets : WriteGroup(g, name, r)
           \/ \E g \in GroupIds, name \in Names : WriteResource(g, name)
           \/ \E m \in ModelIds, name \in Names, r \in RuleSets : WriteModel(m, name, r)
    PROVE  GroupsInv'
<1>1. UNCHANGED <<memberOf, modelOf, override, spent, looked>>
    BY DEF WriteGroup, WriteResource, WriteModel
<1> DEFINE Grown == /\ groups' \in [GroupIds -> GroupRow]
                    /\ \A g \in GroupIds : groups[g].there => groups'[g].there
<1>2. Grown
    <2>1. ASSUME NEW g \in GroupIds, NEW name \in Names, NEW r \in RuleSets \cup {NoRules},
                 groups' = [groups EXCEPT ![g] = Row(name, r, NoId)]
          PROVE  Grown
        <3> DEFINE new == Row(name, r, NoId)
        <3>1. new \in GroupRow /\ new.there
            BY GroupsRows
        <3>2. groups' = [groups EXCEPT ![g] = new]
            BY <2>1
        <3> HIDE DEF new
        <3> QED BY <3>1, <3>2 DEF GroupsInv, GroupTables
    <2>2. CASE \E g \in GroupIds, name \in Names, r \in RuleSets : WriteGroup(g, name, r)
        BY <2>1, <2>2 DEF WriteGroup
    <2>3. CASE \E g \in GroupIds, name \in Names : WriteResource(g, name)
        <3>1. PICK g \in GroupIds, name \in Names :
                  groups' = [groups EXCEPT ![g] = Row(name, groups[g].rules, NoId)]
            BY <2>3 DEF WriteResource
        <3>2. groups[g].rules \in RuleSets \cup {NoRules}
            BY DEF GroupsInv, GroupTables, GroupRow
        <3> QED BY <2>1, <3>1, <3>2
    <2>4. CASE groups' = groups
        BY <2>4 DEF GroupsInv, GroupTables
    <2> QED BY <2>2, <2>3, <2>4 DEF WriteModel
<1>3. /\ models' \in [ModelIds -> ModelRow] /\ ModelsRuled' /\ SystemStays'
      /\ \A n \in ModelIds : models[n].there => models'[n].there
    <2>1. CASE \E g \in GroupIds, name \in Names, r \in RuleSets : WriteGroup(g, name, r)
        <3>1. PICK g \in GroupIds, name \in Names, r \in RuleSets :
                  models' = [models EXCEPT ![Projection[g]] = Row(name, r, g)]
            BY <2>1 DEF WriteGroup, Synced
        <3> DEFINE new == Row(name, r, g)
        <3>2. Projection[g] \in ModelIds /\ \A h \in System : Projection[h] = Projection[g] => g = h
            BY DEF GroupsAssumption
        <3>3. new \in ModelRow /\ new.there /\ new.rules = r /\ new.legacy = g
            BY GroupsRows
        <3>4. models' = [models EXCEPT ![Projection[g]] = new]
            BY <3>1
        <3> HIDE DEF new
        <3>5. \E x \in ModelRow : /\ x.there /\ x.rules \in RuleSets
                                  /\ \A h \in System : Projection[h] = Projection[g] => x.legacy = h
                                  /\ models' = [models EXCEPT ![Projection[g]] = x]
            BY <3>2, <3>3, <3>4
        <3> QED BY <3>2, <3>5, ModelsWritten
    <2>2. CASE models' = models
        BY <2>2 DEF GroupsInv, GroupTables, ModelsRuled, SystemStays
    <2>3. CASE \E m \in ModelIds, name \in Names, r \in RuleSets : WriteModel(m, name, r)
        <3>1. PICK m \in ModelIds, name \in Names, r \in RuleSets :
                  models' = [models EXCEPT ![m] = Row(name, r, models[m].legacy)]
            BY <2>3 DEF WriteModel
        <3>2. models[m].legacy \in GroupIds \cup {NoId}
            BY DEF GroupsInv, GroupTables, ModelRow
        <3>3. \A h \in System : Projection[h] = m => models[m].legacy = h
            BY DEF GroupsInv, SystemStays
        <3> DEFINE new == Row(name, r, models[m].legacy)
        <3>4. new \in ModelRow /\ new.there /\ new.rules = r /\ new.legacy = models[m].legacy
            BY <3>2, GroupsRows
        <3>5. models' = [models EXCEPT ![m] = new]
            BY <3>1
        <3> HIDE DEF new
        <3>6. \E x \in ModelRow : /\ x.there /\ x.rules \in RuleSets
                                  /\ \A h \in System : Projection[h] = m => x.legacy = h
                                  /\ models' = [models EXCEPT ![m] = x]
            BY <3>3, <3>4, <3>5
        <3> QED BY <3>6, ModelsWritten
    <2> QED BY <2>1, <2>2, <2>3 DEF WriteResource
<1>4. GroupTables'
    BY <1>1, <1>2, <1>3 DEF GroupsInv, GroupTables
<1>5. Referenced'
    BY <1>1, <1>2, <1>3 DEF GroupsInv, GroupTables, Referenced
<1> QED BY <1>1, <1>3, <1>4, <1>5 DEF GroupsInv

LEMMA LookKeeps ==
    ASSUME GroupsAssumption, GroupsInv, NEW a \in Admins,
           \/ \E u \in Members, g \in GroupIds : Look(a, "assign", u, g)
           \/ \E u \in Members, m \in ModelIds : Look(a, "assignModel", u, m)
           \/ \E g \in GroupIds : Look(a, "delete", NoId, g)
           \/ \E m \in ModelIds : Look(a, "deleteModel", NoId, m)
    PROVE  GroupsInv'
<1> DEFINE Sees(op, u, id) == [op |-> op, user |-> u, id |-> id]
       Seen == \E l \in LookedRow : WillWrite(l) /\ looked' = [looked EXCEPT ![a] = l]
<1>1. UNCHANGED <<groups, models, memberOf, modelOf, override, spent>>
    BY DEF Look
<1>2. Seen
    <2>1. ASSUME NEW u \in Members, NEW g \in GroupIds, Look(a, "assign", u, g) PROVE Seen
        <3> DEFINE l == Sees("assign", u, g)
        <3>1. l \in LookedRow /\ WillWrite(l)
            BY DEF LookedRow, WillWrite
        <3>2. looked' = [looked EXCEPT ![a] = l]
            BY <2>1 DEF Look
        <3> QED BY <3>1, <3>2
    <2>2. ASSUME NEW u \in Members, NEW m \in ModelIds, Look(a, "assignModel", u, m) PROVE Seen
        <3> DEFINE l == Sees("assignModel", u, m)
        <3>1. l \in LookedRow /\ WillWrite(l)
            BY DEF LookedRow, WillWrite
        <3>2. looked' = [looked EXCEPT ![a] = l]
            BY <2>2 DEF Look
        <3> QED BY <3>1, <3>2
    <2>3. ASSUME NEW g \in GroupIds, Look(a, "delete", NoId, g) PROVE Seen
        <3> DEFINE l == Sees("delete", NoId, g)
        <3>1. l \in LookedRow /\ WillWrite(l)
            BY DEF LookedRow, WillWrite
        <3>2. looked' = [looked EXCEPT ![a] = l]
            BY <2>3 DEF Look
        <3> QED BY <3>1, <3>2
    <2>4. ASSUME NEW m \in ModelIds, Look(a, "deleteModel", NoId, m) PROVE Seen
        <3> DEFINE l == Sees("deleteModel", NoId, m)
        <3>1. looked' = [looked EXCEPT ![a] = l] /\ ~SystemModel(m)
            BY <2>4 DEF Look
        <3>2. \A g \in System : m # Projection[g]
            BY <3>1 DEF SystemModel, GroupsInv, SystemStays
        <3>3. l \in LookedRow /\ WillWrite(l)
            BY <3>2 DEF LookedRow, WillWrite
        <3> QED BY <3>1, <3>3
    <2> QED BY <2>1, <2>2, <2>3, <2>4
<1>3. looked' \in [Admins -> LookedRow] /\ \A b \in Admins : WillWrite(looked'[b])
    BY <1>2, LookedIsTyped
<1> QED BY <1>1, <1>3 DEF GroupsInv, GroupTables, Referenced, ModelsRuled, SystemStays

\* An assignment and a deletion look again when they write.
LEMMA RowsWritten ==
    ASSUME GroupsAssumption, GroupsInv, NEW a \in Admins,
           AssignGroupRow(a) \/ AssignModelRow(a) \/ DeleteGroupRow(a) \/ DeleteModelRow(a)
    PROVE  GroupsInv'
<1>1. looked' \in [Admins -> LookedRow] /\ \A b \in Admins : WillWrite(looked'[b])
    BY IdleIsTyped DEF AssignGroupRow, AssignModelRow, DeleteGroupRow, DeleteModelRow, Refused
<1>2. ASSUME Refused(a) PROVE GroupsInv'
    BY <1>1, <1>2 DEF Refused, GroupsInv, GroupTables, Referenced, ModelsRuled, SystemStays
<1>3. WillWrite(looked[a])
    BY DEF GroupsInv
<1>4. ASSUME AssignGroupRow(a), ~Refused(a) PROVE GroupsInv'
    <2>1. /\ looked[a].id \in GroupIds /\ groups[looked[a].id].there /\ looked[a].user \in Members
          /\ memberOf' = [memberOf EXCEPT ![looked[a].user] = looked[a].id]
          /\ UNCHANGED <<groups, models, modelOf, override, spent>>
        BY <1>3, <1>4 DEF AssignGroupRow, WillWrite, Idle
    <2> QED BY <1>1, <2>1 DEF GroupsInv, GroupTables, Referenced, ModelsRuled, SystemStays
<1>5. ASSUME AssignModelRow(a), ~Refused(a) PROVE GroupsInv'
    <2>1. /\ looked[a].id \in ModelIds /\ models[looked[a].id].there /\ looked[a].user \in Members
          /\ modelOf' = [modelOf EXCEPT ![looked[a].user] = looked[a].id]
          /\ UNCHANGED <<groups, models, memberOf, override, spent>>
        BY <1>3, <1>5 DEF AssignModelRow, WillWrite, Idle
    <2> QED BY <1>1, <2>1 DEF GroupsInv, GroupTables, Referenced, ModelsRuled, SystemStays
<1>6. ASSUME DeleteGroupRow(a), ~Refused(a) PROVE GroupsInv'
    <2> DEFINE g == looked[a].id
    <2>1. /\ g \in GroupIds /\ \A u \in Members : memberOf[u] # g
          /\ groups' = [groups EXCEPT ![g] = Gone] /\ spent' = spent \cup {g}
          /\ UNCHANGED <<models, memberOf, modelOf, override>>
        BY <1>3, <1>6 DEF DeleteGroupRow, WillWrite, Idle
    <2> HIDE DEF g
    <2>2. groups' \in [GroupIds -> GroupRow] /\ \A h \in GroupIds \ {g} : groups'[h] = groups[h]
        BY <2>1, GroupsRows DEF GroupsInv, GroupTables
    <2> QED BY <1>1, <2>1, <2>2 DEF GroupsInv, GroupTables, Referenced, ModelsRuled, SystemStays
<1>7. ASSUME DeleteModelRow(a), ~Refused(a) PROVE GroupsInv'
    <2> DEFINE m == looked[a].id
    <2>1. /\ m \in ModelIds /\ \A u \in Members : modelOf[u] # m
          /\ \A g \in System : m # Projection[g]
          /\ models' = [models EXCEPT ![m] = Gone] /\ spent' = spent \cup {m}
          /\ UNCHANGED <<groups, memberOf, modelOf, override>>
        BY <1>3, <1>7 DEF DeleteModelRow, NoMembers, WillWrite, Idle
    <2> HIDE DEF m
    <2>2. /\ models' \in [ModelIds -> ModelRow] /\ ~models'[m].there
          /\ \A n \in ModelIds \ {m} : models'[n] = models[n]
        BY <2>1, GroupsRows DEF GroupsInv, GroupTables
    <2>3. \A g \in System : Projection[g] \in ModelIds
        BY DEF GroupsAssumption
    <2> QED BY <1>1, <2>1, <2>2, <2>3 DEF GroupsInv, GroupTables, Referenced, ModelsRuled, SystemStays
<1> QED BY <1>2, <1>4, <1>5, <1>6, <1>7

LEMMA AssignmentsKeep ==
    ASSUME GroupsAssumption, GroupsInv,
           \/ \E u \in Members, g \in GroupIds : AssignBoth(u, g)
           \/ \E users \in SUBSET Members \ {{}}, g \in GroupIds \cup {NoId}, m \in ModelIds \cup {NoId} :
                 BulkAssign(users, g, m)
           \/ \E u \in Members : SetPolicy(u)
    PROVE  GroupsInv'
<1>1. UNCHANGED <<groups, models, spent, looked>>
    BY DEF AssignBoth, BulkAssign, SetPolicy
<1> DEFINE Placed == /\ override' \subseteq Members
                     /\ memberOf' \in [Members -> GroupIds \cup {NoId}]
                     /\ modelOf' \in [Members -> ModelIds \cup {NoId}]
                     /\ \A u \in Members : /\ memberOf'[u] # NoId => groups[memberOf'[u]].there
                                           /\ modelOf'[u] # NoId => models[modelOf'[u]].there
<1>2. Placed
    <2>1. ASSUME NEW u \in Members, NEW g \in GroupIds, AssignBoth(u, g) PROVE Placed
        BY <2>1 DEF AssignBoth, Heir, GroupsInv, GroupTables, Referenced
    <2>2. ASSUME NEW users \in SUBSET Members \ {{}}, NEW g \in GroupIds \cup {NoId},
                 NEW m \in ModelIds \cup {NoId}, BulkAssign(users, g, m)
          PROVE  Placed
        BY <2>2 DEF BulkAssign, GroupsInv, GroupTables, Referenced
    <2>3. ASSUME NEW u \in Members, SetPolicy(u) PROVE Placed
        BY <2>3 DEF SetPolicy, GroupsInv, GroupTables, Referenced
    <2> QED BY <2>1, <2>2, <2>3
<1> QED BY <1>1, <1>2 DEF GroupsInv, GroupTables, Referenced, ModelsRuled, SystemStays

LEMMA GroupsInvariant ==
    ASSUME GroupsAssumption, GroupsInv, [GroupsNext]_groupsVars
    PROVE  GroupsInv'
<1>1. CASE Start
    BY <1>1, StartKeeps
<1>2. CASE Administration
    BY <1>2, WritesKeep, LookKeeps, RowsWritten, AssignmentsKeep DEF Administration
<1>3. CASE UNCHANGED groupsVars
    BY <1>3 DEF groupsVars, GroupsInv, GroupTables, Referenced, ModelsRuled, SystemStays
<1> QED BY <1>1, <1>2, <1>3 DEF GroupsNext

LEMMA GroupsPromise ==
    ASSUME GroupsAssumption, GroupsInv
    PROVE  GroupsTypeOK /\ Referenced /\ RulesResolve
<1>1. GroupsTypeOK
    BY DEF GroupsInv, GroupTables, GroupsTypeOK, GroupRow, ModelRow, LookedRow
<1>2. RulesResolve
    <2> SUFFICES ASSUME NEW u \in Members, PolicyOf(u).source # "legacy"
                 PROVE  PolicyOf(u).rules \in RuleSets
        BY DEF RulesResolve
    <2>1. CASE modelOf[u] # NoId
        BY <2>1 DEF PolicyOf, GroupsInv, GroupTables, Referenced, ModelsRuled
    <2>2. CASE modelOf[u] = NoId
        <3>1. Projection[DefaultGroup] \in ModelIds /\ models[Projection[DefaultGroup]].there
            BY DEF GroupsAssumption, GroupsInv, SystemStays
        <3> QED BY <2>2, <3>1 DEF PolicyOf, GroupsInv, ModelsRuled
    <2> QED BY <2>1, <2>2
<1> QED BY <1>1, <1>2 DEF GroupsInv

\* For any number of users, groups and administrators: no assignment refers to
\* a group that is gone and every user has rules to be judged by, whatever
\* order administrators assign, count members and delete in; a start projects
\* all there is to project and takes back nothing that is assigned (store.py).
THEOREM GroupsHoldTogether ==
    ASSUME GroupsAssumption
    PROVE  GroupsSpec => GroupsSafety
<1>1. GroupsInit => GroupsInv
    BY GroupsBegin
<1>2. GroupsInv /\ [GroupsNext]_groupsVars => GroupsInv'
    BY GroupsInvariant
<1>3. GroupsInv => GroupsTypeOK /\ Referenced /\ RulesResolve
    BY GroupsPromise
<1>4. GroupsInv /\ [GroupsNext]_groupsVars
      => [\/ \A u \in Members :
             modelOf'[u] = NoId => memberOf'[u] = NoId \/ Heir(memberOf'[u], models') = {}
          \/ ~Start]_groupsVars
    <2> SUFFICES ASSUME GroupsInv, Start, NEW u \in Members, modelOf'[u] = NoId
                 PROVE  memberOf'[u] = NoId \/ Heir(memberOf'[u], models') = {}
        OBVIOUS
    <2> QED BY StartAssigns DEF Start, Started, GroupsInv
<1>5. GroupsInv /\ [GroupsNext]_groupsVars
      => [\/ /\ \A u \in Members : modelOf[u] # NoId => modelOf'[u] = modelOf[u]
             /\ \A m \in ModelIds : models[m].there => models'[m] = models[m]
          \/ ~Start]_groupsVars
    <2> SUFFICES ASSUME GroupsInv, Start
                 PROVE  /\ \A u \in Members : modelOf[u] # NoId => modelOf'[u] = modelOf[u]
                        /\ \A m \in ModelIds : models[m].there => models'[m] = models[m]
        OBVIOUS
    <2> QED BY StartAdds, StartAssigns DEF Start, Started, GroupsInv
<1> QED BY <1>1, <1>2, <1>3, <1>4, <1>5, PTL
        DEF GroupsSpec, GroupsSafety, StartIsIdempotent, AssignmentsWin
=============================================================================
