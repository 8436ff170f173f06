-------------------------- MODULE AccountPoolProofs --------------------------
(***************************************************************************)
(* Proofs about AccountPool: types, what a ready account is, capacity and  *)
(* one turn per chat, that a new login is not disturbed, and that the rows *)
(* implement SlotLeases.                                                   *)
(***************************************************************************)
EXTENDS AccountPool, FiniteSetTheorems, TLAPS

-----------------------------------------------------------------------------
(* What is written into a row of chat_account. *)

\* An account offered as ready is enabled and has a session.
Sound(acc) ==
    acc.status = "ready" => acc.enabled /\ acc.session = "valid"

LEMMA CooledType ==
    ASSUME NEW acc \in Account
    PROVE  Cooled(acc) \in Account /\ (Sound(acc) => Sound(Cooled(acc)))
  BY DEF Cooled, Account, Status, Session, Health, Sound

LEMMA OneMoreType ==
    ASSUME NEW acc \in Account PROVE OneMore(acc) \in 0..Threshold
  BY PoolAssumption DEF OneMore, Account

LEMMA ResultType ==
    ASSUME NEW acc \in Account, NEW outcome \in Outcome
    PROVE  Result(acc, outcome) \in Account
           /\ (Sound(acc) => Sound(Result(acc, outcome)))
<1> DEFINE more == OneMore(acc)
<1>1. more \in 0..Threshold
  BY OneMoreType
<1>2. CoolTime \in 0..CoolTime /\ 0 \in 0..CoolTime /\ 0 \in 0..Threshold
  BY PoolAssumption
<1> HIDE DEF more
<1>3. Result(acc, outcome) =
        CASE outcome = "success" ->
            [acc EXCEPT !.status = Ready(acc), !.session = "valid",
                        !.health = "healthy", !.failures = 0, !.cool = 0]
        [] outcome = "cancelled" -> acc
        [] outcome = "denied" ->
            [acc EXCEPT !.status = "reauth_required", !.session = "expired",
                        !.health = "unhealthy", !.failures = more]
        [] outcome = "limited" ->
            [acc EXCEPT !.status = Ready(acc), !.session = "valid",
                        !.health = "healthy", !.failures = more, !.cool = 0]
        [] outcome = "error" ->
            [acc EXCEPT
                !.status = IF acc.enabled THEN "cooldown" ELSE "disabled",
                !.health = IF more = Threshold THEN "unhealthy" ELSE "degraded",
                !.failures = more, !.cool = CoolTime]
  BY DEF Result, more
<1> USE <1>1, <1>2 DEF Account, Status, Session, Health, Sound, Ready
<1>4. CASE outcome = "success"
  BY ZenonT(30), <1>3, <1>4
<1>5. CASE outcome = "cancelled"
  BY <1>3, <1>5
<1>6. CASE outcome = "denied"
  BY ZenonT(30), <1>3, <1>6
<1>7. CASE outcome = "limited"
  BY ZenonT(30), <1>3, <1>7
<1>8. CASE outcome = "error"
  BY ZenonT(30), <1>3, <1>8
<1> QED
  BY <1>4, <1>5, <1>6, <1>7, <1>8 DEF Outcome

LEMMA CheckedType ==
    ASSUME NEW acc \in Account, NEW seen \in Seen, NEW allowed \in BOOLEAN
    PROVE  Checked(acc, seen, allowed) \in Account
           /\ (Sound(acc) => Sound(Checked(acc, seen, allowed)))
<1>1. OneMore(acc) \in 0..Threshold
  BY OneMoreType
<1>2. 0 \in 0..CoolTime /\ 0 \in 0..Threshold
  BY PoolAssumption
<1> USE <1>1, <1>2 DEF Account, Status, Session, Health, Sound, Ready, Seen
<1>3. CASE seen = "ready" /\ acc.status = "reauth_required" /\ ~allowed
  BY <1>3 DEF Checked
<1>4. CASE seen = "ready" /\ (acc.status # "reauth_required" \/ allowed)
  BY <1>4 DEF Checked
<1>5. CASE seen = "auth_required"
  BY <1>5 DEF Checked
<1>6. CASE seen = "offline"
  BY <1>6 DEF Checked
<1>7. CASE seen = "error"
  BY <1>7 DEF Checked
<1> QED
  BY <1>3, <1>4, <1>5, <1>6, <1>7

LEMMA UpdatedType ==
    ASSUME NEW acc \in Account, NEW enabled \in BOOLEAN, NEW moved \in BOOLEAN
    PROVE  Updated(acc, enabled, moved) \in Account
           /\ (Sound(acc) => Sound(Updated(acc, enabled, moved)))
<1>1. 0 \in 0..CoolTime /\ 0 \in 0..Threshold
  BY PoolAssumption
<1> QED
  BY <1>1 DEF Updated, Account, Status, Session, Health, Sound

-----------------------------------------------------------------------------
(* What is written into the leases. *)

LEMMA EndedType ==
    ASSUME NEW l \in Lease
    PROVE  /\ Ended(l) \in Lease
           /\ Ended(l).account = l.account /\ Ended(l).lane = l.lane
           /\ Ended(l).left = l.left
           /\ Ended(l).state = "active" <=> l.state = "active" /\ l.left > 0
           /\ l.state # "active" => Ended(l) = l
  BY PoolAssumption DEF Ended, Lease

LEMMA NowType ==
    ASSUME TypeOK
    PROVE  /\ AccountsNow \in [Accounts -> Account]
           /\ LeasesNow \in [Holders -> Lease]
<1>1. \A a \in Accounts : Cooled(account[a]) \in Account
  BY CooledType DEF TypeOK
<1>2. \A h \in Holders : Ended(lease[h]) \in Lease
  BY EndedType DEF TypeOK
<1> QED
  BY <1>1, <1>2 DEF AccountsNow, LeasesNow

LEMMA LeaseTypes ==
    /\ NoLease \in Lease /\ [NoLease EXCEPT !.state = "ended"] \in Lease
    /\ \A a \in Accounts, l \in Lanes :
        /\ [state |-> "active", account |-> a, lane |-> l, left |-> LeaseTime] \in Lease
        /\ [state |-> "none", account |-> a, lane |-> l, left |-> 0] \in Lease
    /\ \A l \in Lease :
        /\ [l EXCEPT !.left = LeaseTime] \in Lease
        /\ [l EXCEPT !.left = Less(l.left)] \in Lease
        /\ [l EXCEPT !.state = "active", !.left = ClaimTime] \in Lease
<1> DEFINE Times == 0..(LeaseTime + ClaimTime)
<1>1. 0 \in Times /\ LeaseTime \in Times /\ ClaimTime \in Times
  BY PoolAssumption
<1>2. \A n \in Times : Less(n) \in Times
  BY PoolAssumption DEF Less
<1>3. Lease = [state: {"none", "active", "expired", "ended"},
               account: Accounts \cup {NoAccount}, lane: Lanes \cup {NoLane},
               left: Times]
  BY DEF Lease
<1> HIDE DEF Times
<1>4. NoLease \in Lease /\ [NoLease EXCEPT !.state = "ended"] \in Lease
  BY <1>1, <1>3 DEF NoLease
<1>5. ASSUME NEW a \in Accounts, NEW l \in Lanes
      PROVE  /\ [state |-> "active", account |-> a, lane |-> l, left |-> LeaseTime] \in Lease
             /\ [state |-> "none", account |-> a, lane |-> l, left |-> 0] \in Lease
  BY <1>1, <1>3
<1>6. ASSUME NEW l \in Lease
      PROVE  /\ [l EXCEPT !.left = LeaseTime] \in Lease
             /\ [l EXCEPT !.left = Less(l.left)] \in Lease
             /\ [l EXCEPT !.state = "active", !.left = ClaimTime] \in Lease
  <2>1. Less(l.left) \in Times
    BY <1>2, <1>3
  <2> QED
    BY <1>1, <1>3, <2>1
<1> QED
  BY ZenonT(30), <1>4, <1>5, <1>6

\* An active lease, and a claim that is about to become one, name an account
\* and a lane.
Placed ==
    \A h \in Holders :
        lease[h].state = "active" \/ pc[h] = "claiming" =>
            lease[h].account \in Accounts /\ lease[h].lane \in Lanes

Types == TypeOK /\ Placed

LEMMA TypesInit == Init => Types
<1> SUFFICES ASSUME Init PROVE Types
  OBVIOUS
<1>1. Deployed \in Account
  BY PoolAssumption DEF Deployed, Account, Status, Session, Health
<1>2. 0 \in 0..BlockTime /\ 0 \in 0..MaxFaults
  BY PoolAssumption
<1>3. TypeOK
  BY ZenonT(30), <1>1, <1>2, LeaseTypes DEF Init, TypeOK, PC, Login
<1>4. Placed
  BY DEF Init, Placed, NoLease
<1> QED
  BY <1>3, <1>4 DEF Types

\* release() of an active lease.
LEMMA SettleTypes ==
    ASSUME Types, NEW h \in Holders, NEW outcome \in Outcome,
           lease[h].state = "active", Settle(h, outcome)
    PROVE  /\ account' \in [Accounts -> Account]
           /\ lease' \in [Holders -> Lease]
           /\ limited' \subseteq Accounts \X Lanes
           /\ until' \in [Accounts \X Lanes -> 0..BlockTime]
<1> DEFINE a == lease[h].account
           s == <<a, lease[h].lane>>
<1>1. a \in Accounts /\ s \in Accounts \X Lanes
  BY DEF Types, Placed
<1>2. account' \in [Accounts -> Account]
  <2>1. Result(account[a], outcome) \in Account
    BY <1>1, ResultType DEF Types, TypeOK
  <2>2. account' = [account EXCEPT ![a] = Result(account[a], outcome)]
    BY DEF Settle
  <2> QED
    BY <2>1, <2>2 DEF Types, TypeOK
<1>3. lease' \in [Holders -> Lease]
  BY ZenonT(30), LeaseTypes DEF Settle, Types, TypeOK
<1>4. limited' \subseteq Accounts \X Lanes
  BY <1>1 DEF Settle, Types, TypeOK
<1>5. until' \in [Accounts \X Lanes -> 0..BlockTime]
  <2>1. CASE until' = until
    BY <2>1 DEF Types, TypeOK
  <2>2. CASE \E n \in 1..BlockTime : until' = [until EXCEPT ![s] = n]
    BY <1>1, <2>2, PoolAssumption DEF Types, TypeOK
  <2> QED
    BY <2>1, <2>2 DEF Settle
<1> QED
  BY <1>2, <1>3, <1>4, <1>5

LEMMA TypesStep == Types /\ [Next]_vars => Types'
<1> SUFFICES ASSUME Types, [Next]_vars PROVE Types'
  OBVIOUS
<1> USE DEF Types
<1>1. ASSUME NEW t \in Turns, NEW a \in Accounts, Acquire(t, a) PROVE Types'
  <2>1. /\ t \in Holders /\ LaneOf[t] \in Lanes /\ ChatOf[t] \in Chats
    BY PoolAssumption DEF Holders
  <2>2. TypeOK'
    BY ZenonT(30), <1>1, <2>1, NowType, LeaseTypes DEF Acquire, TypeOK, Goto, PC
  <2>3. Placed'
    BY <1>1, <2>1, EndedType DEF Acquire, TypeOK, Placed, LeasesNow, Goto
  <2> QED
    BY <2>2, <2>3
<1>2. ASSUME NEW t \in Turns, Refuse(t) PROVE Types'
  BY <1>2 DEF Refuse, TypeOK, Placed, rows, Goto, PC, Holders
<1>3. ASSUME NEW t \in Turns, Renew(t) PROVE Types'
  <2>1. TypeOK'
    <3>1. lease' \in [Holders -> Lease]
      BY ZenonT(30), <1>3, NowType, LeaseTypes DEF Renew, Holders
    <3> QED
      BY <1>3, <3>1, NowType DEF Renew, TypeOK
  <2>2. Placed'
    <3>1. \A h \in Holders :
            /\ lease'[h].account = lease[h].account
            /\ lease'[h].lane = lease[h].lane
            /\ lease'[h].state = "active" => lease[h].state = "active"
      <4>1. \A h \in Holders :
              /\ LeasesNow[h] \in Lease
              /\ LeasesNow[h].account = lease[h].account
              /\ LeasesNow[h].lane = lease[h].lane
              /\ LeasesNow[h].state = "active" => lease[h].state = "active"
        BY EndedType DEF TypeOK, LeasesNow
      <4>2. lease' = LeasesNow \/ lease' = [LeasesNow EXCEPT ![t].left = LeaseTime]
        BY <1>3 DEF Renew
      <4>3. LeasesNow \in [Holders -> Lease]
        BY NowType
      <4> QED
        BY <4>1, <4>2, <4>3 DEF Lease
    <3> QED
      BY <1>3, <3>1 DEF Renew, Placed
  <2> QED
    BY <2>1, <2>2
<1>4. ASSUME NEW t \in Turns, RenewFails(t) PROVE Types'
  BY <1>4, PoolAssumption DEF RenewFails, Fault, TypeOK, Placed, rows
<1>5. ASSUME NEW h \in Holders, NEW outcome \in Outcome, Released(h, outcome),
             pc' \in [Holders -> PC], pc'[h] # "claiming",
             \A i \in Holders : pc'[i] = "claiming" => pc[i] = "claiming",
             beat' \in [Turns -> {"off", "waiting", "due"}],
             UNCHANGED <<tried, login, faults>>
      PROVE  Types'
  <2>1. CASE lease[h].state = "active"
    <3>1. Settle(h, outcome) /\ bound' = bound
      BY <1>5, <2>1 DEF Released
    <3>2. TypeOK'
      BY <1>5, <2>1, <3>1, SettleTypes DEF TypeOK
    <3>3. Placed'
      BY <1>5, <2>1, <3>1 DEF Settle, TypeOK, Placed, NoLease
    <3> QED
      BY <3>2, <3>3
  <2>2. CASE lease[h].state # "active"
    BY <1>5, <2>2 DEF Released, rows, TypeOK, Placed
  <2> QED
    BY <2>1, <2>2
<1>6. ASSUME NEW t \in Turns, NEW outcome \in Outcome, Finish(t, outcome)
      PROVE  Types'
  <2>1. /\ t \in Holders /\ Released(t, outcome)
        /\ pc' \in [Holders -> PC] /\ pc'[t] # "claiming"
        /\ \A i \in Holders : pc'[i] = "claiming" => pc[i] = "claiming"
        /\ beat' \in [Turns -> {"off", "waiting", "due"}]
        /\ UNCHANGED <<tried, login, faults>>
    BY <1>6 DEF Finish, Goto, TypeOK, PC, Holders
  <2> QED
    BY <1>5, <2>1
<1>7. ASSUME NEW h \in Holders, Die(h) PROVE Types'
  BY <1>7, PoolAssumption DEF Die, Fault, Goto, TypeOK, Placed, rows, PC
<1>8. ASSUME NEW p \in Probes, NEW a \in Accounts, NEW l \in Lanes, Claim(p, a, l)
      PROVE  Types'
  <2>1. TypeOK'
    BY ZenonT(30), <1>8, NowType, LeaseTypes DEF Claim, TypeOK, Goto, PC, Holders
  <2>2. Placed'
    BY ZenonT(30), <1>8, EndedType DEF Claim, TypeOK, Placed, LeasesNow, Goto, Holders
  <2> QED
    BY <2>1, <2>2
<1>9. ASSUME NEW p \in Probes, Commit(p) PROVE Types'
  <2>1. p \in Holders /\ <<lease[p].account, lease[p].lane>> \in Accounts \X Lanes
    BY <1>9 DEF Commit, Placed, Holders
  <2>2. ClaimTime \in 0..BlockTime
    BY PoolAssumption
  <2>3. TypeOK'
    BY ZenonT(30), <1>9, <2>1, <2>2, LeaseTypes DEF Commit, TypeOK, Goto, PC
  <2>4. Placed'
    BY <1>9, <2>1 DEF Commit, TypeOK, Placed, Goto
  <2> QED
    BY <2>3, <2>4
<1>10. ASSUME NEW p \in Probes, NEW outcome \in Outcome, Probed(p, outcome)
       PROVE  Types'
  <2>1. /\ p \in Holders /\ Released(p, outcome)
        /\ pc' \in [Holders -> PC] /\ pc'[p] # "claiming"
        /\ \A i \in Holders : pc'[i] = "claiming" => pc[i] = "claiming"
        /\ beat' \in [Turns -> {"off", "waiting", "due"}]
        /\ UNCHANGED <<tried, login, faults>>
    BY <1>10 DEF Probed, Goto, TypeOK, PC, Holders
  <2> QED
    BY <1>5, <2>1
<1>11. ASSUME NEW a \in Managed, Administer(a) PROVE Types'
  <2>1. a \in Accounts /\ account[a] \in Account
    BY PoolAssumption DEF TypeOK
  <2>2. ASSUME NEW seen \in Seen, MarkProbe(a, seen) PROVE Types'
    <3>1. Checked(account[a], seen, FALSE) \in Account
      BY <2>1, CheckedType
    <3> QED
      BY <2>1, <2>2, <3>1 DEF MarkProbe, TypeOK, Placed
  <2>3. ASSUME NEW seen \in Seen, CompleteReauth(a, seen) PROVE Types'
    <3>1. Checked(account[a], seen, TRUE) \in Account
      BY <2>1, CheckedType
    <3> QED
      BY <2>1, <2>3, <3>1 DEF CompleteReauth, TypeOK, Placed, Login
  <2>4. CASE BeginReauth(a)
    <3> DEFINE acc == AccountsNow[a]
    <3>0. acc \in Account /\ 0 \in 0..CoolTime
      BY <2>1, NowType, PoolAssumption
    <3>1. [acc EXCEPT !.status = "reauth_required",
            !.session = "expired", !.health = "unhealthy", !.cool = 0] \in Account
      BY <3>0 DEF Account, Status, Session, Health
    <3>2. TypeOK'
      BY <2>1, <2>4, <3>1, NowType DEF BeginReauth, TypeOK, Login
    <3>3. Placed'
      BY <2>4, EndedType DEF BeginReauth, TypeOK, Placed, LeasesNow
    <3> QED
      BY <3>2, <3>3
  <2>5. ASSUME NEW enabled \in BOOLEAN, NEW moved \in BOOLEAN,
               UpdateAccount(a, enabled, moved)
        PROVE  Types'
    <3>1. Updated(account[a], enabled, moved) \in Account
      BY <2>1, UpdatedType
    <3> QED
      BY <2>1, <2>5, <3>1 DEF UpdateAccount, TypeOK, Placed, Login
  <2> QED
    BY <1>11, <2>2, <2>3, <2>4, <2>5 DEF Administer
<1>12. CASE Poll
  BY <1>12, NowType, EndedType DEF Poll, TypeOK, Placed, LeasesNow
<1>13. CASE Tick
  <2>1. account' \in [Accounts -> Account]
    <3>1. ASSUME NEW acc \in Account
          PROVE  [acc EXCEPT !.cool = Less(acc.cool)] \in Account
      <4>1. acc.cool \in 0..CoolTime
        BY DEF Account
      <4>2. Less(acc.cool) \in 0..CoolTime
        BY <4>1, PoolAssumption DEF Less
      <4> QED
        BY <4>2 DEF Account
    <3> QED
      BY <1>13, <3>1 DEF Tick, TypeOK
  <2>2. until' \in [Accounts \X Lanes -> 0..BlockTime]
    <3>1. \A s \in Accounts \X Lanes : Less(until[s]) \in 0..BlockTime
      BY PoolAssumption DEF TypeOK, Less
    <3> QED
      BY <1>13, <3>1 DEF Tick
  <2>3. lease' \in [Holders -> Lease]
    BY ZenonT(30), <1>13, LeaseTypes DEF Tick, TypeOK
  <2>4. TypeOK'
    BY <1>13, <2>1, <2>2, <2>3 DEF Tick, TypeOK
  <2>5. Placed'
    BY ZenonT(30), <1>13 DEF Tick, TypeOK, Placed, Lease
  <2> QED
    BY <2>4, <2>5
<1>14. CASE UNCHANGED vars
  BY <1>14 DEF vars, rows, TypeOK, Placed
<1> QED
  BY <1>1, <1>2, <1>3, <1>4, <1>6, <1>7, <1>8, <1>9, <1>10, <1>11, <1>12, <1>13, <1>14
  DEF Next, Turn, Monitor

\* Every variable keeps its type, for any number of accounts, turns, probes
\* and faults.
THEOREM PoolTypeCorrect == Spec => []TypeOK
<1>1. Types => TypeOK
  BY DEF Types
<1> QED
  BY <1>1, TypesInit, TypesStep, PTL DEF Spec

-----------------------------------------------------------------------------
(* What a ready account is. *)

SoundRows == \A a \in Accounts : Sound(account[a])

LEMMA SoundNow ==
    ASSUME TypeOK, SoundRows PROVE \A a \in Accounts : Sound(AccountsNow[a])
  BY CooledType DEF TypeOK, SoundRows, AccountsNow

LEMMA SoundRelease ==
    ASSUME Types, SoundRows, NEW h \in Holders, NEW outcome \in Outcome,
           Released(h, outcome)
    PROVE  SoundRows'
<1>1. CASE lease[h].state = "active"
  <2> DEFINE a == lease[h].account
  <2>1. a \in Accounts
    BY <1>1 DEF Types, Placed
  <2>2. account' = [account EXCEPT ![a] = Result(account[a], outcome)]
    BY <1>1 DEF Released, Settle
  <2>3. Sound(Result(account[a], outcome))
    BY <2>1, ResultType DEF SoundRows, Types, TypeOK
  <2> QED
    BY <2>1, <2>2, <2>3 DEF SoundRows, Types, TypeOK
<1>2. CASE lease[h].state # "active"
  BY <1>2 DEF Released, rows, SoundRows
<1> QED
  BY <1>1, <1>2

LEMMA SoundStep == Types /\ SoundRows /\ [Next]_vars => SoundRows'
<1> SUFFICES ASSUME Types, SoundRows, [Next]_vars PROVE SoundRows'
  OBVIOUS
<1>1. CASE account' = AccountsNow
  BY <1>1, SoundNow DEF Types, SoundRows
<1>2. CASE account' = account
  BY <1>2 DEF SoundRows
<1>3. ASSUME NEW h \in Holders, NEW outcome \in Outcome, Released(h, outcome)
      PROVE  SoundRows'
  BY <1>3, SoundRelease
<1>4. ASSUME NEW a \in Managed, Administer(a) PROVE SoundRows'
  <2>1. a \in Accounts /\ account[a] \in Account /\ Sound(account[a])
    BY PoolAssumption DEF Types, TypeOK, SoundRows
  <2>2. ASSUME NEW acc, Sound(acc), account' = [account EXCEPT ![a] = acc]
        PROVE  SoundRows'
    BY <2>1, <2>2 DEF SoundRows, Types, TypeOK
  <2>3. ASSUME NEW seen \in Seen, MarkProbe(a, seen) PROVE SoundRows'
    BY <2>1, <2>2, <2>3, CheckedType DEF MarkProbe
  <2>4. ASSUME NEW seen \in Seen, CompleteReauth(a, seen) PROVE SoundRows'
    BY <2>1, <2>2, <2>4, CheckedType DEF CompleteReauth
  <2>5. ASSUME NEW enabled \in BOOLEAN, NEW moved \in BOOLEAN,
               UpdateAccount(a, enabled, moved)
        PROVE  SoundRows'
    BY <2>1, <2>2, <2>5, UpdatedType DEF UpdateAccount
  <2>6. CASE BeginReauth(a)
    <3> DEFINE acc == [AccountsNow[a] EXCEPT !.status = "reauth_required",
                !.session = "expired", !.health = "unhealthy", !.cool = 0]
    <3>1. AccountsNow[a] \in Account
      BY <2>1, NowType DEF Types
    <3>2. Sound(acc)
      BY <3>1 DEF Sound, Account
    <3>3. account' = [AccountsNow EXCEPT ![a] = acc]
      BY <2>6 DEF BeginReauth
    <3> HIDE DEF acc
    <3> QED
      BY <2>1, <3>2, <3>3, SoundNow, NowType DEF SoundRows, Types
  <2> QED
    BY <1>4, <2>3, <2>4, <2>5, <2>6 DEF Administer
<1>5. CASE Tick
  <2>1. ASSUME NEW a \in Accounts PROVE Sound(account'[a])
    <3>1. account[a] \in Account /\ Sound(account[a])
      BY DEF SoundRows, Types, TypeOK
    <3>2. account'[a] = [account[a] EXCEPT !.cool = Less(account[a].cool)]
      BY <1>5 DEF Tick
    <3> QED
      BY <3>1, <3>2 DEF Sound, Account
  <2> QED
    BY <2>1 DEF SoundRows
<1>6. \A t \in Turns, outcome \in Outcome :
        Finish(t, outcome) => t \in Holders /\ Released(t, outcome)
  BY DEF Finish, Holders
<1>7. \A p \in Probes, outcome \in Outcome :
        Probed(p, outcome) => p \in Holders /\ Released(p, outcome)
  BY DEF Probed, Holders
<1> QED
  BY <1>1, <1>2, <1>3, <1>4, <1>5, <1>6, <1>7
  DEF Next, Turn, Monitor, Acquire, Refuse, Renew, RenewFails, Die, Claim,
      Commit, Poll, rows, vars

\* An account offered as ready is enabled and has a valid session, for any
\* number of accounts, turns, probes and administrators.
THEOREM ReadyMeansUsable == Spec => []ReadyIsUsable
<1>1. Init => SoundRows
  BY DEF Init, SoundRows, Sound, Deployed
<1>2. SoundRows => ReadyIsUsable
  BY DEF SoundRows, Sound, ReadyIsUsable
<1> QED
  BY <1>1, <1>2, TypesInit, TypesStep, SoundStep, PTL DEF Spec

-----------------------------------------------------------------------------
(* How leases change. *)

\* Seen from the leases, every step but a new lease lets them run out or ends
\* them.
OnlyShrinks ==
    \A h \in Holders :
        lease'[h].state = "active" =>
            /\ lease[h].state = "active"
            /\ lease'[h].account = lease[h].account
            /\ lease'[h].left > 0 => lease[h].left > 0

LEMMA NowShrinks ==
    ASSUME TypeOK
    PROVE  \A h \in Holders :
             LeasesNow[h].state = "active" =>
                 /\ lease[h].state = "active" /\ lease[h].left > 0
                 /\ LeasesNow[h].account = lease[h].account
                 /\ LeasesNow[h].left = lease[h].left
  BY EndedType DEF TypeOK, LeasesNow

LEMMA ReleaseShrinks ==
    ASSUME Types, NEW h \in Holders, NEW outcome \in Outcome,
           Released(h, outcome)
    PROVE  OnlyShrinks
  BY DEF Types, TypeOK, Released, Settle, rows, OnlyShrinks, NoLease

LEMMA LeaseSteps ==
    ASSUME Types, [Next]_vars
    PROVE  \/ OnlyShrinks
           \/ \E t \in Turns, a \in Accounts : Acquire(t, a)
           \/ \E p \in Probes : Commit(p)
<1>1. ASSUME lease' = lease PROVE OnlyShrinks
  BY <1>1 DEF OnlyShrinks
<1>2. ASSUME lease' = LeasesNow PROVE OnlyShrinks
  BY <1>2, NowShrinks DEF OnlyShrinks, Types
<1>3. ASSUME NEW t \in Turns, Renew(t) PROVE OnlyShrinks
  <2>1. CASE lease' = LeasesNow
    BY <1>2, <2>1
  <2>2. CASE /\ LeasesNow[t].state = "active"
             /\ lease' = [LeasesNow EXCEPT ![t].left = LeaseTime]
    <3>1. ASSUME NEW h \in Holders
          PROVE  /\ lease'[h].state = LeasesNow[h].state
                 /\ lease'[h].account = LeasesNow[h].account
                 /\ h # t => lease'[h].left = LeasesNow[h].left
      BY <2>2, NowType DEF Types, Lease
    <3>2. \A h \in Holders : LeasesNow[h].state = "active" =>
            lease[h].state = "active" /\ lease[h].left > 0
            /\ LeasesNow[h].account = lease[h].account
      BY NowShrinks DEF Types
    <3> QED
      BY <3>1, <3>2 DEF OnlyShrinks
  <2> QED
    BY <1>3, <2>1, <2>2 DEF Renew
<1>4. ASSUME NEW p \in Probes, NEW a \in Accounts, NEW l \in Lanes, Claim(p, a, l)
      PROVE  OnlyShrinks
  BY <1>4, NowShrinks, NowType DEF Claim, OnlyShrinks, Types
<1>5. ASSUME Tick PROVE OnlyShrinks
  <2>1. ASSUME NEW h \in Holders
        PROVE  /\ lease'[h].state = lease[h].state
               /\ lease'[h].account = lease[h].account
               /\ lease'[h].left > 0 => lease[h].left > 0
    <3>1. lease[h] \in Lease /\ lease'[h] = [lease[h] EXCEPT !.left = Less(lease[h].left)]
      BY <1>5 DEF Tick, Types, TypeOK
    <3>2. lease[h].left \in Nat
      BY <3>1, PoolAssumption DEF Lease
    <3>3. lease'[h].left = Less(lease[h].left) /\ lease'[h].state = lease[h].state
          /\ lease'[h].account = lease[h].account
      BY <3>1 DEF Lease
    <3> QED
      BY <3>2, <3>3 DEF Less
  <2> QED
    BY <2>1 DEF OnlyShrinks
<1>6. ASSUME NEW t \in Turns, NEW outcome \in Outcome, Finish(t, outcome)
      PROVE  OnlyShrinks
  BY <1>6, ReleaseShrinks DEF Finish, Holders
<1>7. ASSUME NEW p \in Probes, NEW outcome \in Outcome, Probed(p, outcome)
      PROVE  OnlyShrinks
  BY <1>7, ReleaseShrinks DEF Probed, Holders
<1>8. ASSUME NEW a \in Managed, Administer(a) PROVE OnlyShrinks
  BY <1>1, <1>2, <1>8
  DEF Administer, MarkProbe, CompleteReauth, BeginReauth, UpdateAccount
<1>9. ASSUME NEW t \in Turns, Turn(t)
      PROVE  OnlyShrinks \/ \E a \in Accounts : Acquire(t, a)
  BY <1>1, <1>3, <1>6, <1>9 DEF Turn, Refuse, RenewFails, rows
<1>10. ASSUME NEW p \in Probes, Monitor(p) PROVE OnlyShrinks \/ Commit(p)
  BY <1>4, <1>7, <1>10 DEF Monitor
<1>11. ASSUME NEW h \in Holders, Die(h) PROVE OnlyShrinks
  BY <1>1, <1>11 DEF Die, rows
<1>12. ASSUME Poll \/ UNCHANGED vars PROVE OnlyShrinks
  BY <1>1, <1>2, <1>12 DEF Poll, vars, rows
<1> QED
  BY <1>5, <1>8, <1>9, <1>10, <1>11, <1>12 DEF Next

-----------------------------------------------------------------------------
(* One turn per chat. *)

Alive(h) == lease[h].state = "active" /\ lease[h].left > 0

\* Of the turns of a chat one at most has a lease that counts.
Exclusive ==
    \A t, u \in Turns :
        Alive(t) /\ Alive(u) /\ ChatOf[t] = ChatOf[u] => t = u

LEMMA ExclusiveStep == Types /\ Exclusive /\ [Next]_vars => Exclusive'
<1> SUFFICES ASSUME Types, Exclusive, [Next]_vars PROVE Exclusive'
  OBVIOUS
<1>0. Turns \subseteq Holders /\ Probes \subseteq Holders
  BY DEF Holders
<1>1. CASE OnlyShrinks
  <2>1. \A h \in Holders : Alive(h)' => Alive(h)
    BY <1>1 DEF OnlyShrinks, Alive
  <2> QED
    BY <1>0, <2>1 DEF Exclusive
<1>2. ASSUME NEW t \in Turns, NEW a \in Accounts, Acquire(t, a) PROVE Exclusive'
  <2>1. ASSUME NEW u \in Turns, u # t, Alive(u)' PROVE Alive(u)
    <3>1. lease'[u] = LeasesNow[u]
      BY <1>0, <1>2, <2>1, NowType DEF Acquire, Types
    <3> QED
      BY <1>0, <2>1, <3>1, NowShrinks DEF Alive, Types
  <2>2. \A u \in Turns : ChatOf[u] = ChatOf[t] => ~Alive(u)
    BY <1>2 DEF Acquire, ChatBusy, Alive
  <2> QED
    BY <2>1, <2>2 DEF Exclusive
<1>3. ASSUME NEW p \in Probes, Commit(p) PROVE Exclusive'
  <2>1. \A t \in Turns : lease'[t] = lease[t]
    BY <1>0, <1>3, PoolAssumption DEF Commit, Types, TypeOK
  <2> QED
    BY <2>1 DEF Exclusive, Alive
<1> QED
  BY <1>1, <1>2, <1>3, LeaseSteps

\* A turn at work renews its lease: at least one beat is left of it whenever
\* the heartbeat is due, unless more renewals have failed than a lease lasts.
Beats(t) ==
    /\ lease[t].state = "active" /\ beat[t] # "off"
    /\ lease[t].left >= LeaseTime - faults - (IF beat[t] = "due" THEN 1 ELSE 0)

Renewed == Steady => \A t \in Turns : pc[t] = "working" => Beats(t)

LEMMA BeatsLeft ==
    ASSUME Types, Steady, NEW t \in Turns, Beats(t)
    PROVE  lease[t].left > 0 /\ LeasesNow[t] = lease[t]
<1>1. lease[t].left \in Nat /\ faults \in Nat /\ LeaseTime \in Nat
  BY PoolAssumption DEF Types, TypeOK, Lease, Holders
<1>2. lease[t].left > 0
  BY <1>1 DEF Beats, Steady
<1> QED
  BY <1>1, <1>2 DEF Ended, LeasesNow, Holders

LEMMA FaultsGrow ==
    ASSUME Types, [Next]_vars
    PROVE  faults \in Nat /\ faults' \in Nat /\ faults <= faults'
<1>1. faults \in Nat
  BY PoolAssumption DEF Types, TypeOK
<1>2. faults' = faults \/ faults' = faults + 1
  BY ZenonT(30) DEF Next, Turn, Monitor, Administer, Acquire, Refuse, Renew, RenewFails,
     Finish, Die, Claim, Commit, Probed, MarkProbe, BeginReauth, CompleteReauth,
     UpdateAccount, Poll, Tick, Fault, vars
<1> QED
  BY <1>1, <1>2

LEMMA RenewedStep == Types /\ Renewed /\ [Next]_vars => Renewed'
<1> SUFFICES ASSUME Types, Renewed, [Next]_vars, Steady',
                    NEW t \in Turns, pc'[t] = "working"
             PROVE  Beats(t)'
  BY DEF Renewed
<1>1. /\ faults \in Nat /\ faults' \in Nat /\ faults <= faults'
      /\ LeaseTime \in Nat /\ LeaseTime > 0 /\ t \in Holders
  BY FaultsGrow, PoolAssumption DEF Holders
<1>2. Steady
  BY <1>1 DEF Steady
<1>3. ASSUME pc[t] = "working"
      PROVE  /\ Beats(t) /\ lease[t].left > 0 /\ LeasesNow[t] = lease[t]
             /\ lease[t].left \in Nat /\ lease[t] \in Lease
  BY <1>1, <1>2, <1>3, BeatsLeft, PoolAssumption
  DEF Renewed, Types, TypeOK, Lease
<1>4. ASSUME pc[t] = "working", beat'[t] = beat[t],
             lease'[t] = lease[t] \/ lease'[t] = LeasesNow[t]
      PROVE  Beats(t)'
  BY <1>1, <1>3, <1>4 DEF Beats
<1>5. ASSUME NEW u \in Turns, NEW a \in Accounts, Acquire(u, a) PROVE Beats(t)'
  <2>1. CASE u = t
    <3>1. /\ lease'[t] = [state |-> "active", account |-> a, lane |-> LaneOf[t],
                          left |-> LeaseTime]
          /\ beat'[t] = "waiting"
      BY <1>1, <1>5, <2>1, NowType DEF Acquire, Types, TypeOK
    <3>2. /\ lease'[t].state = "active" /\ lease'[t].left = LeaseTime
          /\ beat'[t] = "waiting"
      BY <3>1
    <3>3. \A m, n \in Nat : m >= m - n - 0
      OBVIOUS
    <3>4. LeaseTime >= LeaseTime - faults' - 0
      BY <1>1, <3>3
    <3> QED
      BY <3>2, <3>4 DEF Beats
  <2>2. CASE u # t
    <3>1. pc[t] = "working" /\ lease'[t] = LeasesNow[t] /\ beat'[t] = beat[t]
      BY <1>1, <1>5, <2>2, NowType DEF Acquire, Goto, Types, TypeOK
    <3> QED
      BY <1>4, <3>1
  <2> QED
    BY <2>1, <2>2
<1>6. ASSUME NEW u \in Turns, Renew(u) PROVE Beats(t)'
  <2>0. pc[t] = "working"
    BY <1>6 DEF Renew
  <2>1. CASE u = t
    <3>1. LeasesNow[t].state = "active"
      BY <1>3, <2>0 DEF Beats
    <3>2. lease' = [LeasesNow EXCEPT ![t].left = LeaseTime] /\ beat'[t] = "waiting"
      BY <1>6, <2>1, <3>1 DEF Renew, Types, TypeOK
    <3>3. lease'[t].state = "active" /\ lease'[t].left = LeaseTime
      BY <1>1, <3>1, <3>2, NowType DEF Types, Lease
    <3> QED
      BY <1>1, <3>2, <3>3 DEF Beats
  <2>2. CASE u # t
    <3>1. lease'[t] = LeasesNow[t] /\ beat'[t] = beat[t]
      BY <1>1, <1>6, <2>2, NowType DEF Renew, Types, TypeOK
    <3> QED
      BY <1>4, <2>0, <3>1
  <2> QED
    BY <2>1, <2>2
<1>7. ASSUME NEW u \in Turns, RenewFails(u) PROVE Beats(t)'
  <2>0. pc[t] = "working" /\ lease'[t] = lease[t] /\ faults' = faults + 1
    BY <1>7 DEF RenewFails, Fault, rows
  <2>1. CASE u = t
    <3>1. beat[t] = "due" /\ beat'[t] = "waiting"
      BY <1>7, <2>1 DEF RenewFails, Types, TypeOK
    <3> QED
      BY <1>1, <1>3, <2>0, <3>1 DEF Beats
  <2>2. CASE u # t
    BY <1>4, <1>7, <2>0, <2>2 DEF RenewFails, Types, TypeOK
  <2> QED
    BY <2>1, <2>2
<1>8. ASSUME NEW h \in Holders, NEW outcome \in Outcome, Released(h, outcome),
             h # t, pc[t] = "working", beat'[t] = beat[t]
      PROVE  Beats(t)'
  BY <1>1, <1>4, <1>8 DEF Released, Settle, rows, Types, TypeOK
<1>9. ASSUME NEW u \in Turns, NEW outcome \in Outcome, Finish(u, outcome)
      PROVE  Beats(t)'
  <2>1. u # t /\ pc[t] = "working" /\ beat'[t] = beat[t] /\ u \in Holders
    BY <1>1, <1>9 DEF Finish, Goto, Types, TypeOK, Holders
  <2> QED
    BY <1>8, <1>9, <2>1 DEF Finish
<1>10. ASSUME NEW p \in Probes, NEW outcome \in Outcome, Probed(p, outcome)
       PROVE  Beats(t)'
  <2>1. p # t /\ pc[t] = "working" /\ beat'[t] = beat[t] /\ p \in Holders
    BY <1>1, <1>10, PoolAssumption DEF Probed, Goto, Types, TypeOK, Holders
  <2> QED
    BY <1>8, <1>10, <2>1 DEF Probed
<1>11. ASSUME NEW h \in Holders, Die(h) PROVE Beats(t)'
  <2>1. h # t /\ pc[t] = "working" /\ lease'[t] = lease[t]
    BY <1>1, <1>11 DEF Die, Goto, rows, Types, TypeOK
  <2>2. beat'[t] = beat[t]
    BY <1>11, <2>1 DEF Die, Types, TypeOK
  <2> QED
    BY <1>4, <2>1, <2>2
<1>12. ASSUME NEW p \in Probes, NEW a \in Accounts, NEW l \in Lanes, Claim(p, a, l)
       PROVE  Beats(t)'
  <2>1. p # t /\ pc[t] = "working" /\ beat'[t] = beat[t]
        /\ lease'[t] = LeasesNow[t]
    BY <1>1, <1>12, NowType, PoolAssumption DEF Claim, Goto, Types, TypeOK, Holders
  <2> QED
    BY <1>4, <2>1
<1>13. ASSUME NEW p \in Probes, Commit(p) PROVE Beats(t)'
  <2>1. p # t /\ pc[t] = "working" /\ beat'[t] = beat[t] /\ lease'[t] = lease[t]
    BY <1>1, <1>13, PoolAssumption DEF Commit, Goto, Types, TypeOK, Holders
  <2> QED
    BY <1>4, <2>1
<1>14. ASSUME NEW a \in Managed, Administer(a) PROVE Beats(t)'
  <2>1. /\ lease' = lease \/ lease' = LeasesNow
        /\ pc' = pc /\ beat' = beat
    BY <1>14
    DEF Administer, MarkProbe, CompleteReauth, BeginReauth, UpdateAccount
  <2> QED
    BY <1>4, <2>1
<1>15. CASE Tick
  <2>1. /\ pc[t] = "working" /\ beat[t] # "due" /\ faults' = faults
        /\ beat'[t] = IF beat[t] = "waiting" THEN "due" ELSE beat[t]
        /\ lease'[t] = [lease[t] EXCEPT !.left = Less(lease[t].left)]
    BY <1>1, <1>15 DEF Tick
  <2>2. beat[t] = "waiting" /\ lease[t].left >= LeaseTime - faults
    BY <1>1, <1>3, <2>1 DEF Beats, Types, TypeOK
  <2>3. lease'[t].state = "active" /\ lease'[t].left = lease[t].left - 1
    BY <1>3, <2>1 DEF Beats, Less, Lease
  <2> QED
    BY <1>1, <1>3, <2>1, <2>2, <2>3 DEF Beats
<1>16. ASSUME NEW u \in Turns, Refuse(u) PROVE Beats(t)'
  BY <1>1, <1>4, <1>16 DEF Refuse, Goto, rows, Types, TypeOK, Holders
<1>17. CASE Poll \/ UNCHANGED vars
  BY <1>4, <1>17 DEF Poll, vars, rows
<1> QED
  BY <1>5, <1>6, <1>7, <1>9, <1>10, <1>11, <1>12, <1>13, <1>14, <1>15, <1>16, <1>17
  DEF Next, Turn, Monitor

\* A chat never has two turns at work, for any number of chats, turns and
\* accounts, unless more renewals fail than a lease lasts.
THEOREM ChatsTakeTurns == Spec => []OneTurnPerChat
<1>1. Init => Exclusive /\ Renewed
  BY DEF Init, Exclusive, Renewed, Alive, NoLease, Holders
<1>2. Types /\ Exclusive /\ Renewed => OneTurnPerChat
  BY BeatsLeft DEF Exclusive, Renewed, Alive, Beats, OneTurnPerChat
<1> QED
  BY <1>1, <1>2, TypesInit, TypesStep, ExclusiveStep, RenewedStep, PTL DEF Spec

-----------------------------------------------------------------------------
(* Capacity. *)

\* Leases fit; a claim that has not committed has room for one more and is the
\* only one, because it holds the pool's lock.
Fits == \A a \in Accounts : Cardinality(Active(a)) <= MaxConcurrency[a]

ClaimsFit ==
    /\ \A p \in Probes : pc[p] = "claiming" => lease[p].state = "none"
    /\ \A p \in Probes, a \in Accounts :
        pc[p] = "claiming" /\ lease[p].account = a =>
            Cardinality(Active(a)) < MaxConcurrency[a]
    /\ \A p, q \in Probes : pc[p] = "claiming" /\ pc[q] = "claiming" => p = q

Room == Fits /\ ClaimsFit

LEMMA FiniteActive ==
    ASSUME NEW a
    PROVE  /\ IsFiniteSet(Active(a)) /\ IsFiniteSet(Active(a)')
           /\ Cardinality(Active(a)) \in Nat /\ Cardinality(Active(a)') \in Nat
<1>1. IsFiniteSet(Holders)
  BY PoolAssumption, FS_Union DEF Holders
<1>2. Active(a) \subseteq Holders /\ Active(a)' \subseteq Holders
  BY DEF Active
<1> QED
  BY <1>1, <1>2, FS_Subset, FS_CardinalityType

LEMMA ActiveShrinks ==
    ASSUME OnlyShrinks, NEW a
    PROVE  /\ Active(a)' \subseteq Active(a)
           /\ Cardinality(Active(a)') <= Cardinality(Active(a))
<1>1. Active(a)' \subseteq Active(a)
  BY DEF OnlyShrinks, Active
<1> QED
  BY <1>1, FiniteActive, FS_Subset

\* A new lease of account a is one more of its leases; of other accounts there
\* are not more.
LEMMA ActiveGrows ==
    ASSUME NEW a \in Accounts, NEW h \in Holders,
           Cardinality(Active(a)) < MaxConcurrency[a],
           lease'[h].account = a, Fits,
           \A i \in Holders \ {h} :
               lease'[i].state = "active" =>
                   /\ lease[i].state = "active"
                   /\ lease'[i].account = lease[i].account
                   /\ lease'[i].left > 0 => lease[i].left > 0
    PROVE  Fits'
<1>1. Active(a)' \subseteq Active(a) \cup {h}
  BY DEF Active
<1>2. \A b \in Accounts : b # a => Active(b)' \subseteq Active(b)
  BY DEF Active
<1>3. ASSUME NEW b \in Accounts PROVE Cardinality(Active(b)') <= MaxConcurrency[b]
  <2>1. MaxConcurrency[b] \in Nat
    BY PoolAssumption
  <2>2. CASE b = a
    <3>1. IsFiniteSet(Active(a) \cup {h})
          /\ Cardinality(Active(a) \cup {h}) \in Nat
          /\ Cardinality(Active(a) \cup {h}) <= Cardinality(Active(a)) + 1
      <4> DEFINE S == Active(a)
      <4>1. IsFiniteSet(S) /\ Cardinality(S) \in Nat
        BY FiniteActive
      <4> HIDE DEF S
      <4>2. IsFiniteSet(S \cup {h})
            /\ Cardinality(S \cup {h}) =
                IF h \in S THEN Cardinality(S) ELSE Cardinality(S) + 1
        BY <4>1, FS_AddElement
      <4>3. Cardinality(S \cup {h}) \in Nat
            /\ Cardinality(S \cup {h}) <= Cardinality(S) + 1
        BY <4>1, <4>2
      <4> QED
        BY <4>2, <4>3 DEF S
    <3>2. Cardinality(Active(a)') <= Cardinality(Active(a) \cup {h})
      BY <1>1, <3>1, FS_Subset
    <3> QED
      BY <2>1, <2>2, <3>1, <3>2, FiniteActive
  <2>3. CASE b # a
    <3>1. Cardinality(Active(b)') <= Cardinality(Active(b))
      BY <1>2, <2>3, FiniteActive, FS_Subset
    <3> QED
      BY <2>1, <3>1, FiniteActive DEF Fits
  <2> QED
    BY <2>2, <2>3
<1> QED
  BY <1>3 DEF Fits

\* A step that begins no claim leaves the claim that is under way alone.
ClaimsKept ==
    \A p \in Probes :
        pc'[p] = "claiming" =>
            /\ pc[p] = "claiming"
            /\ lease[p].state = "none" => lease'[p] = lease[p]

LEMMA ClaimSteps ==
    ASSUME Types, [Next]_vars
    PROVE  \/ ClaimsKept
           \/ \E p \in Probes, a \in Accounts, l \in Lanes : Claim(p, a, l)
<1>0. Turns \subseteq Holders /\ Probes \subseteq Holders /\ Turns \cap Probes = {}
  BY PoolAssumption DEF Holders
<1>1. \A h \in Holders : lease[h].state = "none" => LeasesNow[h] = lease[h]
  BY DEF LeasesNow, Ended
<1>2. ASSUME \A p \in Probes : pc'[p] = "claiming" => pc[p] = "claiming",
             lease' = lease \/ lease' = LeasesNow
      PROVE  ClaimsKept
  BY <1>0, <1>1, <1>2 DEF ClaimsKept
<1>3. ASSUME NEW h \in Holders, NEW outcome \in Outcome, Released(h, outcome),
             \A p \in Probes : pc'[p] = "claiming" => p # h /\ pc[p] = "claiming"
      PROVE  ClaimsKept
  BY <1>0, <1>3 DEF ClaimsKept, Released, Settle, rows, Types, TypeOK
<1>4. ASSUME NEW t \in Turns, Turn(t) PROVE ClaimsKept
  <2>1. ASSUME NEW a \in Accounts, Acquire(t, a) PROVE ClaimsKept
    BY <1>0, <1>1, <2>1, NowType
    DEF Acquire, PoolLocked, Goto, ClaimsKept, Types, TypeOK
  <2>2. CASE Refuse(t)
    BY <1>0, <1>2, <2>2 DEF Refuse, Goto, rows, Types, TypeOK
  <2>3. CASE Renew(t)
    BY <1>0, <1>1, <2>3, NowType DEF Renew, ClaimsKept, Types, TypeOK
  <2>4. CASE RenewFails(t)
    BY <1>2, <2>4 DEF RenewFails, rows
  <2>5. ASSUME NEW outcome \in Outcome, Finish(t, outcome) PROVE ClaimsKept
    <3>1. \A p \in Probes : pc'[p] = "claiming" => p # t /\ pc[p] = "claiming"
      BY <1>0, <2>5 DEF Finish, Goto, Types, TypeOK
    <3> QED
      BY <1>0, <1>3, <2>5, <3>1 DEF Finish
  <2> QED
    BY <1>4, <2>1, <2>2, <2>3, <2>4, <2>5 DEF Turn
<1>5. ASSUME NEW p \in Probes, NEW outcome \in Outcome, Probed(p, outcome)
      PROVE  ClaimsKept
  <2>1. \A q \in Probes : pc'[q] = "claiming" => q # p /\ pc[q] = "claiming"
    BY <1>0, <1>5 DEF Probed, Goto, Types, TypeOK
  <2> QED
    BY <1>0, <1>3, <1>5, <2>1 DEF Probed
<1>6. ASSUME NEW p \in Probes, Commit(p) PROVE ClaimsKept
  BY <1>0, <1>6 DEF Commit, Goto, ClaimsKept, Types, TypeOK
<1>7. ASSUME NEW h \in Holders, Die(h) PROVE ClaimsKept
  BY <1>0, <1>2, <1>7 DEF Die, Goto, rows, Types, TypeOK
<1>8. ASSUME NEW a \in Managed, Administer(a) PROVE ClaimsKept
  <2>1. pc' = pc /\ (lease' = lease \/ lease' = LeasesNow)
    BY <1>8
    DEF Administer, MarkProbe, CompleteReauth, BeginReauth, UpdateAccount
  <2> QED
    BY <1>2, <2>1
<1>9. ASSUME Tick PROVE ClaimsKept
  BY <1>9 DEF Tick, PoolLocked, ClaimsKept
<1>10. ASSUME Poll \/ UNCHANGED vars PROVE ClaimsKept
  BY <1>2, <1>10 DEF Poll, vars, rows
<1>11. ASSUME NEW p \in Probes, Monitor(p)
       PROVE  \/ ClaimsKept
              \/ \E a \in Accounts, l \in Lanes : Claim(p, a, l)
  BY <1>5, <1>6, <1>11 DEF Monitor
<1> QED
  BY <1>4, <1>7, <1>8, <1>9, <1>10, <1>11 DEF Next

LEMMA RoomInit == Init => Room
<1> SUFFICES ASSUME Init PROVE Room
  OBVIOUS
<1>1. \A a : Active(a) = {}
  BY DEF Init, Active, NoLease
<1>2. Cardinality({}) = 0
  BY FS_EmptySet
<1>3. \A a \in Accounts : Cardinality(Active(a)) <= MaxConcurrency[a]
  BY <1>1, <1>2, PoolAssumption
<1>4. \A h \in Holders : pc[h] = "idle"
  BY DEF Init
<1> QED
  BY <1>3, <1>4 DEF Room, Fits, ClaimsFit, Holders

LEMMA RoomStep == Types /\ Room /\ [Next]_vars => Room'
<1> SUFFICES ASSUME Types, Room, [Next]_vars PROVE Room'
  OBVIOUS
<1>0. Turns \subseteq Holders /\ Probes \subseteq Holders /\ Turns \cap Probes = {}
  BY PoolAssumption DEF Holders
<1>1. ASSUME OnlyShrinks PROVE Fits'
  <2>1. ASSUME NEW a \in Accounts
        PROVE  Cardinality(Active(a)') <= MaxConcurrency[a]
    BY <1>1, ActiveShrinks, FiniteActive, PoolAssumption DEF Room, Fits
  <2> QED
    BY <2>1 DEF Fits
<1>2. ASSUME OnlyShrinks, ClaimsKept PROVE Room'
  <2>1. ASSUME NEW p \in Probes, pc'[p] = "claiming"
        PROVE  /\ pc[p] = "claiming" /\ lease[p].state = "none"
               /\ lease'[p] = lease[p]
    BY <1>2, <2>1 DEF Room, ClaimsFit, ClaimsKept
  <2>2. ASSUME NEW p \in Probes, NEW a \in Accounts,
               pc'[p] = "claiming", lease'[p].account = a
        PROVE  Cardinality(Active(a)') < MaxConcurrency[a]
    <3>1. Cardinality(Active(a)) < MaxConcurrency[a]
      BY <2>1, <2>2 DEF Room, ClaimsFit
    <3>2. Cardinality(Active(a)') <= Cardinality(Active(a))
      BY <1>2, ActiveShrinks
    <3> QED
      BY <3>1, <3>2, FiniteActive, PoolAssumption
  <2>3. \A p \in Probes : pc'[p] = "claiming" => lease'[p].state = "none"
    BY <2>1
  <2>4. \A p, q \in Probes : pc'[p] = "claiming" /\ pc'[q] = "claiming" => p = q
    BY <1>2 DEF Room, ClaimsFit, ClaimsKept
  <2>5. ClaimsFit'
    BY <2>2, <2>3, <2>4 DEF ClaimsFit
  <2> QED
    BY <1>1, <1>2, <2>5 DEF Room
<1>3. ASSUME NEW t \in Turns, NEW a \in Accounts, Acquire(t, a) PROVE Room'
  <2>1. Cardinality(Active(a)) < MaxConcurrency[a]
    BY <1>3 DEF Acquire, Choice, HasRoom
  <2>2. lease'[t].account = a
        /\ \A h \in Holders \ {t} : lease'[h] = LeasesNow[h]
    BY <1>0, <1>3, NowType DEF Acquire, Types
  <2>3. \A h \in Holders \ {t} :
            lease'[h].state = "active" =>
                /\ lease[h].state = "active"
                /\ lease'[h].account = lease[h].account
                /\ lease'[h].left > 0 => lease[h].left > 0
    BY <2>2, NowShrinks DEF Types
  <2>4. Fits'
    BY <1>0, <2>1, <2>2, <2>3, ActiveGrows DEF Room
  <2>5. \A p \in Probes : pc'[p] # "claiming"
    BY <1>0, <1>3 DEF Acquire, PoolLocked, Goto, Types, TypeOK
  <2> QED
    BY <2>4, <2>5 DEF Room, ClaimsFit
<1>4. ASSUME NEW p \in Probes, Commit(p) PROVE Room'
  <2>1. /\ lease[p].account \in Accounts /\ lease[p] \in Lease
        /\ pc[p] = "claiming"
    BY <1>0, <1>4 DEF Commit, Types, TypeOK, Placed
  <2>2. PICK a \in Accounts : a = lease[p].account
    BY <2>1
  <2>3. Cardinality(Active(a)) < MaxConcurrency[a]
    BY <2>1, <2>2 DEF Room, ClaimsFit
  <2>4. lease'[p].account = a /\ \A h \in Holders \ {p} : lease'[h] = lease[h]
    BY <1>0, <1>4, <2>1, <2>2 DEF Commit, Types, TypeOK, Lease
  <2>5. Fits'
    BY <1>0, <2>3, <2>4, ActiveGrows DEF Room
  <2>6. \A q \in Probes : pc'[q] # "claiming"
    BY <1>0, <1>4, <2>1 DEF Commit, Goto, Room, ClaimsFit, Types, TypeOK
  <2> QED
    BY <2>5, <2>6 DEF Room, ClaimsFit
<1>5. ASSUME NEW p \in Probes, NEW a \in Accounts, NEW l \in Lanes, Claim(p, a, l)
      PROVE  Room'
  <2>1. OnlyShrinks
    <3>1. lease'[p].state = "none" /\ \A h \in Holders \ {p} : lease'[h] = LeasesNow[h]
      BY <1>0, <1>5, NowType DEF Claim, Types
    <3> QED
      BY <3>1, NowShrinks DEF OnlyShrinks, Types
  <2>2. lease'[p].state = "none" /\ lease'[p].account = a
        /\ \A q \in Probes : pc'[q] = "claiming" => q = p
    BY <1>0, <1>5, NowType DEF Claim, PoolLocked, Goto, Types, TypeOK
  <2>3. Cardinality(Active(a)') < MaxConcurrency[a]
    <3>1. Cardinality(Active(a)') <= Cardinality(Active(a))
      BY <2>1, ActiveShrinks
    <3>2. Cardinality(Active(a)) < MaxConcurrency[a]
      BY <1>5 DEF Claim, HasRoom
    <3> QED
      BY <3>1, <3>2, FiniteActive, PoolAssumption
  <2>4. ClaimsFit'
    BY <2>2, <2>3 DEF ClaimsFit
  <2> QED
    BY <1>1, <2>1, <2>4 DEF Room
<1> QED
  BY <1>2, <1>3, <1>4, <1>5, LeaseSteps, ClaimSteps

\* A probe within its time has an active lease.
ProbesHold ==
    \A p \in Probes :
        pc[p] = "working" /\ lease[p].left > 0 => lease[p].state = "active"

LEMMA ProbesHoldStep == Types /\ ProbesHold /\ [Next]_vars => ProbesHold'
<1> SUFFICES ASSUME Types, ProbesHold, [Next]_vars,
                    NEW p \in Probes, pc'[p] = "working", lease'[p].left > 0
             PROVE  lease'[p].state = "active"
  BY DEF ProbesHold
<1>0. Turns \subseteq Holders /\ Probes \subseteq Holders /\ Turns \cap Probes = {}
  BY PoolAssumption DEF Holders
<1>1. /\ lease[p] \in Lease /\ lease[p].left \in Nat
      /\ LeasesNow[p] = lease[p] \/ (lease[p].left = 0 /\ LeasesNow[p].left = 0)
  <2>1. lease[p] \in Lease /\ p \in Holders
    BY <1>0 DEF Types, TypeOK
  <2>2. lease[p].left \in Nat
    BY <2>1, PoolAssumption DEF Lease
  <2>3. LeasesNow[p] = Ended(lease[p])
    BY <2>1 DEF LeasesNow
  <2>4. Ended(lease[p]).left = lease[p].left
    BY <2>1, EndedType
  <2>5. Ended(lease[p]) = lease[p] \/ lease[p].left = 0
    BY DEF Ended
  <2> QED
    BY <2>1, <2>2, <2>3, <2>4, <2>5
<1>2. ASSUME pc[p] = "working", lease'[p] = lease[p] \/ lease'[p] = LeasesNow[p]
      PROVE  lease'[p].state = "active"
  BY <1>1, <1>2 DEF ProbesHold
<1>3. ASSUME NEW h \in Holders, NEW outcome \in Outcome, Released(h, outcome),
             h # p, pc[p] = "working"
      PROVE  lease'[p].state = "active"
  BY <1>0, <1>2, <1>3 DEF Released, Settle, rows, Types, TypeOK
<1>4. ASSUME NEW t \in Turns, Turn(t) PROVE lease'[p].state = "active"
  <2>1. t # p /\ t \in Holders
    BY <1>0
  <2>2. ASSUME NEW a \in Accounts, Acquire(t, a) PROVE lease'[p].state = "active"
    BY <1>0, <1>2, <2>1, <2>2, NowType DEF Acquire, Goto, Types, TypeOK
  <2>3. CASE Refuse(t)
    BY <1>0, <1>2, <2>1, <2>3 DEF Refuse, Goto, rows, Types, TypeOK
  <2>4. CASE Renew(t)
    BY <1>0, <1>2, <2>1, <2>4, NowType DEF Renew, Types
  <2>5. CASE RenewFails(t)
    BY <1>2, <2>5 DEF RenewFails, rows
  <2>6. ASSUME NEW outcome \in Outcome, Finish(t, outcome)
        PROVE  lease'[p].state = "active"
    <3>1. pc[p] = "working"
      BY <1>0, <2>1, <2>6 DEF Finish, Goto, Types, TypeOK
    <3> QED
      BY <1>3, <2>1, <2>6, <3>1 DEF Finish
  <2> QED
    BY <1>4, <2>2, <2>3, <2>4, <2>5, <2>6 DEF Turn
<1>5. ASSUME NEW q \in Probes, NEW outcome \in Outcome, Probed(q, outcome)
      PROVE  lease'[p].state = "active"
  <2>1. q # p /\ pc[p] = "working" /\ q \in Holders
    BY <1>0, <1>5 DEF Probed, Goto, Types, TypeOK
  <2> QED
    BY <1>3, <1>5, <2>1 DEF Probed
<1>6. ASSUME NEW q \in Probes, Commit(q) PROVE lease'[p].state = "active"
  <2>1. CASE q = p
    BY <1>0, <1>6, <2>1 DEF Commit, Types, TypeOK, Lease
  <2>2. CASE q # p
    BY <1>0, <1>2, <1>6, <2>2 DEF Commit, Goto, Types, TypeOK
  <2> QED
    BY <2>1, <2>2
<1>7. ASSUME NEW q \in Probes, NEW a \in Accounts, NEW l \in Lanes, Claim(q, a, l)
      PROVE  lease'[p].state = "active"
  <2>1. q # p /\ pc[p] = "working" /\ lease'[p] = LeasesNow[p]
    BY <1>0, <1>7, NowType DEF Claim, Goto, Types, TypeOK
  <2> QED
    BY <1>2, <2>1
<1>8. ASSUME NEW h \in Holders, Die(h) PROVE lease'[p].state = "active"
  BY <1>0, <1>2, <1>8 DEF Die, Goto, rows, Types, TypeOK
<1>9. ASSUME NEW a \in Managed, Administer(a) PROVE lease'[p].state = "active"
  <2>1. pc' = pc /\ (lease' = lease \/ lease' = LeasesNow)
    BY <1>9
    DEF Administer, MarkProbe, CompleteReauth, BeginReauth, UpdateAccount
  <2> QED
    BY <1>2, <2>1
<1>10. ASSUME Tick PROVE lease'[p].state = "active"
  <2>1. lease'[p] = [lease[p] EXCEPT !.left = Less(lease[p].left)] /\ pc[p] = "working"
    BY <1>0, <1>10 DEF Tick
  <2>2. lease'[p].left = Less(lease[p].left) /\ lease'[p].state = lease[p].state
    BY <1>1, <2>1 DEF Lease
  <2> QED
    BY <1>1, <2>1, <2>2 DEF Less, ProbesHold
<1>11. ASSUME Poll \/ UNCHANGED vars PROVE lease'[p].state = "active"
  BY <1>2, <1>11 DEF Poll, vars, rows
<1> QED
  BY <1>4, <1>5, <1>6, <1>7, <1>8, <1>9, <1>10, <1>11 DEF Next, Monitor

\* No account works for more turns and probes at a time than its
\* max_concurrency, for any numbers of them, unless more renewals fail than a
\* lease lasts.
THEOREM CapacityRespected == Spec => []WithinCapacity
<1>1. Init => Room /\ Renewed /\ ProbesHold
  <2>1. Init => \A h \in Holders : pc[h] = "idle"
    BY DEF Init
  <2> QED
    BY <2>1, RoomInit DEF Renewed, ProbesHold, Holders
<1>2. Types /\ Room /\ Renewed /\ ProbesHold => WithinCapacity
  <2> SUFFICES ASSUME Types, Room, Renewed, ProbesHold, Steady, NEW a \in Accounts
               PROVE  Cardinality(Working(a)) <= MaxConcurrency[a]
    BY DEF WithinCapacity
  <2>1. Working(a) \subseteq Active(a)
    <3>1. ASSUME NEW t \in Turns, t \in Working(a) PROVE t \in Active(a)
      BY <3>1, BeatsLeft DEF Working, Active, Renewed, Beats, Holders
    <3>2. ASSUME NEW p \in Probes, p \in Working(a) PROVE p \in Active(a)
      BY <3>2 DEF Working, Active, ProbesHold, Holders
    <3> QED
      BY <3>1, <3>2 DEF Working, Holders
  <2>2. Cardinality(Working(a)) <= Cardinality(Active(a))
        /\ Cardinality(Working(a)) \in Nat
    BY <2>1, FiniteActive, FS_Subset, FS_CardinalityType
  <2> QED
    BY <2>2, FiniteActive, PoolAssumption DEF Room, Fits
<1> QED
  BY <1>1, <1>2, TypesInit, TypesStep, RoomStep, RenewedStep, ProbesHoldStep, PTL
  DEF Spec

-----------------------------------------------------------------------------
(* An account waits for its new login. *)

\* The accounts whose login was begun while no claim had read them.
Begun == {a \in Accounts : login[a] = "begun"}

\* Stronger than LoginUndisturbed: the session stays expired, so that no edit
\* makes the account ready, it has no lease that a release would settle, and
\* no claim is about to give it one.
AccountsWait == \A a \in Begun :
    account[a].status = "reauth_required" /\ account[a].session = "expired"
LeasesWait == \A a \in Begun : \A h \in Holders :
    lease[h].state = "active" => lease[h].account # a
ClaimsWait == \A a \in Begun : \A p \in Probes :
    pc[p] = "claiming" => lease[p].account # a

LoginWaits == AccountsWait /\ LeasesWait /\ ClaimsWait

LEMMA WaitingNow ==
    ASSUME Types, AccountsWait, NEW a \in Begun
    PROVE  AccountsNow[a] = account[a] /\ ~Usable(AccountsNow[a])
<1>1. a \in Accounts /\ account[a].status = "reauth_required"
  BY DEF Begun, AccountsWait
<1>2. AccountsNow[a] = account[a]
  BY <1>1 DEF AccountsNow, Cooled
<1> QED BY <1>1, <1>2 DEF Usable

\* A login is begun by begin_reauth() alone, when no lease of the account counts.
LEMMA LoginsBegin ==
    ASSUME Types, [Next]_vars
    PROVE  \/ Begun' \subseteq Begun
           \/ \E a \in Managed : BeginReauth(a)
<1>0. login \in [Accounts -> Login] /\ Managed \subseteq Accounts
  BY PoolAssumption DEF Types, TypeOK
<1>1. ASSUME login' = login PROVE Begun' \subseteq Begun
  BY <1>1 DEF Begun
<1>2. ASSUME NEW a \in Managed, Administer(a), ~BeginReauth(a) PROVE Begun' \subseteq Begun
  <2>1. ASSUME NEW seen \in Seen, MarkProbe(a, seen) \/ CompleteReauth(a, seen)
        PROVE  Begun' \subseteq Begun
    BY <1>0, <2>1 DEF MarkProbe, CompleteReauth, Begun
  <2>2. ASSUME NEW enabled \in BOOLEAN, NEW moved \in BOOLEAN,
               UpdateAccount(a, enabled, moved)
        PROVE  Begun' \subseteq Begun
    BY <1>0, <2>2 DEF UpdateAccount, Begun
  <2> QED BY <1>2, <2>1, <2>2 DEF Administer
<1>3. ASSUME NEW t \in Turns, Turn(t) PROVE login' = login
  BY <1>3 DEF Turn, Acquire, Refuse, Renew, RenewFails, Finish
<1>4. ASSUME NEW p \in Probes, Monitor(p) PROVE login' = login
  BY <1>4 DEF Monitor, Claim, Commit, Probed
<1>5. ASSUME NEW h \in Holders, Die(h) PROVE login' = login
  BY <1>5 DEF Die
<1>6. ASSUME Poll \/ Tick \/ UNCHANGED vars PROVE login' = login
  BY <1>6 DEF Poll, Tick, vars
<1> QED
  BY <1>1, <1>2, <1>3, <1>4, <1>5, <1>6 DEF Next

LEMMA ClaimsWaitStep ==
    ASSUME Types, Room, AccountsWait, ClaimsWait, [Next]_vars
    PROVE  ClaimsWait'
<1>0. Probes \subseteq Holders
  BY DEF Holders
<1>1. ASSUME ClaimsKept PROVE ClaimsWait'
  <2> SUFFICES ASSUME NEW a \in Begun', NEW p \in Probes, pc'[p] = "claiming"
               PROVE  lease'[p].account # a
    BY DEF ClaimsWait
  <2>1. pc[p] = "claiming" /\ lease'[p] = lease[p]
    BY <1>1 DEF ClaimsKept, Room, ClaimsFit
  <2>2. CASE a \in Begun
    BY <2>1, <2>2 DEF ClaimsWait
  <2>3. CASE a \notin Begun
    <3>1. PICK b \in Managed : BeginReauth(b)
      BY <2>3, LoginsBegin
    <3>2. login \in [Accounts -> Login] /\ b \in Accounts /\ a \in Accounts
      BY PoolAssumption DEF Types, TypeOK, Begun
    <3>3. a = b
      BY <2>3, <3>1, <3>2 DEF BeginReauth, Begun
    <3>4. lease[p].account # b
      BY <2>1, <3>1, <3>2, <3>3 DEF BeginReauth, Begun
    <3> QED BY <2>1, <3>3, <3>4
  <2> QED BY <2>2, <2>3
<1>2. ASSUME NEW q \in Probes, NEW b \in Accounts, NEW l \in Lanes, Claim(q, b, l)
      PROVE  ClaimsWait'
  <2>1. Begun' = Begun /\ b \notin Begun
    BY <1>2, WaitingNow DEF Claim, Due, Begun
  <2>2. \A p \in Probes : pc'[p] = "claiming" => p = q
    BY <1>0, <1>2 DEF Claim, PoolLocked, Goto, Types, TypeOK
  <2>3. lease'[q].account = b
    BY <1>0, <1>2, NowType DEF Claim, Types
  <2> QED BY <2>1, <2>2, <2>3 DEF ClaimsWait
<1> QED BY <1>1, <1>2, ClaimSteps

LEMMA LeasesWaitStep ==
    ASSUME Types, AccountsWait, LeasesWait, ClaimsWait, [Next]_vars
    PROVE  LeasesWait'
<1>0. Turns \subseteq Holders /\ Probes \subseteq Holders
  BY DEF Holders
<1>1. ASSUME OnlyShrinks PROVE LeasesWait'
  <2>1. CASE Begun' \subseteq Begun
    BY <1>1, <2>1 DEF LeasesWait, OnlyShrinks
  <2>2. ASSUME NEW b \in Managed, BeginReauth(b) PROVE LeasesWait'
    <3>1. login \in [Accounts -> Login] /\ b \in Accounts
      BY PoolAssumption DEF Types, TypeOK
    <3>2. \A a \in Begun' : a # b => a \in Begun
      BY <2>2, <3>1 DEF BeginReauth, Begun
    <3>3. \A h \in Holders : LeasesNow[h].state = "active" => lease[h].account # b
      BY <2>2, NowShrinks DEF BeginReauth, Active, Types
    <3>4. lease' = LeasesNow
      BY <2>2 DEF BeginReauth
    <3> QED BY <1>1, <3>2, <3>3, <3>4 DEF LeasesWait, OnlyShrinks
  <2> QED BY <2>1, <2>2, LoginsBegin
<1>2. ASSUME NEW t \in Turns, NEW b \in Accounts, Acquire(t, b) PROVE LeasesWait'
  <2>1. Begun' = Begun /\ b \notin Begun
    BY <1>2, WaitingNow DEF Acquire, Choice, Begun
  <2>2. lease'[t].account = b /\ \A h \in Holders \ {t} : lease'[h] = LeasesNow[h]
    BY <1>0, <1>2, NowType DEF Acquire, Types
  <2>3. \A h \in Holders \ {t} : LeasesNow[h].state = "active" =>
            lease[h].state = "active" /\ LeasesNow[h].account = lease[h].account
    BY NowShrinks DEF Types
  <2> QED BY <2>1, <2>2, <2>3 DEF LeasesWait
<1>3. ASSUME NEW p \in Probes, Commit(p) PROVE LeasesWait'
  <2>1. Begun' = Begun
    BY <1>3 DEF Commit, Begun
  <2>2. /\ \A h \in Holders \ {p} : lease'[h] = lease[h]
        /\ lease'[p].account = lease[p].account
    BY <1>0, <1>3 DEF Commit, Types, TypeOK, Lease
  <2>3. \A a \in Begun : lease[p].account # a
    BY <1>3 DEF Commit, ClaimsWait
  <2> QED BY <2>1, <2>2, <2>3 DEF LeasesWait
<1> QED BY <1>1, <1>2, <1>3, LeaseSteps

LEMMA AccountsWaitStep ==
    ASSUME Types, AccountsWait, LeasesWait, [Next]_vars
    PROVE  AccountsWait'
<1>0. Turns \subseteq Holders /\ Probes \subseteq Holders /\ Managed \subseteq Accounts
  BY PoolAssumption DEF Holders
<1>1. ASSUME Begun' \subseteq Begun, account' = account \/ account' = AccountsNow
      PROVE  AccountsWait'
  BY <1>1, WaitingNow DEF AccountsWait
<1>2. ASSUME NEW a \in Accounts, NEW acc, account' = [account EXCEPT ![a] = acc],
             Begun' \subseteq Begun,
             a \in Begun' => acc.status = "reauth_required" /\ acc.session = "expired"
      PROVE  AccountsWait'
  BY <1>2 DEF AccountsWait, Begun, Types, TypeOK
<1>3. ASSUME NEW h \in Holders, NEW outcome \in Outcome, Released(h, outcome), login' = login
      PROVE  AccountsWait'
  <2>1. Begun' = Begun
    BY <1>3 DEF Begun
  <2>2. CASE lease[h].state = "active"
    <3>1. lease[h].account \in Accounts /\ lease[h].account \notin Begun
      BY <2>2 DEF LeasesWait, Types, Placed
    <3>2. \A a \in Begun : account'[a] = account[a]
      BY <1>3, <2>2, <3>1 DEF Released, Settle, Types, TypeOK, Begun
    <3> QED BY <2>1, <3>2 DEF AccountsWait
  <2>3. CASE lease[h].state # "active"
    BY <1>1, <1>3, <2>1, <2>3 DEF Released, rows
  <2> QED BY <2>2, <2>3
<1>4. ASSUME NEW t \in Turns, Turn(t) PROVE AccountsWait'
  <2>1. login' = login
    BY <1>4 DEF Turn, Acquire, Refuse, Renew, RenewFails, Finish
  <2>2. Begun' = Begun
    BY <2>1 DEF Begun
  <2>3. ASSUME NEW outcome \in Outcome, Finish(t, outcome) PROVE AccountsWait'
    BY <1>0, <1>3, <2>1, <2>3 DEF Finish
  <2>4. ASSUME ~\E outcome \in Outcome : Finish(t, outcome)
        PROVE  account' = account \/ account' = AccountsNow
    BY <1>4, <2>4 DEF Turn, Acquire, Refuse, Renew, RenewFails, rows
  <2> QED BY <1>1, <2>2, <2>3, <2>4
<1>5. ASSUME NEW p \in Probes, Monitor(p) PROVE AccountsWait'
  <2>1. login' = login
    BY <1>5 DEF Monitor, Claim, Commit, Probed
  <2>2. Begun' = Begun
    BY <2>1 DEF Begun
  <2>3. ASSUME NEW outcome \in Outcome, Probed(p, outcome) PROVE AccountsWait'
    BY <1>0, <1>3, <2>1, <2>3 DEF Probed
  <2>4. ASSUME ~\E outcome \in Outcome : Probed(p, outcome)
        PROVE  account' = account \/ account' = AccountsNow
    BY <1>5, <2>4 DEF Monitor, Claim, Commit
  <2> QED BY <1>1, <2>2, <2>3, <2>4
<1>6. ASSUME NEW a \in Managed, Administer(a) PROVE AccountsWait'
  <2>0. a \in Accounts /\ account[a] \in Account /\ login \in [Accounts -> Login]
    BY <1>0 DEF Types, TypeOK
  <2>1. ASSUME NEW seen \in Seen, NEW allowed \in BOOLEAN, a \in Begun,
               seen # "ready" \/ ~allowed
        PROVE  /\ Checked(account[a], seen, allowed).status = "reauth_required"
               /\ Checked(account[a], seen, allowed).session = "expired"
    BY <2>0, <2>1 DEF AccountsWait, Checked, Seen, Account
  <2>2. ASSUME NEW seen \in Seen, MarkProbe(a, seen) PROVE AccountsWait'
    <3>1. Begun' = Begun
      BY <2>2 DEF MarkProbe, Begun
    <3> QED BY <1>2, <2>0, <2>1, <2>2, <3>1 DEF MarkProbe
  <2>3. ASSUME NEW seen \in Seen, CompleteReauth(a, seen) PROVE AccountsWait'
    <3>1. Begun' \subseteq Begun /\ (a \in Begun' => seen # "ready")
      BY <2>0, <2>3 DEF CompleteReauth, Begun
    <3> QED BY <1>2, <2>0, <2>1, <2>3, <3>1 DEF CompleteReauth
  <2>4. ASSUME NEW enabled \in BOOLEAN, NEW moved \in BOOLEAN,
               UpdateAccount(a, enabled, moved)
        PROVE  AccountsWait'
    <3>1. Begun' \subseteq Begun /\ (a \in Begun' => enabled /\ ~moved)
      BY <2>0, <2>4 DEF UpdateAccount, Begun
    <3>2. ASSUME a \in Begun'
          PROVE  /\ Updated(account[a], enabled, moved).status = "reauth_required"
                 /\ Updated(account[a], enabled, moved).session = "expired"
      BY <2>0, <3>1, <3>2 DEF Updated, AccountsWait, Account
    <3> QED BY <1>2, <2>0, <2>4, <3>1, <3>2 DEF UpdateAccount
  <2>5. CASE BeginReauth(a)
    <3>1. AccountsNow \in [Accounts -> Account]
      BY NowType DEF Types
    <3>2. account'[a].status = "reauth_required" /\ account'[a].session = "expired"
      BY <2>0, <2>5, <3>1 DEF BeginReauth, Account
    <3>3. \A b \in Accounts : b # a => account'[b] = AccountsNow[b]
      BY <2>5, <3>1 DEF BeginReauth
    <3>4. \A b \in Begun' : b \in Accounts /\ (b # a => b \in Begun)
      BY <2>0, <2>5 DEF BeginReauth, Begun
    <3> QED BY <3>2, <3>3, <3>4, WaitingNow DEF AccountsWait
  <2> QED
    BY <1>6, <2>2, <2>3, <2>4, <2>5 DEF Administer
<1>7. ASSUME Tick PROVE AccountsWait'
  <2>1. ASSUME NEW a \in Accounts
        PROVE  account'[a].status = account[a].status
               /\ account'[a].session = account[a].session
    BY <1>7 DEF Tick, Types, TypeOK, Account
  <2>2. Begun' = Begun
    BY <1>7 DEF Tick, Begun
  <2> QED BY <2>1, <2>2 DEF AccountsWait, Begun
<1>8. ASSUME NEW h \in Holders, Die(h) PROVE AccountsWait'
  BY <1>1, <1>8 DEF Die, rows, Begun
<1>9. ASSUME Poll \/ UNCHANGED vars PROVE AccountsWait'
  BY <1>1, <1>9 DEF Poll, vars, rows, Begun
<1> QED
  BY <1>4, <1>5, <1>6, <1>7, <1>8, <1>9 DEF Next

\* Nobody gets an account that waits for a new login, and no late answer makes
\* it ready, for any number of accounts, turns, probes and administrators; only
\* a recovery claim that had read it when the login was begun is excused.
THEOREM LoginIsUndisturbed == Spec => []LoginUndisturbed
<1>1. Init => LoginWaits /\ Room
  <2>1. Init => LoginWaits
    BY DEF Init, LoginWaits, AccountsWait, LeasesWait, ClaimsWait, Begun
  <2> QED BY <2>1, RoomInit
<1>2. Types /\ LoginWaits => LoginUndisturbed
  BY DEF LoginWaits, AccountsWait, LeasesWait, Begun, LoginUndisturbed, Active
<1>3. Types /\ Room /\ LoginWaits /\ [Next]_vars => LoginWaits'
  BY AccountsWaitStep, LeasesWaitStep, ClaimsWaitStep DEF LoginWaits
<1> QED
  BY <1>1, <1>2, <1>3, TypesInit, TypesStep, RoomStep, PTL DEF Spec

-----------------------------------------------------------------------------
(* The rows implement SlotLeases. *)

LEMMA PoolCounts == \A S : Pool!Cardinality(S) = Cardinality(S)
  BY DEF Pool!Cardinality, Cardinality

LEMMA SlotsTaken ==
    ASSUME NEW a \in Accounts PROVE Pool!Taken(a) = Active(a)
BY PoolAssumption DEF Pool!Taken, Active, Held

LEMMA OthersKeep ==
    ASSUME Types, NEW h \in Holders, NEW a \in Accounts, lease'[h].account = a,
           lease'[h].state = "active", lease'[h].left > 0,
           \A i \in Holders \ {h} : lease'[i] \in {lease[i], LeasesNow[i]}
    PROVE  Held' = [Held EXCEPT ![h] = a]
<1>1. ASSUME NEW i \in Holders \ {h} PROVE Held'[i] = Held[i]
  <2>1. /\ lease[i] \in Lease /\ LeasesNow[i] = Ended(lease[i])
    BY DEF Types, TypeOK, LeasesNow
  <2>2. /\ LeasesNow[i].account = lease[i].account /\ LeasesNow[i].left = lease[i].left
        /\ LeasesNow[i].state = "active" <=> lease[i].state = "active" /\ lease[i].left > 0
    BY <2>1, EndedType
  <2> QED BY <2>2 DEF Held
<1>2. Held'[h] = a
  BY DEF Held
<1> QED BY <1>1, <1>2 DEF Held

LEMMA SlotStep ==
    ASSUME Types, Room, [Next]_vars
    PROVE  Pool!Next
<1>0. Turns \subseteq Holders /\ Probes \subseteq Holders /\ Turns \cap Probes = {}
  BY PoolAssumption DEF Holders
<1>1. ASSUME OnlyShrinks PROVE Pool!Next
  <2>1. \A h \in Holders : Held'[h] \in {Held[h], NoAccount}
    BY <1>1 DEF OnlyShrinks, Held
  <2>2. DOMAIN Held' = Holders
    BY DEF Held
  <2> QED BY <2>1, <2>2 DEF Pool!Next, Pool!GiveBack
<1>2. ASSUME NEW t \in Turns, NEW a \in Accounts, Acquire(t, a) PROVE Pool!Next
  <2>1. /\ lease'[t] = [state |-> "active", account |-> a, lane |-> LaneOf[t], left |-> LeaseTime]
        /\ \A i \in Holders \ {t} : lease'[i] = LeasesNow[i]
    BY <1>0, <1>2, NowType DEF Acquire, Types
  <2>2. LeaseTime > 0
    BY PoolAssumption
  <2>3. Held' = [Held EXCEPT ![t] = a]
    BY <1>0, <2>1, <2>2, OthersKeep
  <2>4. \A u \in Turns : ChatOf[u] = ChatOf[t] => Held[u] = NoAccount
    BY <1>0, <1>2 DEF Acquire, ChatBusy, Held
  <2>5. Held[t] = NoAccount /\ \A g \in SameChat[t] : Held[g] = NoAccount
    BY <1>0, <2>4 DEF SameChat
  <2>6. Pool!Cardinality(Pool!Taken(a)) < MaxConcurrency[a]
    BY <1>2, SlotsTaken, PoolCounts DEF Acquire, Choice, HasRoom
  <2> QED BY <1>0, <2>3, <2>5, <2>6 DEF Pool!Next, Pool!Grant
<1>3. ASSUME NEW p \in Probes, Commit(p) PROVE Pool!Next
  <2>1. /\ lease[p] \in Lease /\ lease[p].account \in Accounts /\ lease[p].state = "none"
    BY <1>0, <1>3 DEF Commit, Types, TypeOK, Placed, Room, ClaimsFit
  <2>2. PICK a \in Accounts : a = lease[p].account
    BY <2>1
  <2>3. /\ lease'[p].account = a /\ lease'[p].state = "active" /\ lease'[p].left = ClaimTime
        /\ \A i \in Holders \ {p} : lease'[i] = lease[i]
    BY <1>0, <1>3, <2>1, <2>2 DEF Commit, Types, TypeOK, Lease
  <2>4. ClaimTime > 0
    BY PoolAssumption
  <2>5. Held' = [Held EXCEPT ![p] = a]
    BY <1>0, <2>3, <2>4, OthersKeep
  <2>6. Held[p] = NoAccount /\ SameChat[p] = {}
    BY <1>0, <2>1 DEF Held, SameChat
  <2>7. Pool!Cardinality(Pool!Taken(a)) < MaxConcurrency[a]
    BY <1>3, <2>2, SlotsTaken, PoolCounts DEF Commit, Room, ClaimsFit
  <2> QED BY <1>0, <2>5, <2>6, <2>7 DEF Pool!Next, Pool!Grant
<1> QED BY <1>1, <1>2, <1>3, LeaseSteps

\* Through claims that read without a lock, renewals, late releases, expiry
\* and new logins the rows implement SlotLeases, for any number of accounts,
\* turns, probes and faults: a lease begins while its account has room and its
\* chat no other, and no renewal brings back one that has lapsed.
THEOREM PoolImplementsLeases == Spec => LeasesAreSlots
<1>1. Init => Pool!Init
  BY DEF Init, Pool!Init, Held, NoLease
<1>2. Types /\ Room /\ [Next]_vars => [Pool!Next]_Held
  BY SlotStep
<1> QED
  BY <1>1, <1>2, TypesInit, TypesStep, RoomInit, RoomStep, PTL
  DEF Spec, LeasesAreSlots, Pool!Spec
=============================================================================
