-------------------------- MODULE GatewayTurnProofs --------------------------
(***************************************************************************)
(* Proofs about ProjectLedger, for any number of owners, keys, calls and   *)
(* grants: its types, that credit is held back only for calls under way,   *)
(* and that grants and charges are entered once. Then about GatewayTurn,   *)
(* for any number of requests, accounts and faults: it moves the ledger    *)
(* only as ProjectLedger says, so everything proved of the ledger holds    *)
(* here; it uses accounts only as SlotLeases says; and a turn pays its     *)
(* debts.                                                                  *)
(***************************************************************************)
EXTENDS GatewayTurn, FiniteSetTheorems, TLAPS

(***************************************************************************)
(* Sums of reservations, counted as sets of units.                         *)
(***************************************************************************)
UnitsOf(R, S) == UNION {{c} \X (1 .. R[c]) : c \in S}

\* Finitely many calls reserve finitely many units.
LEMMA UnitsFinite ==
  ASSUME NEW S, IsFiniteSet(S), NEW R, \A c \in S : R[c] \in Nat
  PROVE  IsFiniteSet(UnitsOf(R, S)) /\ Cardinality(UnitsOf(R, S)) \in Nat
<1> DEFINE f == [c \in S |-> {c} \X (1 .. R[c])]
           F == {{c} \X (1 .. R[c]) : c \in S}
<1>1. f \in Surjection(S, F)
  <2>1. \A c \in S : f[c] = {c} \X (1 .. R[c])
    OBVIOUS
  <2>2. f \in [S -> F]
    BY <2>1
  <2>3. \A T \in F : \E c \in S : f[c] = T
    BY <2>1
  <2>4. \A g, H : (g \in [S -> H] /\ \A T \in H : \E c \in S : g[c] = T)
                      => g \in Surjection(S, H)
    BY DEF Surjection
  <2> HIDE DEF f, F
  <2> QED
    BY <2>2, <2>3, <2>4, Zenon
<1>2. IsFiniteSet(F)
  BY <1>1, FS_Surjection
<1>3. ASSUME NEW c \in S PROVE IsFiniteSet({c} \X (1 .. R[c]))
  <2>1. IsFiniteSet({c})
    BY FS_Singleton
  <2>2. IsFiniteSet(1 .. R[c])
    BY FS_Interval
  <2> QED
    BY <2>1, <2>2, FS_Product
<1>4. \A T \in F : IsFiniteSet(T)
  BY <1>3
<1>5. IsFiniteSet(UNION F)
  <2> HIDE DEF F
  <2> QED BY <1>2, <1>4, FS_UNION
<1> QED
  BY <1>5, FS_CardinalityType DEF UnitsOf

\* What two separate sets of calls reserve adds up.
LEMMA UnitsAdd ==
  ASSUME NEW S, NEW T, IsFiniteSet(S), IsFiniteSet(T), S \cap T = {},
         NEW R, \A c \in S \cup T : R[c] \in Nat
  PROVE  Cardinality(UnitsOf(R, S \cup T))
            = Cardinality(UnitsOf(R, S)) + Cardinality(UnitsOf(R, T))
<1>1. UnitsOf(R, S \cup T) = UnitsOf(R, S) \cup UnitsOf(R, T)
  BY DEF UnitsOf
<1>2. UnitsOf(R, S) \cap UnitsOf(R, T) = {}
  BY DEF UnitsOf
<1>3. IsFiniteSet(UnitsOf(R, S)) /\ IsFiniteSet(UnitsOf(R, T))
  BY UnitsFinite
<1>4. Cardinality(UnitsOf(R, S)) \in Nat /\ Cardinality(UnitsOf(R, T)) \in Nat
  BY UnitsFinite
<1>5. Cardinality(UnitsOf(R, S) \cup UnitsOf(R, T))
        = Cardinality(UnitsOf(R, S)) + Cardinality(UnitsOf(R, T))
                                     - Cardinality(UnitsOf(R, S) \cap UnitsOf(R, T))
  BY <1>3, FS_Union
<1>6. Cardinality(UnitsOf(R, S) \cap UnitsOf(R, T)) = 0
  BY <1>2, FS_EmptySet
<1>7. Cardinality(UnitsOf(R, S \cup T)) = Cardinality(UnitsOf(R, S) \cup UnitsOf(R, T))
  BY <1>1, Zenon
<1>8. \A a, b \in Nat : \A n : n = 0 => a + b - n = a + b
  OBVIOUS
<1> QED
  BY <1>4, <1>5, <1>6, <1>7, <1>8, Zenon

\* One call reserves what it reserves.
LEMMA UnitsOne ==
  ASSUME NEW c, NEW R, R[c] \in Nat
  PROVE  Cardinality(UnitsOf(R, {c})) = R[c]
<1>1. UnitsOf(R, {c}) = {c} \X (1 .. R[c])
  BY DEF UnitsOf
<1>2. IsFiniteSet(1 .. R[c]) /\ Cardinality(1 .. R[c]) = R[c]
  <2>1. Cardinality(1 .. R[c]) = IF 1 > R[c] THEN 0 ELSE R[c] - 1 + 1
    BY SMTT(20), FS_Interval
  <2>2. IsFiniteSet(1 .. R[c])
    BY FS_Interval
  <2> QED
    BY <2>1, <2>2
<1>3. IsFiniteSet({c}) /\ Cardinality({c}) = 1
  BY FS_Singleton
<1>4. Cardinality({c} \X (1 .. R[c])) = 1 * R[c]
  BY ZenonT(30), <1>2, <1>3, FS_Product
<1>5. 1 * R[c] = R[c]
  OBVIOUS
<1> QED
  BY <1>1, <1>4, <1>5, Zenon

\* Only the reservations of the calls that are counted matter.
LEMMA UnitsSame ==
  ASSUME NEW S, NEW R, NEW Q, \A c \in S : R[c] = Q[c]
  PROVE  UnitsOf(R, S) = UnitsOf(Q, S)
  BY DEF UnitsOf

-----------------------------------------------------------------------------
(***************************************************************************)
(* Types.                                                                  *)
(***************************************************************************)
\* A cost is an amount.
LEMMA CostIsNat ==
  ASSUME NEW p \in Prices \cup {0}, NEW m \in Multipliers
  PROVE  Cost(p, m) \in Nat
<1>1. p \in Nat /\ m \in Nat /\ Scale \in Nat \ {0}
  BY LedgerAssumption
<1>2. p * m \in Nat
  BY <1>1
<1>3. p * m + Scale - 1 \in Nat
  BY <1>1, <1>2
<1>4. \A x, s \in Nat : s # 0 => x \div s \in Nat
  OBVIOUS
<1> QED
  BY <1>1, <1>3, <1>4 DEF Cost

\* What is left of an amount is an amount, not more than it was.
LEMMA LessIsNat ==
  ASSUME NEW a \in Nat, NEW b \in Nat
  PROVE  Less(a, b) \in Nat /\ Less(a, b) <= a
  BY DEF Less

LEMMA CallsFinite == IsFiniteSet(Calls)
  BY LedgerAssumption, FS_Product DEF Calls

Reserved == [c \in Calls |-> requests[c].reserved]

\* What is held, as a sum over a function of its own.
LEMMA HeldIs ==
  ASSUME NEW S \in SUBSET Calls
  PROVE  Held(S) = Cardinality(UnitsOf(Reserved, S))
<1>1. UNION {{c} \X (1 .. requests[c].reserved) : c \in S} = UnitsOf(Reserved, S)
  BY DEF UnitsOf, Reserved
<1> QED
  BY <1>1, Zenon DEF Held, Units

\* What calls under way hold is an amount.
LEMMA HeldIsNat ==
  ASSUME LedgerTypeOK, NEW u, NEW S \in SUBSET Live(u)
  PROVE  Held(S) \in Nat
<1>1. S \subseteq Calls
  BY DEF Live, Owned
<1>2. \A c \in S : Reserved[c] \in Nat
  BY <1>1 DEF Live, Owned, Reserved, LedgerTypeOK, Request, NoRequest
<1>3. IsFiniteSet(S)
  BY <1>1, CallsFinite, FS_Subset
<1> QED
  BY <1>1, <1>2, <1>3, UnitsFinite, HeldIs

\* Rows and requests keep their columns when one of them is written.
LEMMA Written ==
  /\ \A row \in Row, n \in Nat : [row EXCEPT !.reserved = n] \in Row
  /\ \A row \in Row, b \in Int \cup {NoBalance} : [row EXCEPT !.balance = b] \in Row
  /\ \A row \in Row, on \in BOOLEAN, n \in KeyLimits :
        [row EXCEPT !.enabled = on, !.maxKeys = n] \in Row
  /\ \A row \in Row, n \in Nat, b \in Int \cup {NoBalance} :
        [row EXCEPT !.reserved = n, !.balance = b] \in Row
  /\ \A r \in Request : [r EXCEPT !.lapsed = TRUE] \in Request
<1>1. \A row \in Row, n \in Nat : [row EXCEPT !.reserved = n] \in Row
  BY DEF Row
<1>2. \A row \in Row, b \in Int \cup {NoBalance} : [row EXCEPT !.balance = b] \in Row
  BY DEF Row
<1>3. \A row \in Row, on \in BOOLEAN, n \in KeyLimits :
        [row EXCEPT !.enabled = on, !.maxKeys = n] \in Row
  BY DEF Row
<1>4. \A row \in Row, n \in Nat, b \in Int \cup {NoBalance} :
        [row EXCEPT !.reserved = n, !.balance = b] \in Row
  BY DEF Row
<1>5. \A r \in Request : [r EXCEPT !.lapsed = TRUE] \in Request
  BY DEF Request
<1> QED
  BY ZenonT(30), <1>1, <1>2, <1>3, <1>4, <1>5

\* A row that exists has a row's columns.
LEMMA RowOf ==
  ASSUME LedgerTypeOK, NEW u \in Users, permission[u].exists
  PROVE  /\ permission[u] \in Row
         /\ permission[u].reserved \in Nat
         /\ permission[u].balance \in Int \cup {NoBalance}
<1>1. permission[u] \in Row
  BY DEF LedgerTypeOK, NoRow
<1> QED
  BY <1>1 DEF Row

LEMMA GrantOf ==
  ASSUME NEW g \in Grant
  PROVE  g.user \in Users /\ g.idem \in GrantIds /\ g.amount \in Int
<1>1. \A a \in Amounts : a \in Int
  BY LedgerAssumption
<1>2. g.user \in Users /\ g.idem \in GrantIds /\ g.amount \in Amounts
  BY DEF Grant
<1> QED
  BY <1>1, <1>2

LEMMA LedgerTypesInit == LedgerInit => LedgerTypeOK
<1>1. ASSUME LedgerInit PROVE permission \in [Users -> Row \cup {NoRow}]
  <2>1. (CHOOSE n \in KeyLimits : TRUE) \in KeyLimits
    BY LedgerAssumption
  <2> QED
    BY <1>1, <2>1 DEF LedgerInit, Row, NoRow
<1> QED
  BY <1>1, LedgerAssumption DEF LedgerInit, LedgerTypeOK

LEMMA LedgerTypesStep == LedgerTypeOK /\ [LedgerNext]_ledgerVars => LedgerTypeOK'
<1> SUFFICES ASSUME LedgerTypeOK, [LedgerNext]_ledgerVars PROVE LedgerTypeOK'
  OBVIOUS
<1> USE LedgerAssumption DEF LedgerTypeOK
<1>1. ASSUME NEW m \in Multipliers, SetMultiplier(m) PROVE LedgerTypeOK'
  BY <1>1 DEF SetMultiplier
<1>2. ASSUME NEW u \in Users, NEW on \in BOOLEAN, NEW n \in KeyLimits, SetPermission(u, on, n)
      PROVE  LedgerTypeOK'
  <2>1. permission'[u] \in Row
    <3>1. CASE permission[u].exists
      BY ZenonT(30), <1>2, <3>1, RowOf, Written DEF SetPermission
    <3>2. CASE ~permission[u].exists
      BY <1>2, <3>2 DEF SetPermission, Row
    <3> QED
      BY <3>1, <3>2
  <2> QED
    BY <1>2, <2>1 DEF SetPermission
<1>3. ASSUME NEW u \in Users, DeletePermission(u) PROVE LedgerTypeOK'
  <2>1. permission' \in [Users -> Row \cup {NoRow}]
    BY <1>3 DEF DeletePermission
  <2>2. requests' \in [Calls -> Request \cup {NoRequest}]
    <3>1. \A c \in Lapsed(u) : Released(c) \in Request
      BY DEF Lapsed, Live, Owned, Released, Request, NoRequest
    <3> QED
      BY <1>3, <3>1 DEF DeletePermission
  <2>3. keys' \in [KeyIds -> Key \cup {NoKey}]
    <3>1. \A k \in ActiveKeys(u) : [keys[k] EXCEPT !.status = "revoked"] \in Key
      BY DEF ActiveKeys, Key, NoKey
    <3> QED
      BY <1>3, <3>1 DEF DeletePermission
  <2> QED
    BY <1>3, <2>1, <2>2, <2>3 DEF DeletePermission
<1>4. ASSUME NEW k \in KeyIds, NEW u \in Users, CreateKey(k, u) PROVE LedgerTypeOK'
  BY <1>4 DEF CreateKey, Key
<1>5. ASSUME NEW k \in KeyIds, RevokeKey(k) PROVE LedgerTypeOK'
  <2>1. [keys[k] EXCEPT !.status = "revoked"] \in Key
    BY <1>5 DEF RevokeKey, Key, NoKey
  <2> QED
    BY <1>5, <2>1 DEF RevokeKey
<1>6. ASSUME NEW g \in Grant, GrantLook(g) PROVE LedgerTypeOK'
  BY <1>6 DEF GrantLook
<1>7. ASSUME NEW g \in Grant, GrantPost(g) PROVE LedgerTypeOK'
  <2>1. g.user \in Users /\ g.idem \in GrantIds /\ g.amount \in Int
    BY GrantOf
  <2>2. /\ permission[g.user] \in Row
        /\ permission[g.user].balance \in Int \cup {NoBalance}
    BY <1>7, <2>1, RowOf DEF GrantPost
  <2>3. Credited(g.user, g.amount) \in Int
    BY <2>1, <2>2 DEF Credited, Balance
  <2>4. [permission[g.user] EXCEPT !.balance = Credited(g.user, g.amount)] \in Row
    BY ZenonT(30), <2>2, <2>3, Written
  <2>5. ledger' \subseteq Entry
    BY <1>7, <2>1, <2>3 DEF GrantPost, Post, Entry
  <2>6. permission' = [permission EXCEPT ![g.user] =
                         [permission[g.user] EXCEPT !.balance = Credited(g.user, g.amount)]]
    BY <1>7 DEF GrantPost
  <2>7. permission' \in [Users -> Row \cup {NoRow}]
    BY <2>4, <2>6
  <2> QED
    BY <1>7, <2>5, <2>7 DEF GrantPost
<1>8. ASSUME NEW g \in Grant, GrantRefused(g) PROVE LedgerTypeOK'
  BY <1>8 DEF GrantRefused
<1>9. ASSUME NEW c \in Calls, Lapse(c) PROVE LedgerTypeOK'
  <2>1. [requests[c] EXCEPT !.lapsed = TRUE] \in Request
    <3>1. requests[c] \in Request
      BY <1>9 DEF Lapse, NoRequest
    <3> QED
      BY ZenonT(30), <3>1, Written
  <2> QED
    BY <1>9, <2>1 DEF Lapse
<1>10. ASSUME NEW c \in Calls, NEW p \in Prices, Begin(c, p) PROVE LedgerTypeOK'
  <2>1. keys[c[1]] \in Key /\ Owner(c) \in Users
    BY <1>10 DEF Begin, MayCall, Owner, Calls, Key, NoKey
  <2>2. permission[Owner(c)] \in Row
    BY <1>10, <2>1 DEF Begin, MayCall, NoRow
  <2>3. Cost(p, multiplier) \in Nat
    BY CostIsNat
  <2>4. StillReserved(Owner(c)) \in Nat
    <3>1. Held(Lapsed(Owner(c))) \in Nat
      BY HeldIsNat DEF Lapsed
    <3> QED
      BY <2>2, <3>1, LessIsNat DEF StillReserved, Row
  <2>5. [permission[Owner(c)] EXCEPT !.reserved = StillReserved(Owner(c)) + Cost(p, multiplier)] \in Row
    <3>1. StillReserved(Owner(c)) + Cost(p, multiplier) \in Nat
      BY <2>3, <2>4
    <3> QED
      BY ZenonT(30), <2>2, <3>1, Written
  <2>6. permission' = [permission EXCEPT ![Owner(c)] =
           [permission[Owner(c)] EXCEPT !.reserved = StillReserved(Owner(c)) + Cost(p, multiplier)]]
    BY <1>10 DEF Begin
  <2>7. \A d \in Lapsed(Owner(c)) : Released(d) \in Request
    BY DEF Lapsed, Live, Owned, Released, Request, NoRequest
  <2>8. requests' \in [Calls -> Request \cup {NoRequest}]
    BY <1>10, <2>3, <2>7 DEF Begin, Request
  <2> QED
    BY <1>10, <2>1, <2>5, <2>6, <2>8 DEF Begin
<1>11. ASSUME NEW c \in Calls, NEW p \in Prices \cup {0}, Record(c, p) PROVE LedgerTypeOK'
  <2>1. Owner(c) \in Users
    BY <1>11 DEF Record, Owner, Calls, Key, NoKey
  <2>2. Began(c) => requests[c] \in Request
    BY DEF Began
  <2>3. Charge(c, p) \in Nat
    BY <2>2, CostIsNat DEF Charge, Request
  <2>4. requests' \in [Calls -> Request \cup {NoRequest}]
    <3>1. Began(c) => [requests[c] EXCEPT !.state = "completed"] \in Request
      BY <2>2 DEF Request
    <3> QED
      BY <1>11, <3>1 DEF Record
  <2>5. ASSUME permission[Owner(c)].exists
        PROVE  Settled(permission[Owner(c)], c, Charge(c, p)) \in Row
    <3>1. /\ permission[Owner(c)] \in Row
          /\ permission[Owner(c)].reserved \in Nat
          /\ permission[Owner(c)].balance \in Int \cup {NoBalance}
      BY <2>1, <2>5, RowOf
    <3>2. (IF Began(c) THEN Less(permission[Owner(c)].reserved, requests[c].reserved)
           ELSE permission[Owner(c)].reserved) \in Nat
      BY <2>2, <3>1, LessIsNat DEF Request
    <3>3. (IF permission[Owner(c)].balance # NoBalance /\ Charge(c, p) > 0
           THEN permission[Owner(c)].balance - Charge(c, p)
           ELSE permission[Owner(c)].balance) \in Int \cup {NoBalance}
      BY <2>3, <3>1
    <3> QED
      BY ZenonT(30), <3>1, <3>2, <3>3, Written DEF Settled
  <2>6. permission' \in [Users -> Row \cup {NoRow}]
    BY <1>11, <2>5 DEF Record
  <2>7. ledger' \subseteq Entry
    <3>1. CASE permission[Owner(c)].exists /\ permission[Owner(c)].balance # NoBalance
      <4>1. permission[Owner(c)].balance \in Int
        BY <2>1, <3>1, RowOf
      <4>2. -Charge(c, p) \in Int /\ permission[Owner(c)].balance - Charge(c, p) \in Int
        BY <2>3, <4>1
      <4>3. [user |-> Owner(c), idem |-> c, amount |-> -Charge(c, p),
             after |-> permission[Owner(c)].balance - Charge(c, p)] \in Entry
        BY <2>1, <4>2 DEF Entry
      <4> QED
        BY <1>11, <4>3 DEF Record, Post
    <3> QED
      BY <1>11, <3>1 DEF Record
  <2>8. usage' \subseteq Calls
    BY <1>11 DEF Record
  <2> QED
    BY <1>11, <2>4, <2>6, <2>7, <2>8 DEF Record
<1>12. CASE UNCHANGED ledgerVars
  BY <1>12 DEF ledgerVars
<1> QED
  BY <1>1, <1>2, <1>3, <1>4, <1>5, <1>6, <1>7, <1>8, <1>9, <1>10, <1>11, <1>12
     DEF LedgerNext, Administer

\* Every table keeps its columns' types, for any number of owners, keys, calls
\* and grants.
THEOREM LedgerTypeCorrect == LedgerSpec => []LedgerTypeOK
  BY LedgerTypesInit, LedgerTypesStep, PTL DEF LedgerSpec

-----------------------------------------------------------------------------
(***************************************************************************)
(* What the calls under way of an owner hold, after each step.             *)
(***************************************************************************)
\* A call was begun with a key, and a user without a row has no call under way.
RequestHasKey == \A c \in Calls : requests[c] # NoRequest => keys[c[1]] # NoKey
NoRowNothingLive == \A u \in Users : ~permission[u].exists => Live(u) = {}

LEMMA HeldLiveNext ==
  ASSUME NEW v
  PROVE  Held(Live(v))' = Cardinality(UnitsOf(Reserved', Live(v)'))
<1>1. \A c \in Live(v)' : Reserved'[c] = requests'[c].reserved
  BY DEF Reserved, Live, Owned
<1>2. UNION {{c} \X (1 .. requests'[c].reserved) : c \in Live(v)'} = UnitsOf(Reserved', Live(v)')
  BY <1>1 DEF UnitsOf
<1> QED
  BY <1>2, Zenon DEF Held, Units

\* Nothing changes for an owner whose calls stay as they are.
LEMMA HeldKept ==
  ASSUME NEW v, Live(v)' = Live(v),
         \A c \in Live(v) : requests'[c].reserved = requests[c].reserved
  PROVE  Held(Live(v))' = Held(Live(v))
<1>1. UnitsOf(Reserved', Live(v)) = UnitsOf(Reserved, Live(v))
  <2>1. \A c \in Live(v) : Reserved'[c] = Reserved[c]
    BY DEF Reserved, Live, Owned
  <2> QED
    BY <2>1, UnitsSame
<1>2. Held(Live(v)) = Cardinality(UnitsOf(Reserved, Live(v)))
  <2>1. Live(v) \subseteq Calls
    BY DEF Live, Owned
  <2> QED
    BY <2>1, HeldIs
<1> QED
  BY <1>1, <1>2, HeldLiveNext

\* Separate sets of calls under way hold the sum of what each holds.
LEMMA HeldAdds ==
  ASSUME LedgerTypeOK, NEW u, NEW S \in SUBSET Live(u), NEW T \in SUBSET Live(u), S \cap T = {}
  PROVE  Held(S \cup T) = Held(S) + Held(T)
<1>1. S \subseteq Calls /\ T \subseteq Calls
  BY DEF Live, Owned
<1>2. \A c \in S \cup T : Reserved[c] \in Nat
  BY <1>1 DEF Live, Owned, Reserved, LedgerTypeOK, Request, NoRequest
<1>3. IsFiniteSet(S) /\ IsFiniteSet(T)
  BY <1>1, CallsFinite, FS_Subset
<1>4. Cardinality(UnitsOf(Reserved, S \cup T))
        = Cardinality(UnitsOf(Reserved, S)) + Cardinality(UnitsOf(Reserved, T))
  BY <1>2, <1>3, UnitsAdd
<1> QED
  BY <1>1, <1>4, HeldIs

\* begin_request() exchanges the lapsed reservations of the owner for a new one.
LEMMA HeldAfterBegin ==
  ASSUME LedgerTypeOK, NEW c \in Calls, NEW p \in Prices, Begin(c, p), NEW v \in Users
  PROVE  Held(Live(v))' = IF v = Owner(c)
                          THEN Held(Live(v)) - Held(Lapsed(v)) + Cost(p, multiplier)
                          ELSE Held(Live(v))
<1> DEFINE u == Owner(c)
           cost == Cost(p, multiplier)
           released == IF Held(Lapsed(u)) > 0 THEN Lapsed(u) ELSE {}
           rest == Live(u) \ released
<1>1. keys' = keys /\ keys[c[1]] # NoKey /\ requests[c] = NoRequest
  BY DEF Begin, MayCall, Unused, NoKey
<1>2. cost \in Nat
  BY CostIsNat DEF LedgerTypeOK
<1>3. \A d \in Calls : requests'[d] =
        IF d = c THEN [state |-> "reserved", reserved |-> cost,
                       multiplier |-> multiplier, lapsed |-> FALSE]
        ELSE IF d \in released THEN Released(d) ELSE requests[d]
  BY DEF Begin
<1>4. \A d \in released : d \in Live(u) /\ Released(d).state = "released"
  BY DEF Lapsed, Live, Owned, Released, LedgerTypeOK, Request, NoRequest
<1>5. \A w \in Users : Owned(w)' = Owned(w)
  BY <1>1 DEF Owned, Owner
<1>6. c \notin Live(u) /\ c \in Owned(u)
  BY <1>1 DEF Live, Owned, NoRequest
<1>7. CASE v # u
  <2>1. \A d \in Owned(v) : d # c /\ d \notin released
    BY <1>4, <1>7 DEF Owned, Live
  <2>2. \A d \in Owned(v) : requests'[d] = requests[d]
    BY <1>3, <2>1 DEF Owned
  <2>3. Live(v)' = Live(v)
    BY <1>5, <2>2 DEF Live
  <2>4. \A d \in Live(v) : requests'[d].reserved = requests[d].reserved
    BY <2>2 DEF Live
  <2> QED
    BY <1>7, <2>3, <2>4, HeldKept
<1>8. CASE v = u
  <2>1. Live(v)' = rest \cup {c}
    <3>2. Live(v)' = {d \in Owned(v) : requests'[d].state = "reserved"}
      BY <1>5 DEF Live
    <3>3. \A d \in Owned(u) : requests'[d].state = "reserved" <=> d \in rest \cup {c}
      BY <1>3, <1>4, <1>6 DEF Live, Owned
    <3>4. rest \cup {c} \subseteq Owned(u)
      BY <1>6 DEF Live
    <3> QED
      BY <1>8, <3>2, <3>3, <3>4
  <2>2. rest \subseteq Live(u) /\ rest \subseteq Calls /\ IsFiniteSet(rest)
    <3>1. rest \subseteq Live(u) /\ rest \subseteq Calls
      BY DEF Live, Owned
    <3> QED
      BY <3>1, CallsFinite, FS_Subset
  <2>3. \A d \in rest : Reserved'[d] = Reserved[d]
    BY <1>3, <1>6, <2>2 DEF Reserved
  <2>4. \A d \in rest \cup {c} : Reserved'[d] \in Nat
    <3>1. \A d \in rest : Reserved[d] \in Nat
      BY <2>2 DEF Live, Owned, Reserved, LedgerTypeOK, Request, NoRequest
    <3>2. Reserved'[c] = cost
      BY <1>3 DEF Reserved
    <3> QED
      BY <1>2, <2>3, <3>1, <3>2
  <2>5. Cardinality(UnitsOf(Reserved', rest)) = Held(rest)
    BY <2>2, <2>3, UnitsSame, HeldIs
  <2>6. Cardinality(UnitsOf(Reserved', {c})) = cost
    <3>1. Reserved'[c] = cost
      BY <1>3 DEF Reserved
    <3> QED
      BY <1>2, <3>1, UnitsOne
  <2>7. Cardinality(UnitsOf(Reserved', rest \cup {c})) = Held(rest) + cost
    <3>1. rest \cap {c} = {} /\ IsFiniteSet({c})
      BY <1>6, FS_Singleton
    <3>2. Cardinality(UnitsOf(Reserved', rest \cup {c}))
            = Cardinality(UnitsOf(Reserved', rest)) + Cardinality(UnitsOf(Reserved', {c}))
      <4> HIDE DEF rest
      <4> QED BY <2>2, <2>4, <3>1, UnitsAdd
    <3> QED
      BY <2>5, <2>6, <3>2
  <2>8. Held(rest) = Held(Live(u)) - Held(Lapsed(u))
    <3>1. Lapsed(u) \in SUBSET Live(u) /\ Live(u) \ Lapsed(u) \in SUBSET Live(u)
      BY DEF Lapsed
    <3>2. Held(Lapsed(u)) \in Nat /\ Held(Live(u)) \in Nat /\ Held(Live(u) \ Lapsed(u)) \in Nat
      BY <3>1, HeldIsNat
    <3>3. Held((Live(u) \ Lapsed(u)) \cup Lapsed(u)) = Held(Live(u) \ Lapsed(u)) + Held(Lapsed(u))
      BY <3>1, HeldAdds
    <3>4. (Live(u) \ Lapsed(u)) \cup Lapsed(u) = Live(u)
      BY <3>1
    <3>5. CASE Held(Lapsed(u)) > 0
      BY <3>2, <3>3, <3>4, <3>5
    <3>6. CASE ~(Held(Lapsed(u)) > 0)
      <4>1. rest = Live(u)
        BY <3>6
      <4> QED
        BY <3>2, <3>6, <4>1
    <3> QED
      BY <3>5, <3>6
  <2>9. Held(Live(v))' = Held(rest) + cost
    BY <2>1, <2>7, HeldLiveNext, Zenon
  <2> QED
    BY <1>8, <2>8, <2>9
<1> QED
  BY <1>7, <1>8

\* record() takes away what the call held, if it was still under way.
LEMMA HeldAfterRecord ==
  ASSUME LedgerTypeOK, NEW c \in Calls, NEW p \in Prices \cup {0}, Record(c, p), NEW v \in Users
  PROVE  Held(Live(v))' = IF c \in Live(v) THEN Held(Live(v)) - requests[c].reserved
                          ELSE Held(Live(v))
<1>1. \A d \in Calls \ {c} : requests'[d] = requests[d]
  BY DEF Record
<1>2. Owned(v)' = Owned(v)
  BY DEF Record, Owned, Owner
<1>3. c \notin Live(v)'
  BY DEF Record, Began, Live, LedgerTypeOK, Request, NoRequest
<1>4. Live(v)' = Live(v) \ {c}
  BY <1>1, <1>2, <1>3 DEF Live, Owned
<1>5. \A d \in Live(v) \ {c} : requests'[d].reserved = requests[d].reserved
  BY <1>1 DEF Live, Owned
<1>6. CASE c \notin Live(v)
  <2>1. Live(v)' = Live(v)
    BY <1>4, <1>6
  <2> QED
    BY <1>5, <1>6, <2>1, HeldKept
<1>7. CASE c \in Live(v)
  <2> DEFINE rest == Live(v) \ {c}
  <2>1. rest \subseteq Calls
    BY DEF Live, Owned
  <2>2. Cardinality(UnitsOf(Reserved', rest)) = Held(rest)
    <3>1. \A d \in rest : Reserved'[d] = Reserved[d]
      BY <1>5, <2>1 DEF Reserved
    <3>2. UnitsOf(Reserved', rest) = UnitsOf(Reserved, rest)
      <4> HIDE DEF rest
      <4> QED BY <3>1, UnitsSame
    <3> QED
      BY <2>1, <3>2, HeldIs
  <2>3. Held({c}) = requests[c].reserved
    <3>1. Reserved[c] = requests[c].reserved
      BY DEF Reserved
    <3>2. Reserved[c] \in Nat
      BY <1>7, <3>1 DEF Live, LedgerTypeOK, Request, NoRequest
    <3>3. Held({c}) = Cardinality(UnitsOf(Reserved, {c}))
      BY HeldIs
    <3> QED
      BY <3>1, <3>2, <3>3, UnitsOne
  <2>4. Held(rest \cup {c}) = Held(rest) + Held({c})
    <3>1. rest \in SUBSET Live(v) /\ {c} \in SUBSET Live(v) /\ rest \cap {c} = {}
      BY <1>7
    <3> QED
      BY <3>1, HeldAdds
  <2>5. rest \cup {c} = Live(v)
    BY <1>7
  <2>6. Held(rest) \in Nat /\ Held({c}) \in Nat /\ Held(Live(v)) \in Nat
    <3>1. rest \in SUBSET Live(v) /\ {c} \in SUBSET Live(v)
      BY <1>7
    <3> QED
      BY <3>1, HeldIsNat
  <2>7. Held(Live(v))' = Held(rest)
    BY <1>4, <2>2, HeldLiveNext
  <2> HIDE DEF rest
  <2>8. Held(Live(v)) = Held(rest) + Held({c})
    BY <2>4, <2>5, Zenon
  <2>9. \A a, b, d \in Nat : d = a + b => a = d - b
    OBVIOUS
  <2>10. Held(rest) = Held(Live(v)) - Held({c})
    BY <2>6, <2>8, <2>9, Zenon
  <2> QED
    BY <1>7, <2>3, <2>7, <2>10, Zenon
<1> QED
  BY <1>6, <1>7

\* A call is begun or recorded.
Dealing ==
    \E c \in Calls : \/ \E p \in Prices : Begin(c, p)
                     \/ \E p \in Prices \cup {0} : Record(c, p)

\* Every other step leaves all calls under way as they are, but for one: a
\* deletion waits until nothing of the owner is under way.
LEMMA LiveKept ==
  ASSUME LedgerTypeOK, RequestHasKey, [LedgerNext]_ledgerVars,
         ~Dealing, NEW v \in Users
  PROVE  /\ Live(v)' = Live(v) \/ (Live(v)' = {} /\ DeletePermission(v))
         /\ Live(v)' = Live(v) => Held(Live(v))' = Held(Live(v))
<1>1. ASSUME keys' = keys, requests' = requests
      PROVE  Live(v)' = Live(v) /\ \A c \in Live(v) : requests'[c].reserved = requests[c].reserved
  BY <1>1 DEF Live, Owned, Owner
<1>2. ASSUME NEW u \in Users, DeletePermission(u)
      PROVE  /\ Live(v)' = Live(v) \/ (Live(v)' = {} /\ DeletePermission(v))
             /\ \A c \in Calls : requests'[c].reserved = requests[c].reserved
  <2>1. \A c \in Calls : requests'[c] = IF c \in Lapsed(u) THEN Released(c) ELSE requests[c]
    BY <1>2 DEF DeletePermission
  <2>2. \A c \in Lapsed(u) : /\ Released(c).state = "released"
                             /\ Released(c).reserved = requests[c].reserved
    BY DEF Lapsed, Live, Owned, Released, LedgerTypeOK, Request, NoRequest
  <2>3. Owned(v)' = Owned(v)
    <3>1. \A k \in KeyIds : /\ keys'[k] = NoKey <=> keys[k] = NoKey
                            /\ keys[k] # NoKey => keys'[k].owner = keys[k].owner
      BY <1>2 DEF DeletePermission, ActiveKeys, LedgerTypeOK, Key, NoKey
    <3> QED
      BY <3>1 DEF Owned, Owner, Calls
  <2>4. CASE v = u
    <3>1. \A c \in Owned(v) : requests'[c].state # "reserved"
      BY <1>2, <2>1, <2>2, <2>4 DEF DeletePermission, Live, Owned
    <3>2. Live(v)' = {}
      BY <2>3, <3>1 DEF Live
    <3> QED
      BY <1>2, <2>1, <2>2, <2>4, <3>2
  <2>5. CASE v # u
    <3>1. \A c \in Owned(v) : c \notin Lapsed(u)
      BY <2>5 DEF Lapsed, Live, Owned
    <3>2. Live(v)' = Live(v)
      BY <2>1, <2>3, <3>1 DEF Live, Owned
    <3> QED
      BY <2>1, <2>2, <3>2
  <2> QED
    BY <2>4, <2>5
<1>3. ASSUME NEW k \in KeyIds, NEW u \in Users, CreateKey(k, u)
      PROVE  Live(v)' = Live(v) /\ requests' = requests
  <2>1. \A c \in Calls : c[1] = k => requests[c].state # "reserved"
    BY <1>3 DEF CreateKey, RequestHasKey, NoRequest
  <2>2. \A c \in Calls : c[1] # k => keys'[c[1]] = keys[c[1]]
    BY <1>3 DEF CreateKey, Calls, LedgerTypeOK
  <2>3. requests' = requests
    BY <1>3 DEF CreateKey
  <2>4. \A c \in Calls : c \in Live(v) => keys[c[1]] # NoKey /\ c[1] # k
    BY <1>3 DEF Live, Owned, CreateKey
  <2>5. Live(v)' = Live(v)
    BY <2>1, <2>2, <2>3, <2>4 DEF Live, Owned, Owner
  <2> QED
    BY <2>3, <2>5
<1>4. ASSUME NEW k \in KeyIds, RevokeKey(k)
      PROVE  Live(v)' = Live(v) /\ requests' = requests
  <2>1. \A j \in KeyIds : /\ keys'[j] = NoKey <=> keys[j] = NoKey
                          /\ keys[j] # NoKey => keys'[j].owner = keys[j].owner
    BY <1>4 DEF RevokeKey, LedgerTypeOK, Key, NoKey
  <2>2. requests' = requests
    BY <1>4 DEF RevokeKey
  <2> QED
    BY <2>1, <2>2 DEF Live, Owned, Owner, Calls
<1>5. ASSUME NEW c \in Calls, Lapse(c)
      PROVE  Live(v)' = Live(v) /\ \A d \in Calls : requests'[d].reserved = requests[d].reserved
  <2>1. \A d \in Calls : /\ requests'[d].state = requests[d].state
                         /\ requests'[d].reserved = requests[d].reserved
    <3>1. requests[c] \in Request
      BY <1>5 DEF Lapse, LedgerTypeOK, NoRequest
    <3> QED
      BY <1>5, <3>1 DEF Lapse, LedgerTypeOK, Request
  <2>2. keys' = keys
    BY <1>5 DEF Lapse
  <2> QED
    BY <2>1, <2>2 DEF Live, Owned, Owner
<1>6. /\ Live(v)' = Live(v) \/ (Live(v)' = {} /\ DeletePermission(v))
      /\ \A c \in Live(v) : requests'[c].reserved = requests[c].reserved
  <2>1. \A c \in Live(v) : c \in Calls
    BY DEF Live, Owned
  <2>2. \/ keys' = keys /\ requests' = requests
        \/ \E u \in Users : DeletePermission(u)
        \/ \E k \in KeyIds, u \in Users : CreateKey(k, u)
        \/ \E k \in KeyIds : RevokeKey(k)
        \/ \E c \in Calls : Lapse(c)
    BY ZenonT(30)
       DEF Dealing, LedgerNext, Administer, ledgerVars, SetMultiplier, SetPermission, GrantLook,
           GrantPost, GrantRefused
  <2> QED
    BY <1>1, <1>2, <1>3, <1>4, <1>5, <2>1, <2>2
<1> QED
  BY <1>6, HeldKept

-----------------------------------------------------------------------------
(***************************************************************************)
(* The invariant.                                                          *)
(***************************************************************************)
LedgerInv ==
    /\ LedgerTypeOK /\ RequestHasKey /\ NoRowNothingLive
    /\ ChargedIfRecorded /\ EnteredOnce /\ CreditIsHeldByCalls

LEMMA LedgerInvInit == LedgerInit => LedgerInv
<1> SUFFICES ASSUME LedgerInit PROVE LedgerInv
  OBVIOUS
<1>1. LedgerTypeOK
  BY LedgerTypesInit
<1>2. \A u : Live(u) = {}
  BY DEF LedgerInit, Live, Owned, NoKey, Calls
<1>3. RequestHasKey
  BY DEF LedgerInit, RequestHasKey
<1>4. ChargedIfRecorded /\ EnteredOnce
  BY DEF LedgerInit, ChargedIfRecorded, EnteredOnce, NoRequest
<1>5. CreditIsHeldByCalls
  <2>1. ASSUME NEW u \in Users, permission[u].exists PROVE permission[u].reserved = 0
    BY <2>1 DEF LedgerInit, NoRow
  <2>2. \A u \in Users : Held(Live(u)) \in Nat
    BY <1>1, HeldIsNat
  <2> QED
    BY <2>1, <2>2 DEF CreditIsHeldByCalls
<1> QED
  BY <1>1, <1>2, <1>3, <1>4, <1>5 DEF LedgerInv, NoRowNothingLive

\* A call keeps its key, and a completed call its record.
LEMMA CallsStep == LedgerInv /\ [LedgerNext]_ledgerVars => RequestHasKey' /\ ChargedIfRecorded'
<1> SUFFICES ASSUME LedgerInv, [LedgerNext]_ledgerVars PROVE RequestHasKey' /\ ChargedIfRecorded'
  OBVIOUS
<1> USE DEF LedgerInv, RequestHasKey, ChargedIfRecorded
<1>1. ASSUME NEW u \in Users, DeletePermission(u) PROVE RequestHasKey' /\ ChargedIfRecorded'
  <2>1. \A c \in Calls : \/ requests'[c] = requests[c]
                         \/ requests[c] # NoRequest /\ requests'[c].state = "released"
    BY <1>1 DEF DeletePermission, Lapsed, Live, Owned, Released, LedgerTypeOK, Request, NoRequest
  <2>2. \A k \in KeyIds : keys'[k] = NoKey => keys[k] = NoKey
    BY <1>1 DEF DeletePermission, ActiveKeys, LedgerTypeOK, Key, NoKey
  <2>3. usage' = usage /\ ledger' = ledger
    BY <1>1 DEF DeletePermission
  <2> QED
    BY <2>1, <2>2, <2>3 DEF Calls
<1>2. ASSUME NEW c \in Calls, NEW p \in Prices, Begin(c, p)
      PROVE  RequestHasKey' /\ ChargedIfRecorded'
  <2>1. \A d \in Calls : \/ requests'[d] = requests[d]
                         \/ requests[d] # NoRequest /\ requests'[d].state = "released"
                         \/ d = c /\ requests'[d].state = "reserved"
    BY <1>2 DEF Begin, Lapsed, Live, Owned, Released, LedgerTypeOK, Request, NoRequest
  <2>2. keys[c[1]] # NoKey /\ keys' = keys /\ usage' = usage /\ ledger' = ledger
    BY <1>2 DEF Begin, MayCall, NoKey
  <2> QED
    BY <2>1, <2>2
<1>3. ASSUME NEW c \in Calls, NEW p \in Prices \cup {0}, Record(c, p)
      PROVE  RequestHasKey' /\ ChargedIfRecorded'
  <2>1. keys' = keys /\ keys[c[1]] # NoKey /\ usage' = usage \cup {c}
    BY <1>3 DEF Record
  <2>2. \A d \in Calls : requests'[d] = requests[d] \/ d = c
    BY <1>3 DEF Record
  <2>3. \A e \in ledger' : e \in ledger \/ e.idem = c
    BY <1>3 DEF Record, Post
  <2> QED
    BY <2>1, <2>2, <2>3
<1>4. ASSUME NEW g \in Grant, GrantPost(g) PROVE RequestHasKey' /\ ChargedIfRecorded'
  <2>1. \A e \in ledger' : e \in ledger \/ e.idem = g.idem
    BY <1>4 DEF GrantPost, Post
  <2>2. g.idem \notin Calls
    BY LedgerAssumption, GrantOf DEF Calls
  <2>3. keys' = keys /\ usage' = usage /\ requests' = requests
    BY <1>4 DEF GrantPost
  <2> QED
    BY <2>1, <2>2, <2>3
<1>5. ASSUME NEW c \in Calls, Lapse(c) PROVE RequestHasKey' /\ ChargedIfRecorded'
  <2>1. requests[c] \in Request
    BY <1>5 DEF Lapse, LedgerTypeOK, NoRequest
  <2>2. \A d \in Calls : requests'[d] = requests[d] \/ (requests[d] # NoRequest /\ requests'[d].state = "reserved")
    <3>1. \A d \in Calls : d # c => requests'[d] = requests[d]
      BY <1>5 DEF Lapse, LedgerTypeOK
    <3>2. requests[c] # NoRequest /\ requests'[c].state = "reserved"
      BY <1>5, <2>1 DEF Lapse, LedgerTypeOK, Request, NoRequest
    <3> QED
      BY <3>1, <3>2
  <2>3. keys' = keys /\ usage' = usage /\ ledger' = ledger
    BY <1>5 DEF Lapse
  <2> QED
    BY <2>2, <2>3
<1>6. ASSUME NEW k \in KeyIds, NEW u \in Users, CreateKey(k, u)
      PROVE  RequestHasKey' /\ ChargedIfRecorded'
  <2>1. \A j \in KeyIds : keys'[j] = NoKey => keys[j] = NoKey
    BY <1>6 DEF CreateKey, LedgerTypeOK, NoKey
  <2>2. requests' = requests /\ usage' = usage /\ ledger' = ledger
    BY <1>6 DEF CreateKey
  <2> QED
    BY <2>1, <2>2 DEF Calls
<1>7. ASSUME NEW k \in KeyIds, RevokeKey(k) PROVE RequestHasKey' /\ ChargedIfRecorded'
  <2>1. \A j \in KeyIds : keys'[j] = NoKey => keys[j] = NoKey
    BY <1>7 DEF RevokeKey, LedgerTypeOK, Key, NoKey
  <2>2. requests' = requests /\ usage' = usage /\ ledger' = ledger
    BY <1>7 DEF RevokeKey
  <2> QED
    BY <2>1, <2>2 DEF Calls
<1>8. ASSUME keys' = keys, requests' = requests, usage' = usage, ledger' = ledger
      PROVE  RequestHasKey' /\ ChargedIfRecorded'
  BY <1>8
<1> QED
  BY ZenonT(30), <1>1, <1>2, <1>3, <1>4, <1>5, <1>6, <1>7, <1>8
     DEF LedgerNext, Administer, ledgerVars, SetMultiplier, SetPermission, GrantLook, GrantRefused

\* What is entered is new.
LEMMA EntriesStep ==
  ASSUME LedgerTypeOK, [LedgerNext]_ledgerVars
  PROVE  \/ ledger' = ledger
         \/ \E e \in ledger' : ledger' = ledger \cup {e} /\ ~Entered(e.user, e.idem)
<1>1. ASSUME NEW g \in Grant, GrantPost(g)
      PROVE  \E e \in ledger' : ledger' = ledger \cup {e} /\ ~Entered(e.user, e.idem)
  <2> DEFINE e == [user |-> g.user, idem |-> g.idem, amount |-> g.amount,
                   after |-> Credited(g.user, g.amount)]
  <2>1. e.user = g.user /\ e.idem = g.idem
    OBVIOUS
  <2>2. ledger' = ledger \cup {e} /\ ~Entered(g.user, g.idem)
    BY <1>1 DEF GrantPost, NewNow, Post
  <2> HIDE DEF e
  <2> QED
    BY <2>1, <2>2
<1>2. ASSUME NEW c \in Calls, NEW p \in Prices \cup {0}, Record(c, p), ledger' # ledger
      PROVE  \E e \in ledger' : ledger' = ledger \cup {e} /\ ~Entered(e.user, e.idem)
  <2> DEFINE e == [user |-> Owner(c), idem |-> c, amount |-> -Charge(c, p),
                   after |-> permission[Owner(c)].balance - Charge(c, p)]
  <2>1. e.user = Owner(c) /\ e.idem = c
    OBVIOUS
  <2>2. ledger' = ledger \cup {e} /\ ~Entered(Owner(c), c)
    BY <1>2 DEF Record, Post
  <2> HIDE DEF e
  <2> QED
    BY <2>1, <2>2
<1> QED
  BY ZenonT(30), <1>1, <1>2 DEF LedgerNext, Administer, ledgerVars, SetMultiplier, SetPermission,
     DeletePermission, CreateKey, RevokeKey, GrantLook, GrantRefused, Begin, Lapse

LEMMA EnteredOnceStep == LedgerInv /\ [LedgerNext]_ledgerVars => EnteredOnce'
<1> SUFFICES ASSUME LedgerInv, [LedgerNext]_ledgerVars PROVE EnteredOnce'
  OBVIOUS
<1>1. ASSUME NEW e \in ledger', ledger' = ledger \cup {e}, ~Entered(e.user, e.idem)
      PROVE  EnteredOnce'
  <2>1. \A d \in ledger : ~(d.user = e.user /\ d.idem = e.idem)
    BY <1>1 DEF Entered, Entries
  <2> QED
    BY <1>1, <2>1 DEF LedgerInv, EnteredOnce
<1>2. CASE ledger' = ledger
  BY <1>2 DEF LedgerInv, EnteredOnce
<1> QED
  BY <1>1, <1>2, EntriesStep DEF LedgerInv

LEMMA ExistsIsBoolean ==
  ASSUME LedgerTypeOK, NEW v \in Users
  PROVE  permission[v].exists \in BOOLEAN
<1>1. CASE permission[v] \in Row
  BY <1>1 DEF Row
<1>2. CASE permission[v] = NoRow
  BY <1>2 DEF NoRow
<1> QED
  BY <1>1, <1>2 DEF LedgerTypeOK

\* What each step does to the row of an owner.
LEMMA RowsStep ==
  ASSUME LedgerTypeOK, [LedgerNext]_ledgerVars,
         ~Dealing, NEW v \in Users
  PROVE  \/ permission'[v].exists /\ permission[v].exists
              /\ permission'[v].reserved = permission[v].reserved
         \/ permission'[v].exists /\ ~permission[v].exists /\ permission'[v].reserved = 0
         \/ ~permission'[v].exists /\ DeletePermission(v)
         \/ ~permission'[v].exists /\ ~permission[v].exists
<1>1. ASSUME NEW u \in Users, NEW on \in BOOLEAN, NEW n \in KeyLimits, SetPermission(u, on, n)
      PROVE  \/ permission'[v].exists /\ permission[v].exists
                  /\ permission'[v].reserved = permission[v].reserved
             \/ permission'[v].exists /\ ~permission[v].exists /\ permission'[v].reserved = 0
             \/ ~permission'[v].exists /\ ~permission[v].exists
  <2>1. permission[v].exists \in BOOLEAN
    BY ExistsIsBoolean
  <2>2. CASE v = u /\ permission[u].exists
    <3>1. permission[u] \in Row
      BY <2>2, RowOf
    <3>2. permission'[u] = [permission[u] EXCEPT !.enabled = on, !.maxKeys = n]
      BY <1>1, <2>2 DEF SetPermission, LedgerTypeOK
    <3> QED
      BY <2>2, <3>1, <3>2 DEF Row
  <2>3. CASE v = u /\ ~permission[u].exists
    BY <1>1, <2>3 DEF SetPermission, LedgerTypeOK
  <2>4. CASE v # u
    BY <1>1, <2>1, <2>4 DEF SetPermission, LedgerTypeOK
  <2> QED
    BY <2>1, <2>2, <2>3, <2>4
<1>2. ASSUME NEW u \in Users, DeletePermission(u)
      PROVE  (~permission'[v].exists /\ DeletePermission(v)) \/ permission'[v] = permission[v]
  BY <1>2 DEF DeletePermission, LedgerTypeOK, NoRow
<1>3. ASSUME NEW g \in Grant, GrantPost(g)
      PROVE  permission'[v] = permission[v] \/ (permission'[v].exists /\ permission[v].exists
                /\ permission'[v].reserved = permission[v].reserved)
  <2>1. CASE v = g.user
    <3>1. permission[v] \in Row
      BY <1>3, <2>1, RowOf DEF GrantPost
    <3>2. permission'[v] = [permission[v] EXCEPT !.balance = Credited(g.user, g.amount)]
      BY <1>3, <2>1 DEF GrantPost, LedgerTypeOK
    <3> QED
      BY <3>1, <3>2 DEF Row
  <2>2. CASE v # g.user
    BY <1>3, <2>2 DEF GrantPost, LedgerTypeOK
  <2> QED
    BY <2>1, <2>2
<1>4. permission[v].exists \in BOOLEAN
  BY ExistsIsBoolean
<1>5. \/ permission' = permission
      \/ \E u \in Users, on \in BOOLEAN, n \in KeyLimits : SetPermission(u, on, n)
      \/ \E u \in Users : DeletePermission(u)
      \/ \E g \in Grant : GrantPost(g)
  BY DEF Dealing, LedgerNext, Administer, ledgerVars, SetMultiplier, CreateKey, RevokeKey, GrantLook,
     GrantRefused, Lapse
<1>6. ASSUME permission'[v] = permission[v]
      PROVE  \/ permission'[v].exists /\ permission[v].exists
                  /\ permission'[v].reserved = permission[v].reserved
             \/ ~permission'[v].exists /\ ~permission[v].exists
  BY <1>4, <1>6
<1> QED
  BY <1>1, <1>2, <1>3, <1>5, <1>6

\* begin_request() puts what it reserves on the row of the owner.
LEMMA RowAfterBegin ==
  ASSUME LedgerTypeOK, NEW c \in Calls, NEW p \in Prices, Begin(c, p)
  PROVE  /\ Owner(c) \in Users /\ permission[Owner(c)].exists /\ permission'[Owner(c)].exists
         /\ permission'[Owner(c)].reserved
              = Less(permission[Owner(c)].reserved, Held(Lapsed(Owner(c)))) + Cost(p, multiplier)
         /\ \A v \in Users : v # Owner(c) => permission'[v] = permission[v]
<1>1. Owner(c) \in Users /\ permission[Owner(c)].exists
  BY DEF Begin, MayCall, Owner, Calls, Key, NoKey, LedgerTypeOK
<1>2. permission[Owner(c)] \in Row
  BY <1>1, RowOf
<1>3. permission'[Owner(c)] = [permission[Owner(c)] EXCEPT !.reserved =
                                 StillReserved(Owner(c)) + Cost(p, multiplier)]
  BY <1>1 DEF Begin, LedgerTypeOK
<1>4. permission'[Owner(c)].exists /\ permission'[Owner(c)].reserved =
                                 StillReserved(Owner(c)) + Cost(p, multiplier)
  BY <1>2, <1>3 DEF Row
<1>5. \A v \in Users : v # Owner(c) => permission'[v] = permission[v]
  BY DEF Begin, LedgerTypeOK
<1> QED
  BY <1>1, <1>4, <1>5 DEF StillReserved

\* record() takes what the call reserved off the row of its owner.
LEMMA RowAfterRecord ==
  ASSUME LedgerTypeOK, NEW c \in Calls, NEW p \in Prices \cup {0}, Record(c, p), NEW v \in Users
  PROVE  /\ permission'[v].exists = permission[v].exists
         /\ permission[v].exists =>
              permission'[v].reserved = IF v = Owner(c) /\ Began(c)
                                        THEN Less(permission[v].reserved, requests[c].reserved)
                                        ELSE permission[v].reserved
<1>1. CASE v = Owner(c) /\ permission[v].exists
  <2>1. permission[v] \in Row
    BY <1>1, RowOf
  <2>2. permission'[v] = Settled(permission[v], c, Charge(c, p))
    BY <1>1 DEF Record, LedgerTypeOK
  <2> DEFINE n == IF Began(c) THEN Less(permission[v].reserved, requests[c].reserved)
                  ELSE permission[v].reserved
             b == IF permission[v].balance # NoBalance /\ Charge(c, p) > 0
                  THEN permission[v].balance - Charge(c, p) ELSE permission[v].balance
  <2>3. permission'[v] = [permission[v] EXCEPT !.reserved = n, !.balance = b]
    BY <2>2, Zenon DEF Settled
  <2> HIDE DEF n, b
  <2>4. permission'[v].exists = permission[v].exists /\ permission'[v].reserved = n
    BY <2>1, <2>3 DEF Row
  <2> USE DEF n
  <2> QED
    BY <1>1, <2>4
<1>2. CASE ~(v = Owner(c) /\ permission[v].exists)
  BY <1>2 DEF Record, LedgerTypeOK
<1> QED
  BY <1>1, <1>2

\* Arithmetic of reservations.
LEMMA LessFacts ==
  /\ \A a, b, h \in Nat : a <= h /\ b <= h => Less(a, b) <= h - b
  /\ \A b, h \in Nat : b <= h => Less(h, b) = h - b
  BY DEF Less

\* What lapsed is part of what is under way, and so is each call's part of it.
LEMMA PartsOfHeld ==
  ASSUME LedgerTypeOK, NEW u
  PROVE  /\ Held(Live(u)) \in Nat /\ Held(Lapsed(u)) \in Nat
         /\ Held(Lapsed(u)) <= Held(Live(u))
         /\ \A c \in Live(u) : requests[c].reserved \in Nat /\ requests[c].reserved <= Held(Live(u))
<1>1. ASSUME NEW S \in SUBSET Live(u)
      PROVE  Held(S) \in Nat /\ Held(Live(u)) \in Nat /\ Held(S) <= Held(Live(u))
  <2>1. Held(S) \in Nat /\ Held(Live(u)) \in Nat /\ Held(Live(u) \ S) \in Nat
    BY HeldIsNat
  <2>2. Held(S \cup (Live(u) \ S)) = Held(S) + Held(Live(u) \ S)
    <3>1. Live(u) \ S \in SUBSET Live(u) /\ S \cap (Live(u) \ S) = {}
      OBVIOUS
    <3> QED
      BY <3>1, HeldAdds
  <2>3. S \cup (Live(u) \ S) = Live(u)
    OBVIOUS
  <2>4. Held(Live(u)) = Held(S) + Held(Live(u) \ S)
    BY <2>2, <2>3, Zenon
  <2>5. \A a, b, d \in Nat : d = a + b => a <= d
    OBVIOUS
  <2> QED
    BY <2>1, <2>4, <2>5, Zenon
<1>2. Lapsed(u) \in SUBSET Live(u)
  BY DEF Lapsed
<1>3. ASSUME NEW c \in Live(u)
      PROVE  requests[c].reserved \in Nat /\ requests[c].reserved <= Held(Live(u))
  <2>1. c \in Calls /\ requests[c].reserved \in Nat
    BY DEF Live, Owned, LedgerTypeOK, Request, NoRequest
  <2>2. Held({c}) = requests[c].reserved
    <3>1. Reserved[c] = requests[c].reserved
      BY <2>1 DEF Reserved
    <3>2. Held({c}) = Cardinality(UnitsOf(Reserved, {c}))
      BY <2>1, HeldIs
    <3> QED
      BY <2>1, <3>1, <3>2, UnitsOne
  <2>3. Held({c}) <= Held(Live(u))
    BY <1>1
  <2> QED
    BY <2>1, <2>2, <2>3
<1> QED
  BY <1>1, <1>2, <1>3

\* A user without a row has no call under way, and a row reserves no more than
\* the calls under way hold.
LEMMA RowsKept ==
  ASSUME LedgerInv, LedgerTypeOK', [LedgerNext]_ledgerVars
  PROVE  NoRowNothingLive' /\ CreditIsHeldByCalls'
<1> USE DEF LedgerInv
<1>1. ASSUME NEW c \in Calls, NEW p \in Prices, Begin(c, p)
      PROVE  NoRowNothingLive' /\ CreditIsHeldByCalls'
  <2> DEFINE u == Owner(c)
  <2>1. ASSUME NEW v \in Users, v # u, permission'[v].exists
        PROVE  permission'[v].reserved <= Held(Live(v))'
    BY <1>1, <2>1, RowAfterBegin, HeldAfterBegin DEF CreditIsHeldByCalls
  <2>2. ASSUME NEW v \in Users, v = u
        PROVE  permission'[v].reserved <= Held(Live(v))'
    <3>1. v = Owner(c) /\ permission[v].exists
      BY <1>1, <2>2, RowAfterBegin
    <3>2. permission'[v].reserved = Less(permission[v].reserved, Held(Lapsed(v))) + Cost(p, multiplier)
      BY <1>1, <3>1, RowAfterBegin
    <3>3. Held(Live(v))' = Held(Live(v)) - Held(Lapsed(v)) + Cost(p, multiplier)
      BY <1>1, <3>1, HeldAfterBegin
    <3>4. /\ permission[v].reserved \in Nat /\ Held(Live(v)) \in Nat /\ Held(Lapsed(v)) \in Nat
          /\ permission[v].reserved <= Held(Live(v)) /\ Held(Lapsed(v)) <= Held(Live(v))
          /\ Cost(p, multiplier) \in Nat
      BY <3>1, RowOf, PartsOfHeld, CostIsNat DEF CreditIsHeldByCalls, LedgerTypeOK
    <3>5. /\ Less(permission[v].reserved, Held(Lapsed(v))) <= Held(Live(v)) - Held(Lapsed(v))
          /\ Less(permission[v].reserved, Held(Lapsed(v))) \in Nat
      BY <3>4, LessFacts, LessIsNat
    <3>6. \A l, h, b, k \in Nat : l <= h - b => l + k <= h - b + k
      OBVIOUS
    <3> QED
      BY <3>2, <3>3, <3>4, <3>5, <3>6, Zenon
  <2>3. CreditIsHeldByCalls'
    BY <2>1, <2>2 DEF CreditIsHeldByCalls
  <2>4. ASSUME NEW v \in Users, ~permission'[v].exists PROVE Live(v)' = {}
    <3>1. v # Owner(c) /\ permission'[v] = permission[v]
      BY <1>1, <2>4, RowAfterBegin
    <3>2. Live(v) = {}
      BY <2>4, <3>1 DEF NoRowNothingLive
    <3>3. \A d \in Owned(v) : requests'[d] = requests[d]
      BY <1>1, <3>1 DEF Begin, Owned, Lapsed, Live
    <3>4. Owned(v)' = Owned(v)
      BY <1>1 DEF Begin, Owned, Owner
    <3> QED
      BY <3>2, <3>3, <3>4 DEF Live
  <2> QED
    BY <2>3, <2>4 DEF NoRowNothingLive
<1>2. ASSUME NEW c \in Calls, NEW p \in Prices \cup {0}, Record(c, p)
      PROVE  NoRowNothingLive' /\ CreditIsHeldByCalls'
  <2>1. ASSUME NEW v \in Users, permission'[v].exists
        PROVE  permission'[v].reserved <= Held(Live(v))'
    <3>1. /\ permission[v].exists
          /\ permission'[v].reserved = IF v = Owner(c) /\ Began(c)
                                       THEN Less(permission[v].reserved, requests[c].reserved)
                                       ELSE permission[v].reserved
      BY <1>2, <2>1, RowAfterRecord
    <3>2. /\ permission[v].reserved \in Nat /\ Held(Live(v)) \in Nat
          /\ permission[v].reserved <= Held(Live(v))
      BY <3>1, RowOf, PartsOfHeld DEF CreditIsHeldByCalls
    <3>3. Held(Live(v))' = IF c \in Live(v) THEN Held(Live(v)) - requests[c].reserved
                           ELSE Held(Live(v))
      BY <1>2, HeldAfterRecord
    <3>4. Began(c) => requests[c].reserved \in Nat
      BY DEF Began, LedgerTypeOK, Request
    <3>5. CASE c \in Live(v)
      <4>1. v = Owner(c) /\ Began(c)
        BY <3>5 DEF Live, Owned, Began, NoRequest
      <4>2. requests[c].reserved <= Held(Live(v))
        BY <3>5, PartsOfHeld
      <4>3. Less(permission[v].reserved, requests[c].reserved) <= Held(Live(v)) - requests[c].reserved
        BY <3>2, <3>4, <4>1, <4>2, LessFacts
      <4> QED
        BY <3>1, <3>3, <3>5, <4>1, <4>3
    <3>6. CASE c \notin Live(v)
      <4>1. Began(c) => /\ Less(permission[v].reserved, requests[c].reserved) \in Nat
                        /\ Less(permission[v].reserved, requests[c].reserved) <= permission[v].reserved
        BY <3>2, <3>4, LessIsNat
      <4> QED
        BY <3>1, <3>2, <3>3, <3>6, <4>1
    <3> QED
      BY <3>5, <3>6
  <2>2. CreditIsHeldByCalls'
    BY <2>1 DEF CreditIsHeldByCalls
  <2>3. ASSUME NEW v \in Users, ~permission'[v].exists PROVE Live(v)' = {}
    <3>1. Live(v) = {}
      BY <1>2, <2>3, RowAfterRecord DEF NoRowNothingLive
    <3>2. Owned(v)' = Owned(v)
      BY <1>2 DEF Record, Owned, Owner
    <3>3. \A d \in Calls : requests'[d] = requests[d] \/ requests'[d].state = "completed"
      BY <1>2 DEF Record, Began, LedgerTypeOK, Request, NoRequest
    <3> QED
      BY <3>1, <3>2, <3>3 DEF Live, Owned
  <2> QED
    BY <2>2, <2>3 DEF NoRowNothingLive
<1>3. ASSUME ~Dealing
      PROVE  NoRowNothingLive' /\ CreditIsHeldByCalls'
  <2>1. ASSUME NEW v \in Users, permission'[v].exists
        PROVE  permission'[v].reserved <= Held(Live(v))'
    <3>1. Live(v)' = Live(v) /\ Held(Live(v))' = Held(Live(v))
      <4>1. ~DeletePermission(v)
        BY <2>1 DEF DeletePermission, LedgerTypeOK, NoRow
      <4> QED
        BY <1>3, <4>1, LiveKept
    <3>2. Held(Live(v)) \in Nat
      BY PartsOfHeld
    <3>3. ~(DeletePermission(v) /\ ~permission'[v].exists)
      BY <2>1
    <3>4. CASE permission[v].exists /\ permission'[v].reserved = permission[v].reserved
      BY <3>1, <3>4 DEF CreditIsHeldByCalls
    <3>5. CASE permission'[v].reserved = 0
      BY <3>1, <3>2, <3>5
    <3> QED
      BY <1>3, <2>1, <3>4, <3>5, RowsStep
  <2>2. ASSUME NEW v \in Users, ~permission'[v].exists PROVE Live(v)' = {}
    <3>1. CASE DeletePermission(v)
      <4>1. Live(v)' = Live(v) \/ Live(v)' = {}
        BY <1>3, LiveKept
      <4>2. \A c \in Live(v) : requests'[c].state = "released"
        BY <3>1 DEF DeletePermission, Live, Lapsed, Owned, Released, LedgerTypeOK, Request, NoRequest
      <4>3. \A c \in Live(v)' : requests'[c].state = "reserved"
        BY DEF Live
      <4> QED
        BY <4>1, <4>2, <4>3
    <3>2. CASE ~permission[v].exists
      <4>1. Live(v) = {}
        BY <3>2 DEF NoRowNothingLive
      <4> QED
        BY <1>3, <4>1, LiveKept
    <3> QED
      BY <1>3, <2>2, <3>1, <3>2, RowsStep
  <2> QED
    BY <2>1, <2>2 DEF NoRowNothingLive, CreditIsHeldByCalls
<1> QED
  BY <1>1, <1>2, <1>3 DEF Dealing

LEMMA LedgerInvStep == LedgerInv /\ [LedgerNext]_ledgerVars => LedgerInv'
<1> SUFFICES ASSUME LedgerInv, [LedgerNext]_ledgerVars PROVE LedgerInv'
  OBVIOUS
<1>1. LedgerTypeOK'
  BY LedgerTypesStep DEF LedgerInv
<1> QED
  BY <1>1, CallsStep, EnteredOnceStep, RowsKept DEF LedgerInv

LEMMA LedgerInvariant == LedgerSpec => []LedgerInv
  BY LedgerInvInit, LedgerInvStep, PTL DEF LedgerSpec

\* No row ever reserves more credit than its calls under way hold.
THEOREM CreditHeld == LedgerSpec => []CreditIsHeldByCalls
<1>1. LedgerInv => CreditIsHeldByCalls
  BY DEF LedgerInv
<1> QED
  BY <1>1, LedgerInvariant, PTL

\* A grant or a call is entered at most once for a user.
THEOREM EntriesAreUnique == LedgerSpec => []EnteredOnce
<1>1. LedgerInv => EnteredOnce
  BY DEF LedgerInv
<1> QED
  BY <1>1, LedgerInvariant, PTL

\* A charge stands only for a recorded call, and a completed call is recorded.
THEOREM ChargesAreRecorded == LedgerSpec => []ChargedIfRecorded
<1>1. LedgerInv => ChargedIfRecorded
  BY DEF LedgerInv
<1> QED
  BY <1>1, LedgerInvariant, PTL

-----------------------------------------------------------------------------
(***************************************************************************)
(* What a step may do.                                                     *)
(***************************************************************************)
LEMMA ExactStep ==
  ASSUME LedgerInv, [LedgerNext]_ledgerVars, Exact, ~(\E c \in Calls : RecordedLate(c))
  PROVE  Exact'
<1> USE DEF LedgerInv
<1> SUFFICES ASSUME NEW v \in Users, permission'[v].exists
             PROVE  permission'[v].reserved = Held(Live(v))'
  BY DEF Exact
<1>1. permission[v].exists => permission[v].reserved = Held(Live(v)) /\ permission[v].reserved \in Nat
  BY RowOf DEF Exact
<1>2. ASSUME NEW c \in Calls, NEW p \in Prices, Begin(c, p)
      PROVE  permission'[v].reserved = Held(Live(v))'
  <2>1. CASE v # Owner(c)
    BY <1>1, <1>2, <2>1, RowAfterBegin, HeldAfterBegin
  <2>2. CASE v = Owner(c)
    <3>1. permission[v].exists
      BY <1>2, <2>2, RowAfterBegin
    <3>2. permission'[v].reserved = Less(permission[v].reserved, Held(Lapsed(v))) + Cost(p, multiplier)
      BY <1>2, <2>2, RowAfterBegin
    <3>3. Held(Live(v))' = Held(Live(v)) - Held(Lapsed(v)) + Cost(p, multiplier)
      BY <1>2, <2>2, HeldAfterBegin
    <3>4. Less(Held(Live(v)), Held(Lapsed(v))) = Held(Live(v)) - Held(Lapsed(v))
      BY PartsOfHeld, LessFacts
    <3> QED
      BY <1>1, <3>1, <3>2, <3>3, <3>4, Zenon
  <2> QED
    BY <2>1, <2>2
<1>3. ASSUME NEW c \in Calls, NEW p \in Prices \cup {0}, Record(c, p)
      PROVE  permission'[v].reserved = Held(Live(v))'
  <2>1. /\ permission[v].exists
        /\ permission'[v].reserved = IF v = Owner(c) /\ Began(c)
                                     THEN Less(permission[v].reserved, requests[c].reserved)
                                     ELSE permission[v].reserved
    BY <1>3, RowAfterRecord
  <2>2. Held(Live(v))' = IF c \in Live(v) THEN Held(Live(v)) - requests[c].reserved
                         ELSE Held(Live(v))
    BY <1>3, HeldAfterRecord
  <2>3. CASE c \in Live(v)
    <3>1. v = Owner(c) /\ Began(c)
      BY <2>3 DEF Live, Owned, Began, NoRequest
    <3>2. Less(Held(Live(v)), requests[c].reserved) = Held(Live(v)) - requests[c].reserved
      BY <2>3, PartsOfHeld, LessFacts
    <3> QED
      BY <1>1, <2>1, <2>2, <2>3, <3>1, <3>2, Zenon
  <2>4. CASE c \notin Live(v)
    <3>1. ~(v = Owner(c) /\ Began(c))
      <4> SUFFICES ASSUME v = Owner(c), Began(c) PROVE FALSE
        OBVIOUS
      <4>1. requests[c] \in Request /\ requests[c].state # "reserved"
        BY <1>3, <2>4 DEF Began, Live, Owned, Record, LedgerTypeOK
      <4>2. requests'[c].state = "completed"
        BY <1>3, <4>1 DEF Record, LedgerTypeOK, Request
      <4>3. requests[c].state # "released"
        BY <4>2 DEF RecordedLate
      <4>4. requests[c].state # "completed"
        BY <1>3 DEF Record, NotRecorded, ChargedIfRecorded
      <4> QED
        BY <4>1, <4>3, <4>4 DEF Request
    <3> QED
      BY <1>1, <2>1, <2>2, <2>4, <3>1
  <2> QED
    BY <2>3, <2>4
<1>4. ASSUME ~Dealing
      PROVE  permission'[v].reserved = Held(Live(v))'
  <2>1. ~DeletePermission(v)
    BY DEF DeletePermission, LedgerTypeOK, NoRow
  <2>2. Live(v)' = Live(v) /\ Held(Live(v))' = Held(Live(v))
    BY <1>4, <2>1, LiveKept
  <2>3. CASE permission[v].exists /\ permission'[v].reserved = permission[v].reserved
    BY <1>1, <2>2, <2>3
  <2>4. CASE ~permission[v].exists /\ permission'[v].reserved = 0
    <3>1. Live(v) = {}
      BY <2>4 DEF NoRowNothingLive
    <3>2. UnitsOf(Reserved, {}) = {}
      BY DEF UnitsOf
    <3>3. Held({}) = 0
      BY <3>2, HeldIs, FS_EmptySet
    <3> QED
      BY <2>2, <2>4, <3>1, <3>3
  <2> QED
    BY <1>4, <2>1, <2>3, <2>4, RowsStep
<1> QED
  BY <1>2, <1>3, <1>4 DEF Dealing

\* A row reserves exactly what its calls hold until a call is recorded after
\* its reservation was released.
THEOREM ExactUntilThen == LedgerSpec => ExactUntilLateRecord
<1>1. LedgerInv /\ [LedgerNext]_ledgerVars =>
         [Exact => Exact' \/ \E c \in Calls : RecordedLate(c)]_ledgerVars
  BY ExactStep
<1> QED
  BY <1>1, LedgerInvariant, PTL DEF LedgerSpec, ExactUntilLateRecord

\* A balance stays, or an entry says by how much it moves and to what.
Explained(u) ==
    LET before == IF Balance(u) = NoBalance THEN 0 ELSE Balance(u)
        after == IF Balance(u)' = NoBalance THEN 0 ELSE Balance(u)'
    IN \/ after = before /\ Entries(u)' = Entries(u)
       \/ \E e \in Entries(u)' \ Entries(u) :
             /\ Entries(u)' = Entries(u) \cup {e}
             /\ e.amount = after - before /\ e.after = after

LEMMA BalanceStep ==
  ASSUME LedgerInv, [LedgerNext]_ledgerVars, NEW u \in Users,
         permission[u].exists, permission'[u].exists
  PROVE  Explained(u)
<1> USE DEF LedgerInv
<1>0. permission[u] \in Row /\ Balance(u) \in Int \cup {NoBalance}
  BY RowOf DEF Balance
<1>1. ASSUME Balance(u)' = Balance(u), Entries(u)' = Entries(u) PROVE Explained(u)
  BY <1>1 DEF Explained
<1>2. ASSUME NEW g \in Grant, GrantPost(g) PROVE Explained(u)
  <2> DEFINE e == [user |-> g.user, idem |-> g.idem, amount |-> g.amount,
                   after |-> Credited(g.user, g.amount)]
  <2>1. ledger' = ledger \cup {e} /\ ~Entered(g.user, g.idem)
    BY <1>2 DEF GrantPost, NewNow, Post
  <2>2. CASE u # g.user
    <3>1. Balance(u)' = Balance(u)
      BY <1>2, <2>2 DEF GrantPost, Balance, LedgerTypeOK
    <3>2. Entries(u)' = Entries(u)
      BY <2>1, <2>2 DEF Entries
    <3> QED
      BY <1>1, <3>1, <3>2
  <2>3. CASE u = g.user
    <3>1. e \notin ledger
      BY <2>1 DEF Entered, Entries
    <3>2. Entries(u)' = Entries(u) \cup {e} /\ e \in Entries(u)' \ Entries(u)
      BY <2>1, <2>3, <3>1 DEF Entries
    <3>3. Balance(u)' = Credited(g.user, g.amount)
      <4>1. permission'[u] = [permission[u] EXCEPT !.balance = Credited(g.user, g.amount)]
        BY <1>2, <2>3 DEF GrantPost, LedgerTypeOK
      <4> QED
        BY <1>0, <4>1 DEF Balance, Row
    <3>4. Credited(g.user, g.amount) = (IF Balance(u) = NoBalance THEN 0 ELSE Balance(u)) + g.amount
      BY <2>3 DEF Credited
    <3>5. g.amount \in Int /\ (IF Balance(u) = NoBalance THEN 0 ELSE Balance(u)) \in Int
      BY <1>0, GrantOf
    <3>6. \A b, a \in Int : b + a \in Int /\ a = b + a - b
      OBVIOUS
    <3>7. Credited(g.user, g.amount) # NoBalance
      BY <3>4, <3>5, <3>6, LedgerAssumption
    <3>8. e.amount = g.amount /\ e.after = Credited(g.user, g.amount)
      OBVIOUS
    <3>9. g.amount = Credited(g.user, g.amount) - (IF Balance(u) = NoBalance THEN 0 ELSE Balance(u))
      BY <3>4, <3>5, <3>6
    <3> HIDE DEF e
    <3>10. (IF Balance(u)' = NoBalance THEN 0 ELSE Balance(u)') = Credited(g.user, g.amount)
      BY <3>3, <3>7
    <3> QED
      BY <3>2, <3>8, <3>9, <3>10, Zenon DEF Explained
  <2> QED
    BY <2>2, <2>3
<1>3. ASSUME NEW c \in Calls, NEW p \in Prices \cup {0}, Record(c, p) PROVE Explained(u)
  <2> DEFINE charge == Charge(c, p)
             e == [user |-> Owner(c), idem |-> c, amount |-> -charge,
                   after |-> permission[Owner(c)].balance - charge]
  <2>1. charge \in Nat
    <3>1. Began(c) => requests[c] \in Request
      BY DEF Began, LedgerTypeOK
    <3> QED
      BY <3>1, CostIsNat DEF Charge, Request, LedgerTypeOK
  <2>2. ~Entered(Owner(c), c)
    BY <1>3 DEF Record, NotRecorded, ChargedIfRecorded, Entered, Entries
  <2>3. CASE u # Owner(c)
    <3>1. Balance(u)' = Balance(u)
      BY <1>3, <2>3 DEF Record, Balance, LedgerTypeOK
    <3>2. ledger' = ledger \/ ledger' = ledger \cup {e}
      BY <1>3 DEF Record, Post
    <3>3. e.user = Owner(c)
      OBVIOUS
    <3> HIDE DEF e
    <3>4. Entries(u)' = Entries(u)
      BY <2>3, <3>2, <3>3 DEF Entries
    <3> QED
      BY <1>1, <3>1, <3>4
  <2>4. CASE u = Owner(c)
    <3> DEFINE n == IF Began(c) THEN Less(permission[u].reserved, requests[c].reserved)
                    ELSE permission[u].reserved
               b == IF permission[u].balance # NoBalance /\ charge > 0
                    THEN permission[u].balance - charge ELSE permission[u].balance
    <3>1. permission'[u] = [permission[u] EXCEPT !.reserved = n, !.balance = b]
      BY <1>3, <2>4 DEF Record, Settled, LedgerTypeOK
    <3>2. Balance(u)' = b
      <4> HIDE DEF n, b
      <4> QED BY <1>0, <3>1 DEF Balance, Row
    <3>3. CASE Balance(u) # NoBalance /\ charge > 0
      <4>1. ledger' = ledger \cup {e}
        BY <1>3, <2>2, <2>4, <3>3 DEF Record, Post, Balance
      <4>2. e.user = Owner(c) /\ e.idem = c /\ e.amount = -charge /\ e.after = Balance(u) - charge
        BY <2>4 DEF Balance
      <4>3. Balance(u)' = Balance(u) - charge
        BY <3>2, <3>3 DEF Balance
      <4> HIDE DEF e, charge, b
      <4>4. Entries(u)' = Entries(u) \cup {e} /\ e \in Entries(u)' \ Entries(u)
        BY <2>2, <2>4, <4>1, <4>2 DEF Entries, Entered
      <4>5. \A x \in Int, k \in Nat : x - k \in Int /\ -k = (x - k) - x
        OBVIOUS
      <4>6. Balance(u) \in Int
        BY <1>0, <3>3
      <4>7. Balance(u) - charge # NoBalance /\ -charge = (Balance(u) - charge) - Balance(u)
        BY <2>1, <4>5, <4>6, LedgerAssumption
      <4>8. (IF Balance(u)' = NoBalance THEN 0 ELSE Balance(u)') = Balance(u) - charge
        BY <4>3, <4>7
      <4>9. (IF Balance(u) = NoBalance THEN 0 ELSE Balance(u)) = Balance(u)
        BY <3>3
      <4> QED
        BY <4>2, <4>4, <4>7, <4>8, <4>9, Zenon DEF Explained
    <3>4. CASE ~(Balance(u) # NoBalance /\ charge > 0)
      <4>1. Balance(u)' = Balance(u)
        BY <3>2, <3>4 DEF Balance
      <4>2. ledger' = ledger
        BY <1>3, <2>4, <3>4 DEF Record, Balance
      <4> QED
        BY <1>1, <4>1, <4>2 DEF Entries
    <3> QED
      BY <3>3, <3>4
  <2> QED
    BY <2>3, <2>4
<1>4. ASSUME NEW c \in Calls, NEW p \in Prices, Begin(c, p) PROVE Explained(u)
  <2>1. permission'[u] = permission[u] \/ permission'[u] =
           [permission[u] EXCEPT !.reserved = StillReserved(u) + Cost(p, multiplier)]
    BY <1>4 DEF Begin, LedgerTypeOK
  <2>2. Balance(u)' = Balance(u)
    BY <1>0, <2>1 DEF Balance, Row
  <2>3. ledger' = ledger
    BY <1>4 DEF Begin
  <2> QED
    BY <1>1, <2>2, <2>3 DEF Entries
<1>5. ASSUME NEW w \in Users, NEW on \in BOOLEAN, NEW n \in KeyLimits, SetPermission(w, on, n)
      PROVE  Explained(u)
  <2>1. permission'[u] = permission[u] \/ permission'[u] =
           [permission[u] EXCEPT !.enabled = on, !.maxKeys = n]
    BY <1>5 DEF SetPermission, LedgerTypeOK
  <2>2. Balance(u)' = Balance(u)
    BY <1>0, <2>1 DEF Balance, Row
  <2>3. ledger' = ledger
    BY <1>5 DEF SetPermission
  <2> QED
    BY <1>1, <2>2, <2>3 DEF Entries
<1>6. ASSUME NEW w \in Users, DeletePermission(w) PROVE Explained(u)
  <2>1. permission'[u] = permission[u]
    BY <1>6 DEF DeletePermission, LedgerTypeOK, NoRow
  <2>2. ledger' = ledger
    BY <1>6 DEF DeletePermission
  <2> QED
    BY <1>1, <2>1, <2>2 DEF Entries, Balance
<1>7. ASSUME permission' = permission, ledger' = ledger PROVE Explained(u)
  BY <1>1, <1>7 DEF Entries, Balance
<1> QED
  BY <1>2, <1>3, <1>4, <1>5, <1>6, <1>7 DEF LedgerNext, Administer, ledgerVars, SetMultiplier,
     CreateKey, RevokeKey, GrantLook, GrantRefused, Lapse

\* The balance of a user that keeps its row moves only with an entry that says
\* by how much and to what.
THEOREM BalanceIsExplained == LedgerSpec => BalanceMovesWithLedger
<1>1. LedgerInv /\ [LedgerNext]_ledgerVars =>
        [\A u \in Users : (permission[u].exists /\ permission'[u].exists) => Explained(u)]_ledgerVars
  BY BalanceStep
<1> QED
  BY <1>1, LedgerInvariant, PTL DEF LedgerSpec, BalanceMovesWithLedger, Explained

-----------------------------------------------------------------------------
TurnTypeOK ==
    /\ pc \in [Turns -> PC]
    /\ call \in [Turns -> Calls \cup {Master}]
    /\ leased \in [Turns -> Accounts \cup {NoAccount}]
    /\ tried \in [Turns -> SUBSET Accounts]
    /\ failure \in [Turns -> Status] /\ reply \in [Turns -> Status]
    /\ asked \in [Turns -> SUBSET Accounts] /\ empty \in [Turns -> SUBSET Accounts]
    /\ cut \in [Turns -> Unprotected \cup {"nowhere"}]
    /\ let \subseteq Turns /\ stray \subseteq Turns
    /\ unreleased \subseteq Turns /\ unrecorded \subseteq Turns
    /\ faults \in 0 .. MaxFaults
    /\ \A t \in Turns : /\ cut[t] # "nowhere" => pc[t] = "over"
                        /\ pc[t] = "dropping" => t \in unrecorded
    /\ \A t \in Turns : pc[t] \in {"tracking", "connecting", "sending", "prefetching"}
                            => leased[t] \in Accounts

\* What is recorded for a turn is recorded by the ledger's own action.
LEMMA RecordedMovesLedger ==
  ASSUME TurnTypeOK, NEW t \in Turns, NEW prices \in SUBSET (Prices \cup {0}), Recorded(t, prices)
  PROVE  [LedgerNext]_ledgerVars
<1>1. IsProject(t) => Mine(t) \in Calls
  BY DEF TurnTypeOK, IsProject, Mine
<1>2. ASSUME IsProject(t), NEW price \in prices, Record(Mine(t), price)
      PROVE  LedgerNext
  <2>1. Mine(t) \in Calls /\ price \in Prices \cup {0}
    BY <1>1, <1>2
  <2>2. \E p \in Prices \cup {0} : Record(Mine(t), p)
    BY <1>2, <2>1, Zenon
  <2> QED
    BY <2>1, <2>2, Zenon DEF LedgerNext
<1> QED
  BY <1>2 DEF Recorded

\* Every step of the gateway is a step of the ledger, or leaves it alone.
LEMMA LedgerStep ==
  ASSUME TurnTypeOK, [GatewayNext]_gatewayVars
  PROVE  [LedgerNext]_ledgerVars
<1>1. ASSUME NEW t \in Turns, Reject(t) PROVE [LedgerNext]_ledgerVars
  BY <1>1, RecordedMovesLedger DEF Reject
<1>2. ASSUME NEW t \in Turns, Settle(t) PROVE [LedgerNext]_ledgerVars
  BY <1>2, RecordedMovesLedger DEF Settle, Priced
<1>3. ASSUME NEW t \in Turns, Authorize(t) PROVE [LedgerNext]_ledgerVars
  <2>1. CASE IsProject(t)
    <3>1. Mine(t) \in Calls
      BY <2>1 DEF TurnTypeOK, IsProject, Mine
    <3> QED
      BY <1>3, <2>1, <3>1 DEF Authorize, LedgerNext
  <2>2. CASE ~IsProject(t)
    BY <1>3, <2>2 DEF Authorize
  <2> QED
    BY <2>1, <2>2
<1>4. ASSUME NEW t \in Turns, Step(t), ~Reject(t), ~Settle(t), ~Authorize(t)
      PROVE  UNCHANGED ledgerVars
  BY <1>4 DEF Step, Unauthorized, Refuse, Acquire, GiveUp, Track, Connect, Sent, Complete,
     Prefetched, Relay, RelayEnds, Finalize, Release
<1>5. ASSUME NEW t \in Turns, Arrive(t) \/ Trouble(t), ~Stray(t) PROVE UNCHANGED ledgerVars
  BY <1>5 DEF Arrive, Trouble, ConnectFails, SentSafely, SendFails, Cancelled, PrefetchEmpty,
     PrefetchFails, PrefetchCancelled, RelayCancelled, ReleaseFails, Cut
<1>8. ASSUME NEW t \in Turns, Stray(t) PROVE [LedgerNext]_ledgerVars
  <2>1. IsProject(t) => Mine(t) \in Calls
    BY DEF TurnTypeOK, IsProject, Mine
  <2>2. CASE StrayBegin(t)
    BY <2>1, <2>2 DEF StrayBegin, LedgerNext
  <2>3. CASE StrayRecord(t)
    <3>1. Mine(t) \in Calls
      BY <2>1, <2>3 DEF StrayRecord
    <3>2. PICK price \in Priced(t) : Record(Mine(t), price)
      BY <2>3 DEF StrayRecord
    <3>3. price \in Prices \cup {0}
      BY <3>2 DEF Priced
    <3>4. \E p \in Prices \cup {0} : Record(Mine(t), p)
      BY <3>2, <3>3, Zenon
    <3> QED
      BY <3>1, <3>4, Zenon DEF LedgerNext
  <2>4. CASE StrayRelease(t) \/ \E a \in Accounts : StrayAcquire(t, a)
    BY <2>4 DEF StrayRelease, StrayAcquire
  <2> QED
    BY <1>8, <2>2, <2>3, <2>4 DEF Stray
<1>6. CASE Surroundings
  BY <1>6 DEF Surroundings, LedgerNext
<1>7. CASE UNCHANGED gatewayVars
  BY <1>7 DEF gatewayVars
<1> QED
  BY <1>1, <1>2, <1>3, <1>4, <1>5, <1>6, <1>7, <1>8 DEF GatewayNext

\* A record is never lost and an identifier never forgotten.
LEMMA LedgerKeeps ==
  ASSUME LedgerTypeOK, [LedgerNext]_ledgerVars
  PROVE  /\ usage \subseteq usage'
         /\ \A c \in Calls : requests[c] # NoRequest => requests'[c] # NoRequest
<1>1. usage \subseteq usage'
  BY ZenonT(30) DEF LedgerNext, Administer, ledgerVars, SetMultiplier, SetPermission, DeletePermission,
     CreateKey, RevokeKey, GrantLook, GrantPost, GrantRefused, Lapse, Begin, Record
<1>2. ASSUME NEW c \in Calls, requests[c] # NoRequest PROVE requests'[c] # NoRequest
  <2>1. requests[c] \in Request
    BY <1>2 DEF LedgerTypeOK
  <2>2. \A r \in Request : /\ [r EXCEPT !.state = "released"] # NoRequest
                           /\ [r EXCEPT !.state = "completed"] # NoRequest
                           /\ [r EXCEPT !.lapsed = TRUE] # NoRequest
    BY DEF Request, NoRequest
  <2>3. ASSUME NEW u \in Users, DeletePermission(u) PROVE requests'[c] # NoRequest
    BY <1>2, <2>1, <2>2, <2>3 DEF DeletePermission, Released
  <2>4. ASSUME NEW d \in Calls, NEW p \in Prices, Begin(d, p) PROVE requests'[c] # NoRequest
    <3>1. d # c
      BY <1>2, <2>4 DEF Begin, Unused
    <3> QED
      BY <1>2, <2>1, <2>2, <2>4, <3>1 DEF Begin, Released
  <2>5. ASSUME NEW d \in Calls, NEW p \in Prices \cup {0}, Record(d, p) PROVE requests'[c] # NoRequest
    BY <1>2, <2>1, <2>2, <2>5 DEF Record, LedgerTypeOK
  <2>6. ASSUME NEW d \in Calls, Lapse(d) PROVE requests'[c] # NoRequest
    BY <1>2, <2>1, <2>2, <2>6 DEF Lapse, LedgerTypeOK
  <2>7. ASSUME requests' = requests PROVE requests'[c] # NoRequest
    BY <1>2, <2>7
  <2> QED
    BY ZenonT(30), <2>3, <2>4, <2>5, <2>6, <2>7 DEF LedgerNext, Administer, ledgerVars, SetMultiplier,
       SetPermission, CreateKey, RevokeKey, GrantLook, GrantPost, GrantRefused
<1> QED
  BY <1>1, <1>2

-----------------------------------------------------------------------------
(***************************************************************************)
(* Types.                                                                  *)
(***************************************************************************)
LEMMA TurnTypesInit == GatewayInit => TurnTypeOK
  BY TurnAssumption DEF GatewayInit, TurnTypeOK, PC, Status, Unprotected

LEMMA TurnTypesStep == TurnTypeOK /\ [GatewayNext]_gatewayVars => TurnTypeOK'
<1> SUFFICES ASSUME TurnTypeOK, [GatewayNext]_gatewayVars PROVE TurnTypeOK'
  OBVIOUS
<1> USE TurnAssumption DEF TurnTypeOK, PC, Status, Goto, Answer, Fault, TryNext, Pay, debtVars,
        After, Unprotected
<1>1. ASSUME NEW t \in Turns, Arrive(t) \/ Step(t) \/ Trouble(t) PROVE TurnTypeOK'
  <2>1. CASE Unauthorized(t)
    BY <2>1 DEF Unauthorized
  <2>2. CASE Reject(t)
    BY <2>2 DEF Reject, Recorded
  <2>3. CASE Authorize(t)
    <3>1. /\ pc' = [pc EXCEPT ![t] = "trying"] /\ let' = let \cup {t}
          /\ pc[t] = "arrived"
          /\ UNCHANGED <<call, leased, tried, failure, reply, asked, empty, cut, stray,
                         unreleased, unrecorded, faults>>
      BY <2>3 DEF Authorize
    <3> QED
      BY <3>1
  <2>4. CASE Refuse(t)
    BY <2>4 DEF Refuse, Refusal
  <2>5. CASE \E a \in Accounts : Acquire(t, a)
    BY <2>5 DEF Acquire
  <2>6. CASE GiveUp(t)
    BY <2>6 DEF GiveUp
  <2>7. CASE Track(t)
    BY <2>7 DEF Track
  <2>8. CASE Connect(t)
    BY <2>8 DEF Connect
  <2>9. CASE Sent(t)
    BY <2>9 DEF Sent
  <2>10. CASE Complete(t)
    BY <2>10 DEF Complete
  <2>11. CASE Prefetched(t)
    BY <2>11 DEF Prefetched
  <2>12. CASE Relay(t)
    BY <2>12 DEF Relay
  <2>13. CASE RelayEnds(t)
    BY <2>13 DEF RelayEnds
  <2>14. CASE Finalize(t)
    BY <2>14 DEF Finalize
  <2>15. CASE Settle(t)
    BY <2>15 DEF Settle, Recorded
  <2>16. CASE Arrive(t)
    BY <2>16 DEF Arrive
  <2>17. CASE ConnectFails(t)
    BY <2>17 DEF ConnectFails
  <2>18. CASE SentSafely(t)
    BY <2>18 DEF SentSafely
  <2>19. CASE SendFails(t)
    BY <2>19 DEF SendFails
  <2>20. CASE Cancelled(t)
    BY <2>20 DEF Cancelled
  <2>21. CASE PrefetchEmpty(t)
    BY <2>21 DEF PrefetchEmpty
  <2>22. CASE PrefetchFails(t)
    BY <2>22 DEF PrefetchFails
  <2>23. CASE PrefetchCancelled(t)
    BY <2>23 DEF PrefetchCancelled
  <2>24. CASE RelayCancelled(t)
    BY <2>24 DEF RelayCancelled
  <2>25. CASE Cut(t)
    BY <2>25 DEF Cut
  <2>26. CASE Release(t)
    BY <2>26 DEF Release
  <2>27. CASE ReleaseFails(t)
    BY <2>27 DEF ReleaseFails
  <2>28. CASE Stray(t)
    BY <2>28 DEF Stray, StrayBegin, StrayAcquire, StrayRelease, StrayRecord
  <2> QED
    BY <1>1, <2>1, <2>2, <2>3, <2>4, <2>5, <2>6, <2>7, <2>8, <2>9, <2>10, <2>11, <2>12, <2>13,
        <2>14, <2>15, <2>16, <2>17, <2>18, <2>19, <2>20, <2>21, <2>22, <2>23, <2>24, <2>25,
        <2>26, <2>27, <2>28
       DEF Step, Trouble
<1>2. CASE Surroundings
  BY <1>2 DEF Surroundings, turnVars
<1>3. CASE UNCHANGED gatewayVars
  BY <1>3 DEF gatewayVars, turnVars
<1> QED
  BY <1>1, <1>2, <1>3 DEF GatewayNext

LEMMA GatewayTypes == GatewaySpec => [](LedgerInv /\ TurnTypeOK)
<1>1. GatewayInit => LedgerInv /\ TurnTypeOK
  BY LedgerInvInit, TurnTypesInit DEF GatewayInit
<1>2. (LedgerInv /\ TurnTypeOK) /\ [GatewayNext]_gatewayVars => (LedgerInv /\ TurnTypeOK)'
  BY LedgerStep, LedgerInvStep, TurnTypesStep
<1> QED
  BY <1>1, <1>2, PTL DEF GatewaySpec

\* The gateway moves the ledger only as the ledger's specification says: it
\* implements ProjectLedger.
THEOREM GatewayImplementsLedger == GatewaySpec => LedgerSpec
<1>1. GatewayInit => LedgerInit
  BY DEF GatewayInit
<1>2. TurnTypeOK /\ [GatewayNext]_gatewayVars => [LedgerNext]_ledgerVars
  BY LedgerStep
<1> QED
  BY <1>1, <1>2, GatewayTypes, PTL DEF GatewaySpec, LedgerSpec

\* Every variable of the gateway keeps its type.
THEOREM GatewayTypeCorrect == GatewaySpec => []GatewayTypeOK
<1>1. LedgerInv /\ TurnTypeOK => GatewayTypeOK
  BY DEF LedgerInv, TurnTypeOK, GatewayTypeOK
<1> QED
  BY <1>1, GatewayTypes, PTL

-----------------------------------------------------------------------------
(***************************************************************************)
(* The lease.                                                              *)
(***************************************************************************)
\* At these places a turn holds none.
NoLeaseHere ==
    \A t \in Turns :
        /\ pc[t] \in {"idle", "arrived", "trying"} => leased[t] = NoAccount
        /\ pc[t] = "settling" => leased[t] = NoAccount \/ t \in unreleased
        /\ cut[t] = "trying" /\ t \in stray => leased[t] = NoAccount

LeaseInv == NoLeaseHere /\ LeaseGivenBack

LEMMA LeaseInvStep == LeaseInv /\ TurnTypeOK /\ [GatewayNext]_gatewayVars => LeaseInv'
<1> SUFFICES ASSUME LeaseInv, TurnTypeOK, [GatewayNext]_gatewayVars PROVE LeaseInv'
  OBVIOUS
<1> USE DEF LeaseInv, NoLeaseHere, LeaseGivenBack, TurnTypeOK, PC, Goto, TryNext, Pay, debtVars,
        After, Unprotected
<1>1. ASSUME NEW t \in Turns, Arrive(t) \/ Step(t) \/ Trouble(t) PROVE LeaseInv'
  <2>1. CASE Unauthorized(t)
    BY <2>1 DEF Unauthorized
  <2>2. CASE Reject(t)
    BY <2>2 DEF Reject, Recorded
  <2>3. CASE Authorize(t)
    BY <2>3 DEF Authorize
  <2>4. CASE Refuse(t)
    BY <2>4 DEF Refuse, Refusal
  <2>5. CASE \E a \in Accounts : Acquire(t, a)
    BY <2>5 DEF Acquire
  <2>6. CASE GiveUp(t)
    BY <2>6 DEF GiveUp
  <2>7. CASE Track(t)
    BY <2>7 DEF Track
  <2>8. CASE Connect(t)
    BY <2>8 DEF Connect
  <2>9. CASE Sent(t)
    BY <2>9 DEF Sent
  <2>10. CASE Complete(t)
    BY <2>10 DEF Complete
  <2>11. CASE Prefetched(t)
    BY <2>11 DEF Prefetched
  <2>12. CASE Relay(t)
    BY <2>12 DEF Relay
  <2>13. CASE RelayEnds(t)
    BY <2>13 DEF RelayEnds
  <2>14. CASE Finalize(t)
    BY <2>14 DEF Finalize
  <2>15. CASE Settle(t)
    BY <2>15 DEF Settle, Recorded
  <2>16. CASE Arrive(t)
    BY <2>16 DEF Arrive
  <2>17. CASE ConnectFails(t)
    BY <2>17 DEF ConnectFails
  <2>18. CASE SentSafely(t)
    BY <2>18 DEF SentSafely
  <2>19. CASE SendFails(t)
    BY <2>19 DEF SendFails
  <2>20. CASE Cancelled(t)
    BY <2>20 DEF Cancelled
  <2>21. CASE PrefetchEmpty(t)
    BY <2>21 DEF PrefetchEmpty
  <2>22. CASE PrefetchFails(t)
    BY <2>22 DEF PrefetchFails
  <2>23. CASE PrefetchCancelled(t)
    BY <2>23 DEF PrefetchCancelled
  <2>24. CASE RelayCancelled(t)
    BY <2>24 DEF RelayCancelled
  <2>25. CASE Cut(t)
    BY <2>25 DEF Cut
  <2>26. CASE Release(t)
    BY <2>26 DEF Release
  <2>27. CASE ReleaseFails(t)
    BY <2>27 DEF ReleaseFails
  <2>28. CASE Stray(t)
    BY <2>28 DEF Stray, StrayBegin, StrayAcquire, StrayRelease, StrayRecord
  <2> QED
    BY <1>1, <2>1, <2>2, <2>3, <2>4, <2>5, <2>6, <2>7, <2>8, <2>9, <2>10, <2>11, <2>12, <2>13,
        <2>14, <2>15, <2>16, <2>17, <2>18, <2>19, <2>20, <2>21, <2>22, <2>23, <2>24, <2>25,
        <2>26, <2>27, <2>28
       DEF Step, Trouble
<1>2. CASE Surroundings
  BY <1>2 DEF Surroundings, turnVars
<1>3. CASE UNCHANGED gatewayVars
  BY <1>3 DEF gatewayVars, turnVars
<1> QED
  BY <1>1, <1>2, <1>3 DEF GatewayNext

\* A turn that is over holds no lease, unless it was stopped where nothing
\* protects it.
THEOREM LeasesAreGivenBack == GatewaySpec => []LeaseGivenBack
<1>1. GatewayInit => LeaseInv
  BY DEF GatewayInit, LeaseInv, NoLeaseHere, LeaseGivenBack
<1>2. LeaseInv => LeaseGivenBack
  BY DEF LeaseInv
<1> QED
  BY <1>1, <1>2, LeaseInvStep, GatewayTypes, PTL DEF GatewaySpec

\* The count of the instance is the count of sets.
LEMMA SlotCounts == \A S : Slotted!Cardinality(S) = Cardinality(S)
  BY DEF Slotted!Cardinality, Cardinality

\* A step of one turn gets it a free slot, or leaves it what it had or nothing.
LEMMA SlotsOfTurn ==
  ASSUME NoLeaseHere, TurnTypeOK, NEW t \in Turns, Arrive(t) \/ Step(t) \/ Trouble(t)
  PROVE  Slotted!Next
<1>1. ASSUME leased' = leased \/ leased' = [leased EXCEPT ![t] = NoAccount]
      PROVE  Slotted!Next
  <2>1. DOMAIN leased' = Turns /\ \A s \in Turns : leased'[s] \in {leased[s], NoAccount}
    BY <1>1 DEF TurnTypeOK
  <2> QED
    BY <2>1 DEF Slotted!Next, Slotted!GiveBack
<1>7. ASSUME NEW a \in Accounts, leased[t] = NoAccount, Free(a), leased' = [leased EXCEPT ![t] = a]
      PROVE  Slotted!Next
  <2>1. Slotted!Cardinality(Slotted!Taken(a)) < Slots[a]
    <3>1. Slotted!Taken(a) = Taken(a)
      BY DEF Slotted!Taken, Taken
    <3> QED
      BY <1>7, <3>1, SlotCounts DEF Free
  <2>2. \A s \in [u \in Turns |-> {}][t] : leased[s] = NoAccount
    OBVIOUS
  <2> QED
    BY <1>7, <2>1, <2>2 DEF Slotted!Next, Slotted!Grant
<1>2. ASSUME NEW a \in Accounts, Acquire(t, a) PROVE Slotted!Next
  <2>1. leased[t] = NoAccount
    BY <1>2 DEF Acquire, NoLeaseHere
  <2> QED
    BY <1>2, <1>7, <2>1 DEF Acquire
<1>3. CASE \/ Arrive(t) \/ Unauthorized(t) \/ Reject(t) \/ Authorize(t) \/ Refuse(t)
           \/ GiveUp(t) \/ Track(t) \/ Connect(t) \/ Sent(t) \/ Prefetched(t) \/ Relay(t)
           \/ RelayEnds(t) \/ Settle(t) \/ Cut(t) \/ ReleaseFails(t) \/ PrefetchCancelled(t)
           \/ RelayCancelled(t)
  <2>1. leased' = leased
    BY <1>3 DEF Arrive, Unauthorized, Reject, Authorize, Refuse, GiveUp, Track, Connect, Sent,
       Prefetched, Relay, RelayEnds, Settle, Cut, ReleaseFails, PrefetchCancelled, RelayCancelled
  <2> QED
    BY <1>1, <2>1
<1>4. CASE \/ Complete(t) \/ Finalize(t) \/ SendFails(t) \/ Cancelled(t) \/ PrefetchFails(t)
           \/ ConnectFails(t) \/ SentSafely(t) \/ PrefetchEmpty(t)
  <2>1. leased' = leased
    BY <1>4 DEF Complete, Finalize, SendFails, Cancelled, PrefetchFails,
       ConnectFails, SentSafely, PrefetchEmpty, Pay, TryNext
  <2> QED
    BY <1>1, <2>1
<1>5. CASE Release(t)
  BY <1>1, <1>5 DEF Release
<1>6. CASE Stray(t)
  <2>1. CASE StrayBegin(t) \/ StrayRecord(t) \/ StrayRelease(t)
    BY <1>1, <2>1 DEF StrayBegin, StrayRecord, StrayRelease
  <2>2. ASSUME NEW a \in Accounts, StrayAcquire(t, a) PROVE Slotted!Next
    <3>1. leased[t] = NoAccount
      BY <1>6, <2>2 DEF Stray, StrayAcquire, NoLeaseHere
    <3> QED
      BY <1>7, <2>2, <3>1 DEF StrayAcquire
  <2> QED
    BY <1>6, <2>1, <2>2 DEF Stray
<1> QED
  BY <1>2, <1>3, <1>4, <1>5, <1>6 DEF Step, Trouble

\* However the attempts of the turns interleave, fail over and are cut off,
\* their leases are those of SlotLeases, for any number of turns and accounts:
\* it is what the gateway asks of the pool, and what the pool provides.
THEOREM GatewayUsesLeases == GatewaySpec => UsesSlots
<1>1. GatewayInit => Slotted!Init
  BY DEF GatewayInit, Slotted!Init
<1>2. NoLeaseHere /\ TurnTypeOK /\ [GatewayNext]_gatewayVars => [Slotted!Next]_leased
  BY SlotsOfTurn DEF GatewayNext, Surroundings, gatewayVars, turnVars
<1>3. GatewayInit => LeaseInv
  BY DEF GatewayInit, LeaseInv, NoLeaseHere, LeaseGivenBack
<1>4. LeaseInv => NoLeaseHere
  BY DEF LeaseInv
<1> QED
  BY <1>1, <1>2, <1>3, <1>4, LeaseInvStep, GatewayTypes, PTL DEF GatewaySpec, UsesSlots, Slotted!Spec

-----------------------------------------------------------------------------
(***************************************************************************)
(* The accounts that are asked.                                            *)
(***************************************************************************)
AskInv ==
    \A t \in Turns :
        /\ pc[t] \in {"idle", "arrived", "trying", "tracking", "connecting"} => asked[t] \subseteq empty[t]
        /\ pc[t] = "retreating" => asked[t] \subseteq empty[t]
        /\ pc[t] \in {"sending", "prefetching"} => asked[t] \ {leased[t]} \subseteq empty[t]

LEMMA AskInvStep == AskInv /\ TurnTypeOK /\ [GatewayNext]_gatewayVars => AskInv'
<1> SUFFICES ASSUME AskInv, TurnTypeOK, [GatewayNext]_gatewayVars PROVE AskInv'
  OBVIOUS
<1> USE DEF AskInv, TurnTypeOK, PC, Goto, TryNext, Pay, debtVars, After
<1>1. ASSUME NEW t \in Turns, Arrive(t) \/ Step(t) \/ Trouble(t) PROVE AskInv'
  <2>1. CASE Unauthorized(t)
    BY <2>1 DEF Unauthorized
  <2>2. CASE Reject(t)
    BY <2>2 DEF Reject, Recorded
  <2>3. CASE Authorize(t)
    BY <2>3 DEF Authorize
  <2>4. CASE Refuse(t)
    BY <2>4 DEF Refuse, Refusal
  <2>5. CASE \E a \in Accounts : Acquire(t, a)
    BY <2>5 DEF Acquire
  <2>6. CASE GiveUp(t)
    BY <2>6 DEF GiveUp
  <2>7. CASE Track(t)
    BY <2>7 DEF Track
  <2>8. CASE Connect(t)
    BY <2>8 DEF Connect
  <2>9. CASE Sent(t)
    BY <2>9 DEF Sent
  <2>10. CASE Complete(t)
    BY <2>10 DEF Complete
  <2>11. CASE Prefetched(t)
    BY <2>11 DEF Prefetched
  <2>12. CASE Relay(t)
    BY <2>12 DEF Relay
  <2>13. CASE RelayEnds(t)
    BY <2>13 DEF RelayEnds
  <2>14. CASE Finalize(t)
    BY <2>14 DEF Finalize
  <2>15. CASE Settle(t)
    BY <2>15 DEF Settle, Recorded
  <2>16. CASE Arrive(t)
    BY <2>16 DEF Arrive
  <2>17. CASE ConnectFails(t)
    BY <2>17 DEF ConnectFails
  <2>18. CASE SentSafely(t)
    BY <2>18 DEF SentSafely
  <2>19. CASE SendFails(t)
    BY <2>19 DEF SendFails
  <2>20. CASE Cancelled(t)
    BY <2>20 DEF Cancelled
  <2>21. CASE PrefetchEmpty(t)
    BY <2>21 DEF PrefetchEmpty
  <2>22. CASE PrefetchFails(t)
    BY <2>22 DEF PrefetchFails
  <2>23. CASE PrefetchCancelled(t)
    BY <2>23 DEF PrefetchCancelled
  <2>24. CASE RelayCancelled(t)
    BY <2>24 DEF RelayCancelled
  <2>25. CASE Cut(t)
    BY <2>25 DEF Cut
  <2>26. CASE Release(t)
    BY <2>26 DEF Release
  <2>27. CASE ReleaseFails(t)
    BY <2>27 DEF ReleaseFails
  <2>28. CASE Stray(t)
    BY <2>28 DEF Stray, StrayBegin, StrayAcquire, StrayRelease, StrayRecord
  <2> QED
    BY <1>1, <2>1, <2>2, <2>3, <2>4, <2>5, <2>6, <2>7, <2>8, <2>9, <2>10, <2>11, <2>12, <2>13,
        <2>14, <2>15, <2>16, <2>17, <2>18, <2>19, <2>20, <2>21, <2>22, <2>23, <2>24, <2>25,
        <2>26, <2>27, <2>28
       DEF Step, Trouble
<1>2. CASE Surroundings
  BY <1>2 DEF Surroundings, turnVars
<1>3. CASE UNCHANGED gatewayVars
  BY <1>3 DEF gatewayVars, turnVars
<1> QED
  BY <1>1, <1>2, <1>3 DEF GatewayNext

\* No prompt that an account may have begun to work on is sent to another,
\* but after an empty stream.
THEOREM PromptsAreNotRepeated == GatewaySpec => []AskedAgainOnlyIfEmpty
<1>1. GatewayInit => AskInv
  BY DEF GatewayInit, AskInv
<1>2. AskInv => AskedAgainOnlyIfEmpty
  BY DEF AskInv, AskedAgainOnlyIfEmpty
<1> QED
  BY <1>1, <1>2, AskInvStep, GatewayTypes, PTL DEF GatewaySpec

-----------------------------------------------------------------------------
(***************************************************************************)
(* The call.                                                               *)
(***************************************************************************)
\* A call that was let through has its identifier taken.
LetIsBegun ==
    \A t \in let : /\ pc[t] \notin {"idle", "arrived"}
                   /\ IsProject(t) => requests[Mine(t)] # NoRequest

LetInv == LetIsBegun /\ LetOnce /\ LetMeansRecorded

LEMMA LetInvStep ==
  LetInv /\ LedgerTypeOK /\ TurnTypeOK /\ [GatewayNext]_gatewayVars => LetInv'
<1> SUFFICES ASSUME LetInv, LedgerTypeOK, TurnTypeOK, [GatewayNext]_gatewayVars PROVE LetInv'
  OBVIOUS
<1> USE DEF LetInv, LetIsBegun, LetOnce, LetMeansRecorded, IsProject, Mine, debtVars
<1>1. /\ usage \subseteq usage'
      /\ \A c \in Calls : requests[c] # NoRequest => requests'[c] # NoRequest
  BY LedgerStep, LedgerKeeps
<1>2. \A t \in Turns : call[t] # Master => call[t] \in Calls
  BY DEF TurnTypeOK
\* Steps that let nothing through and end nothing that was let through.
<1>3. ASSUME NEW t \in Turns, let' = let, unrecorded \subseteq unrecorded',
             \A s \in Turns : cut[s] # "nowhere" => cut'[s] # "nowhere",
             \A s \in Turns : s # t => pc'[s] = pc[s], pc'[t] \notin {"idle", "arrived"},
             \A s \in let : call'[s] = call[s],
             pc'[t] = "over" => t \notin let \/ cut'[t] # "nowhere" \/ t \in unrecorded'
                                 \/ call[t] = Master \/ call[t] \in usage'
      PROVE  LetInv'
  <2>1. LetIsBegun'
    BY <1>1, <1>2, <1>3 DEF TurnTypeOK
  <2>2. LetOnce'
    BY <1>3
  <2>3. LetMeansRecorded'
    BY <1>1, <1>3 DEF TurnTypeOK
  <2> QED
    BY <2>1, <2>2, <2>3
<1>4. ASSUME NEW t \in Turns, Arrive(t) PROVE LetInv'
  <2>1. t \notin let /\ let' = let /\ cut' = cut /\ unrecorded' = unrecorded
    BY <1>4 DEF Arrive
  <2>2. \A s \in Turns : s # t => pc'[s] = pc[s] /\ call'[s] = call[s]
    BY <1>4 DEF Arrive, Goto, TurnTypeOK
  <2>3. pc'[t] = "arrived"
    BY <1>4 DEF Arrive, Goto, TurnTypeOK
  <2>4. \A s \in let : s \in Turns /\ s # t
    BY <2>1 DEF TurnTypeOK
  <2>5. LetIsBegun'
    BY <1>1, <1>2, <2>1, <2>2, <2>4
  <2>6. LetOnce'
    BY <2>1, <2>2, <2>4
  <2>7. LetMeansRecorded'
    BY <1>1, <2>1, <2>2, <2>3, <2>4
  <2> QED
    BY <2>5, <2>6, <2>7
<1>5. ASSUME NEW t \in Turns, Authorize(t) PROVE LetInv'
  <2>1. /\ let' = let \cup {t} /\ call' = call /\ cut' = cut /\ unrecorded' = unrecorded
        /\ pc[t] = "arrived" /\ pc' = [pc EXCEPT ![t] = "trying"]
    BY <1>5 DEF Authorize, Goto
  <2>2. IsProject(t) => requests[Mine(t)] = NoRequest /\ requests'[Mine(t)] # NoRequest
    <3> SUFFICES ASSUME IsProject(t)
                 PROVE  requests[Mine(t)] = NoRequest /\ requests'[Mine(t)] # NoRequest
      OBVIOUS
    <3>1. PICK price \in Prices : Begin(Mine(t), price)
      BY <1>5 DEF Authorize
    <3>2. requests[Mine(t)] = NoRequest
      BY <3>1 DEF Begin, Unused
    <3>3. requests'[Mine(t)].state = "reserved"
      <4>1. Mine(t) \in Calls
        BY <1>2
      <4> QED
        BY <3>1, <4>1 DEF Begin
    <3> QED
      BY <3>2, <3>3 DEF NoRequest
  <2>3. LetIsBegun'
    BY <1>1, <1>2, <2>1, <2>2 DEF TurnTypeOK
  <2>4. LetOnce'
    BY <2>1, <2>2 DEF TurnTypeOK
  <2>5. LetMeansRecorded'
    BY <1>1, <2>1 DEF TurnTypeOK
  <2> QED
    BY <2>3, <2>4, <2>5
<1>6. ASSUME NEW t \in Turns, Unauthorized(t) \/ Refuse(t) \/ Reject(t) PROVE LetInv'
  <2>1. /\ t \notin let /\ let' = let /\ call' = call /\ cut' = cut
        /\ unrecorded \subseteq unrecorded' /\ pc' = [pc EXCEPT ![t] = "over"]
    BY <1>6 DEF Unauthorized, Refuse, Reject, Recorded, Goto
  <2> QED
    BY <1>3, <2>1 DEF TurnTypeOK
<1>7. ASSUME NEW t \in Turns, Settle(t) PROVE LetInv'
  <2>1. /\ let' = let /\ call' = call /\ cut' = cut
        /\ unrecorded \subseteq unrecorded' /\ pc' = [pc EXCEPT ![t] = "over"]
    BY <1>7 DEF Settle, Recorded, Goto
  <2>2. call[t] = Master \/ call[t] \in usage' \/ t \in unrecorded'
    BY <1>7 DEF Settle, Recorded, Record, ledgerVars
  <2> QED
    BY <1>3, <2>1, <2>2 DEF TurnTypeOK
<1>8. ASSUME NEW t \in Turns, Cut(t) PROVE LetInv'
  <2>1. /\ let' = let /\ call' = call /\ unrecorded' = unrecorded
        /\ pc[t] # "nowhere" /\ cut' = [cut EXCEPT ![t] = pc[t]]
        /\ pc' = [pc EXCEPT ![t] = "over"]
    BY <1>8 DEF Cut, Goto, Unprotected, After
  <2> QED
    BY <1>3, <2>1 DEF TurnTypeOK
<1>11. ASSUME NEW t \in Turns, PrefetchCancelled(t) \/ ReleaseFails(t) PROVE LetInv'
  <2>1. /\ let' = let /\ call' = call /\ cut' = cut /\ unrecorded \subseteq unrecorded'
        /\ \E label \in {"dropping", "settling", "over"} : pc' = [pc EXCEPT ![t] = label]
        /\ pc'[t] = "over" => t \in unrecorded'
    BY <1>11 DEF PrefetchCancelled, ReleaseFails, Goto, TurnTypeOK
  <2> QED
    BY <1>3, <2>1 DEF TurnTypeOK
<1>12. ASSUME NEW t \in Turns, Release(t) PROVE LetInv'
  <2>1. /\ let' = let /\ call' = call /\ cut' = cut /\ unrecorded' = unrecorded
        /\ pc' = [pc EXCEPT ![t] = After[pc[t]]] /\ pc[t] \in DOMAIN After
    BY <1>12 DEF Release, Goto, debtVars
  <2>2. After[pc[t]] \in {"settling", "trying", "over"} /\ (After[pc[t]] = "over" => pc[t] = "dropping")
    BY <2>1 DEF After
  <2>3. pc'[t] = "over" => t \in unrecorded
    BY <2>1, <2>2 DEF TurnTypeOK
  <2> QED
    BY <1>3, <2>1, <2>2, <2>3 DEF TurnTypeOK
<1>13. ASSUME NEW t \in Turns, Stray(t) PROVE LetInv'
  <2>1. /\ call' = call /\ cut' = cut /\ unrecorded' = unrecorded /\ pc' = pc
    BY <1>13 DEF Stray
  <2>2. CASE StrayBegin(t)
    <3>1. /\ let' = let \cup {t} /\ cut[t] # "nowhere" /\ pc[t] = "over" /\ Mine(t) \in Calls
          /\ \E price \in Prices : Begin(Mine(t), price)
      BY <1>2, <2>2 DEF StrayBegin, TurnTypeOK
    <3>2. requests[Mine(t)] = NoRequest
      BY <3>1 DEF Begin, Unused
    <3>3. requests'[Mine(t)].state = "reserved"
      BY <3>1 DEF Begin
    <3>4. requests'[Mine(t)] # NoRequest
      BY <3>3 DEF NoRequest
    <3>5. LetIsBegun'
      BY <1>1, <1>2, <2>1, <3>1, <3>4 DEF TurnTypeOK
    <3>6. LetOnce'
      BY <2>1, <3>1, <3>2 DEF TurnTypeOK
    <3>7. LetMeansRecorded'
      BY <1>1, <2>1, <3>1 DEF TurnTypeOK
    <3> QED
      BY <3>5, <3>6, <3>7
  <2>3. CASE let' = let
    BY <1>1, <1>2, <2>1, <2>3 DEF TurnTypeOK
  <2> QED
    BY <1>13, <2>2, <2>3 DEF Stray, StrayRelease, StrayRecord, StrayAcquire
<1>9. ASSUME NEW t \in Turns, Step(t) \/ Trouble(t),
             ~(Authorize(t) \/ Unauthorized(t) \/ Refuse(t) \/ Reject(t) \/ Settle(t)
                 \/ Cut(t) \/ PrefetchCancelled(t) \/ ReleaseFails(t) \/ Release(t) \/ Stray(t))
      PROVE  LetInv'
  <2>1. /\ let' = let /\ call' = call /\ cut' = cut /\ unrecorded' = unrecorded
        /\ \E label \in PC \ {"idle", "arrived", "over"} : pc' = [pc EXCEPT ![t] = label]
    <3>1. CASE \/ (\E a \in Accounts : Acquire(t, a)) \/ GiveUp(t) \/ Track(t) \/ Connect(t)
               \/ Sent(t) \/ Prefetched(t) \/ Relay(t) \/ RelayEnds(t)
      BY <3>1 DEF Acquire, GiveUp, Track, Connect, Sent, Prefetched, Relay, RelayEnds, Goto, PC,
         debtVars
    <3>2. CASE Complete(t) \/ Finalize(t) \/ SendFails(t) \/ Cancelled(t) \/ PrefetchFails(t)
               \/ RelayCancelled(t)
      BY <3>2 DEF Complete, Finalize, SendFails, Cancelled, PrefetchFails, RelayCancelled,
         Pay, Goto, PC, debtVars
    <3>3. CASE ConnectFails(t) \/ SentSafely(t) \/ PrefetchEmpty(t)
      BY <3>3 DEF ConnectFails, SentSafely, PrefetchEmpty, TryNext, Goto, PC, debtVars
    <3> QED
      BY <1>9, <3>1, <3>2, <3>3 DEF Step, Trouble
  <2> QED
    BY <1>3, <2>1 DEF TurnTypeOK
<1>10. ASSUME UNCHANGED turnVars PROVE LetInv'
  BY <1>1, <1>2, <1>10 DEF turnVars, debtVars, TurnTypeOK
<1> QED
  BY <1>4, <1>5, <1>6, <1>7, <1>8, <1>9, <1>10, <1>11, <1>12, <1>13
     DEF GatewayNext, Surroundings, gatewayVars

LEMMA LetInvariant == GatewaySpec => []LetInv
<1>1. GatewayInit => LetInv
  BY DEF GatewayInit, LetInv, LetIsBegun, LetOnce, LetMeansRecorded
<1>2. LedgerInv => LedgerTypeOK
  BY DEF LedgerInv
<1> QED
  BY <1>1, <1>2, LetInvStep, GatewayTypes, PTL DEF GatewaySpec

\* One turn at most is let through for a call.
THEOREM CallsAreLetOnce == GatewaySpec => []LetOnce
<1>1. LetInv => LetOnce
  BY DEF LetInv
<1> QED
  BY <1>1, LetInvariant, PTL

\* A call that was let through is recorded when its turn is over.
THEOREM LetCallsAreRecorded == GatewaySpec => []LetMeansRecorded
<1>1. LetInv => LetMeansRecorded
  BY DEF LetInv
<1> QED
  BY <1>1, LetInvariant, PTL

\* A turn that is over owes no lease and no record, for any number of turns,
\* calls, accounts and failures, but at the places DebtsPaid lists.
THEOREM DebtsArePaid == GatewaySpec => []DebtsPaid
<1>1. LeaseGivenBack /\ LetMeansRecorded => DebtsPaid
  BY DEF DebtsPaid
<1> QED
  BY <1>1, LeasesAreGivenBack, LetCallsAreRecorded, PTL

\* A call is let through once, charged once, and charged only with its record:
\* the first is the gateway's, the others are the ledger's that it implements.
THEOREM CallsArePaidOnce == GatewaySpec => []PaidOnce
<1>1. LetOnce /\ EnteredOnce /\ ChargedIfRecorded => PaidOnce
  BY DEF PaidOnce
<1> QED
  BY <1>1, CallsAreLetOnce, EntriesAreUnique, ChargesAreRecorded, GatewayImplementsLedger, PTL
=============================================================================
