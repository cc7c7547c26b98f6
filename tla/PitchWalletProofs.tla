-------------------------- MODULE PitchWalletProofs --------------------------
(* Proofs about the pitch credit engine: whatever its callers do, in        *)
(* whatever order, a balance never goes below zero, the wallet equals the   *)
(* sum of its ledger, and no credit is created or destroyed.  And about the *)
(* orders that buy credits: whoever completes one, its owner gets them.     *)
EXTENDS PitchWallet, Orders, TLAPS

-----------------------------------------------------------------------------
(* Lemmas about the building blocks *)

\* A new ledger row keeps the ledger well typed and the id recorded is one.
LEMMA RecordType ==
  ASSUME WalletTypeOK, NEW u \in User, NEW type \in LedgerType, NEW amount \in Nat,
         NEW reference \in Reference, Record(u, type, amount, reference)
  PROVE  /\ ledger' \in [User -> [LedgerType -> Nat]]
         /\ references' \subseteq Reference
<1>1. ledger[u] \in [LedgerType -> Nat] /\ ledger[u][type] + amount \in Nat
  BY DEF WalletTypeOK
<1>2. ledger' \in [User -> [LedgerType -> Nat]]
  BY <1>1 DEF WalletTypeOK, Record
<1> QED  BY <1>2 DEF WalletTypeOK, Record

\* What a grant is, from the assumption on the constants.
LEMMA GrantFacts ==
  ASSUME NEW g \in Grant
  PROVE  /\ GrantUser[g] \in User
         /\ GrantType[g] \in {"PURCHASE", "FREE_GRANT"}
         /\ GrantType[g] \in LedgerType
         /\ GrantAmount[g] \in Nat
  BY WalletAssumption DEF LedgerType

\* What a new row does to the totals: one of them grows, the rest stay.
LEMMA RecordTotals ==
  ASSUME WalletTypeOK, NEW u \in User, NEW type \in LedgerType, NEW amount \in Nat,
         NEW reference, Record(u, type, amount, reference)
  PROVE  \A v \in User, t \in LedgerType :
           ledger'[v][t] = IF v = u /\ t = type THEN ledger[v][t] + amount
                           ELSE ledger[v][t]
  BY DEF WalletTypeOK, Record

\* Moving credits keeps a wallet row well typed if no balance goes negative.
LEMMA MoveCreditsType ==
  ASSUME wallet \in [User -> Wallet], NEW u \in User,
         NEW a \in Int, NEW r \in Int, NEW s \in Int,
         wallet[u].available + a \in Nat, wallet[u].used + s \in Nat,
         MoveCredits(u, a, r, s)
  PROVE  wallet' \in [User -> Wallet]
<1>1. wallet[u] \in Wallet
  OBVIOUS
<1>2. [available |-> wallet[u].available + a, reserved |-> wallet[u].reserved + r,
       used |-> wallet[u].used + s] \in Wallet
  BY <1>1 DEF Wallet
<1> QED  BY <1>2 DEF MoveCredits

-----------------------------------------------------------------------------
\* The wallet type invariant holds of every behaviour of the service: the
\* conditional updates keep available and used credits natural numbers.
THEOREM WalletTypeCorrect == WalletSpec => []WalletTypeOK
<1>1. WalletInit => WalletTypeOK
  BY DEF WalletInit, WalletTypeOK, Wallet
<1>2. WalletTypeOK /\ [WalletNext]_walletVars => WalletTypeOK'
  <2> SUFFICES ASSUME WalletTypeOK, [WalletNext]_walletVars PROVE WalletTypeOK'
    OBVIOUS
  <2>1. ASSUME NEW g \in Grant, GrantRecorded(g) PROVE WalletTypeOK'
    <3>1. <<"grant", g>> \in Reference
      BY DEF Reference
    <3>2. ledger' \in [User -> [LedgerType -> Nat]] /\ references' \subseteq Reference
      BY <2>1, <3>1, GrantFacts, RecordType DEF GrantRecorded
    <3>3. owed' \in [User -> Int]
      BY <2>1, GrantFacts DEF WalletTypeOK, GrantRecorded
    <3> QED  BY <2>1, <3>2, <3>3 DEF WalletTypeOK, GrantRecorded
  <2>2. ASSUME NEW g \in Grant, GrantApplied(g) PROVE WalletTypeOK'
    <3>1. owed' \in [User -> Int]
      BY <2>2, GrantFacts DEF WalletTypeOK, GrantApplied
    <3>2. wallet' \in [User -> Wallet]
      <4>1. wallet[GrantUser[g]] \in Wallet
        BY GrantFacts DEF WalletTypeOK
      <4> QED  BY <2>2, <4>1, GrantFacts DEF WalletTypeOK, GrantApplied, MoveCredits, Wallet
    <3> QED  BY <2>2, <3>1, <3>2 DEF WalletTypeOK, GrantApplied
  <2>3. ASSUME NEW g \in Grant, GrantCrashed(g) PROVE WalletTypeOK'
    BY <2>3 DEF WalletTypeOK, GrantCrashed
  <2>4. ASSUME NEW u \in User, NEW b \in Batch, NEW amount \in 1..MaxRequest,
               ReservePitchCredits(u, b, amount)
        PROVE  WalletTypeOK'
    <3> amount \in Nat /\ wallet[u] \in Wallet
      BY WalletAssumption DEF WalletTypeOK
    <3>1. ledger' \in [User -> [LedgerType -> Nat]] /\ references' \subseteq Reference
      BY <2>4, RecordType DEF ReservePitchCredits, Reference, LedgerType
    <3>3. wallet' \in [User -> Wallet]
      BY <2>4 DEF WalletTypeOK, ReservePitchCredits, MoveCredits, Wallet
    <3>2. held' \in [Batch -> Int]
      BY <2>4 DEF WalletTypeOK, ReservePitchCredits
    <3> QED  BY <2>4, <3>1, <3>2, <3>3 DEF WalletTypeOK, ReservePitchCredits
  <2>5. ASSUME NEW u \in User, NEW b \in Batch, NEW amount \in 1..MaxRequest,
               NEW reason \in {"release", "release-stale"},
               ReleasePitchCredits(u, b, amount, reason)
        PROVE  WalletTypeOK'
    <3> amount \in Nat /\ wallet[u] \in Wallet
      BY WalletAssumption DEF WalletTypeOK
    <3>1. ledger' \in [User -> [LedgerType -> Nat]] /\ references' \subseteq Reference
      BY <2>5, RecordType DEF ReleasePitchCredits, Reference, LedgerType
    <3>3. wallet' \in [User -> Wallet]
      BY <2>5 DEF WalletTypeOK, ReleasePitchCredits, MoveCredits, Wallet
    <3>2. held' \in [Batch -> Int]
      BY <2>5 DEF WalletTypeOK, ReleasePitchCredits
    <3> QED  BY <2>5, <3>1, <3>2, <3>3 DEF WalletTypeOK, ReleasePitchCredits
  <2>6. ASSUME NEW u \in User, NEW b \in Batch, NEW p \in Pipeline, NEW type \in Resolution,
               ResolveReservedCredit(u, b, p, type)
        PROVE  WalletTypeOK'
    <3>1. type \in LedgerType /\ <<type, p>> \in Reference /\ wallet[u] \in Wallet
      BY DEF LedgerType, Resolution, Reference, WalletTypeOK
    <3>2. Record(u, type, 1, <<type, p>>)
      BY <2>6 DEF ResolveReservedCredit
    <3>3. ledger' \in [User -> [LedgerType -> Nat]] /\ references' \subseteq Reference
      BY <3>1, <3>2, RecordType
    <3>4. wallet' \in [User -> Wallet]
      <4>1. CASE UNCHANGED wallet
        BY <4>1 DEF WalletTypeOK
      <4>2. CASE wallet[u].reserved >= 1 /\ ResolveOne(u, type)
        <5>1. wallet[u].available + 1 \in Nat /\ wallet[u].used + 1 \in Nat
                /\ wallet[u].available + 0 \in Nat /\ wallet[u].used + 0 \in Nat
          BY <3>1 DEF Wallet
        <5>2. CASE MoveCredits(u, 0, -1, 1)
          BY <5>1, <5>2, MoveCreditsType DEF WalletTypeOK
        <5>3. CASE MoveCredits(u, 1, -1, 0)
          BY <5>1, <5>3, MoveCreditsType DEF WalletTypeOK
        <5> QED  BY <4>2, <5>2, <5>3 DEF ResolveOne
      <4> QED  BY <2>6, <4>1, <4>2 DEF ResolveReservedCredit
    <3>5. alerts' \in [User -> [Resolution -> Nat]]
      <4>1. alerts[u] \in [Resolution -> Nat] /\ alerts[u][type] + 1 \in Nat
        BY DEF WalletTypeOK
      <4>2. [alerts EXCEPT ![u][type] = @ + 1] \in [User -> [Resolution -> Nat]]
        BY <4>1 DEF WalletTypeOK
      <4>3. alerts' = alerts \/ alerts' = [alerts EXCEPT ![u][type] = @ + 1]
        BY <2>6 DEF ResolveReservedCredit
      <4> QED  BY <4>2, <4>3 DEF WalletTypeOK
    <3>6. held' \in [Batch -> Int] /\ UNCHANGED <<granting, owed>>
      BY <2>6 DEF WalletTypeOK, ResolveReservedCredit
    <3> QED  BY <3>3, <3>4, <3>5, <3>6 DEF WalletTypeOK
  <2>7. CASE UNCHANGED walletVars
    BY <2>7 DEF WalletTypeOK, walletVars
  <2> QED  BY <2>1, <2>2, <2>3, <2>4, <2>5, <2>6, <2>7 DEF WalletNext
<1> QED  BY <1>1, <1>2, PTL DEF WalletSpec

-----------------------------------------------------------------------------
(* The wallet and its ledger *)

\* Balances and ledger totals are integers, for the arithmetic below.
LEMMA Balances ==
  ASSUME WalletTypeOK, NEW u \in User
  PROVE  /\ wallet[u].available \in Nat
         /\ wallet[u].reserved \in Int
         /\ wallet[u].used \in Nat
         /\ \A t \in LedgerType : ledger[u][t] \in Nat
         /\ owed[u] \in Int
         /\ alerts[u]["CONSUME"] \in Nat
         /\ alerts[u]["REFUND"] \in Nat
  BY DEF WalletTypeOK, Wallet, Resolution

\* What MoveCredits does to each wallet.
LEMMA MoveCreditsValues ==
  ASSUME WalletTypeOK, NEW u \in User, NEW a, NEW r, NEW s, MoveCredits(u, a, r, s)
  PROVE  /\ wallet'[u].available = wallet[u].available + a
         /\ wallet'[u].reserved = wallet[u].reserved + r
         /\ wallet'[u].used = wallet[u].used + s
         /\ \A v \in User \ {u} : wallet'[v] = wallet[v]
  BY DEF WalletTypeOK, MoveCredits

\* The six ledger types are different, and are all there is to Expected.
LEMMA LedgerTypes ==
  /\ "PURCHASE" \in LedgerType /\ "FREE_GRANT" \in LedgerType
  /\ "RESERVE" \in LedgerType /\ "RELEASE" \in LedgerType
  /\ "CONSUME" \in LedgerType /\ "REFUND" \in LedgerType
  BY DEF LedgerType

\* Every step keeps every wallet reconciled with its ledger: each operation
\* pairs one ledger row with the wallet movement of the same amount, or says
\* so in owed or alerts.
LEMMA StepReconciles ==
  ASSUME WalletTypeOK, LedgerReconciles, [WalletNext]_walletVars,
         NEW v \in User
  PROVE  Reconciles(v)'
<1>0. Reconciles(v)
  BY DEF LedgerReconciles
<1> USE <1>0, Balances, LedgerTypes DEF Reconciles, Expected
<1>1. ASSUME NEW g \in Grant, GrantRecorded(g) PROVE Reconciles(v)'
  <2>1. /\ GrantUser[g] \in User /\ GrantType[g] \in {"PURCHASE", "FREE_GRANT"}
        /\ GrantType[g] \in LedgerType /\ GrantAmount[g] \in Nat
    BY GrantFacts
  <2>2. \A t \in LedgerType :
          ledger'[v][t] = IF v = GrantUser[g] /\ t = GrantType[g]
                          THEN ledger[v][t] + GrantAmount[g] ELSE ledger[v][t]
    BY <1>1, <2>1, RecordTotals DEF GrantRecorded
  <2>3. owed'[v] = IF v = GrantUser[g] THEN owed[v] + GrantAmount[g] ELSE owed[v]
    BY <1>1 DEF GrantRecorded, WalletTypeOK
  <2>4. wallet' = wallet /\ alerts' = alerts
    BY <1>1 DEF GrantRecorded
  <2> QED  BY <2>1, <2>2, <2>3, <2>4
<1>2. ASSUME NEW g \in Grant, GrantApplied(g) PROVE Reconciles(v)'
  <2>1. GrantUser[g] \in User /\ GrantAmount[g] \in Nat
    BY GrantFacts
  <2>2. owed'[v] = IF v = GrantUser[g] THEN owed[v] - GrantAmount[g] ELSE owed[v]
    BY <1>2 DEF GrantApplied, WalletTypeOK
  <2>3. UNCHANGED <<ledger, alerts>> /\ MoveCredits(GrantUser[g], GrantAmount[g], 0, 0)
    BY <1>2 DEF GrantApplied
  <2> QED  BY <2>1, <2>2, <2>3, MoveCreditsValues
<1>3. ASSUME NEW g \in Grant, GrantCrashed(g) PROVE Reconciles(v)'
  BY <1>3 DEF GrantCrashed
<1>4. ASSUME NEW u \in User, NEW b \in Batch, NEW amount \in 1..MaxRequest,
             ReservePitchCredits(u, b, amount)
      PROVE  Reconciles(v)'
  <2>1. amount \in Nat
    BY WalletAssumption
  <2>2. \A t \in LedgerType :
          ledger'[v][t] = IF v = u /\ t = "RESERVE"
                          THEN ledger[v][t] + amount ELSE ledger[v][t]
    BY <1>4, <2>1, RecordTotals DEF ReservePitchCredits
  <2>3. UNCHANGED <<owed, alerts>> /\ MoveCredits(u, -amount, amount, 0)
    BY <1>4 DEF ReservePitchCredits
  <2>4. /\ wallet'[v].available = IF v = u THEN wallet[v].available - amount
                                            ELSE wallet[v].available
        /\ wallet'[v].reserved = IF v = u THEN wallet[v].reserved + amount
                                           ELSE wallet[v].reserved
        /\ wallet'[v].used = wallet[v].used
    BY <2>1, <2>3, MoveCreditsValues
  <2> QED  BY <2>1, <2>2, <2>3, <2>4
<1>5. ASSUME NEW u \in User, NEW b \in Batch, NEW amount \in 1..MaxRequest,
             NEW reason, ReleasePitchCredits(u, b, amount, reason)
      PROVE  Reconciles(v)'
  <2>1. amount \in Nat
    BY WalletAssumption
  <2>2. \A t \in LedgerType :
          ledger'[v][t] = IF v = u /\ t = "RELEASE"
                          THEN ledger[v][t] + amount ELSE ledger[v][t]
    BY <1>5, <2>1, RecordTotals DEF ReleasePitchCredits
  <2>3. UNCHANGED <<owed, alerts>> /\ MoveCredits(u, amount, -amount, 0)
    BY <1>5 DEF ReleasePitchCredits
  <2> QED  BY <2>1, <2>2, <2>3, MoveCreditsValues
<1>6. ASSUME NEW u \in User, NEW b \in Batch, NEW p \in Pipeline, NEW type \in Resolution,
             ResolveReservedCredit(u, b, p, type)
      PROVE  Reconciles(v)'
  <2>1. type \in LedgerType /\ owed' = owed
    BY <1>6 DEF ResolveReservedCredit, LedgerType, Resolution
  <2>2. \A t \in LedgerType :
          ledger'[v][t] = IF v = u /\ t = type THEN ledger[v][t] + 1 ELSE ledger[v][t]
    <3>1. Record(u, type, 1, <<type, p>>)
      BY <1>6 DEF ResolveReservedCredit
    <3> QED  BY <2>1, <3>1, RecordTotals
  <2>3. CASE ResolveOne(u, type) /\ UNCHANGED alerts
    <3>1. CASE type = "CONSUME"
      BY <2>1, <2>2, <2>3, <3>1, MoveCreditsValues DEF ResolveOne
    <3>2. CASE type = "REFUND"
      BY <2>1, <2>2, <2>3, <3>2, MoveCreditsValues DEF ResolveOne
    <3> QED  BY <3>1, <3>2 DEF Resolution
  <2>4. CASE alerts' = [alerts EXCEPT ![u][type] = @ + 1] /\ UNCHANGED wallet
    <3>1. \A t \in Resolution :
            alerts'[v][t] = IF v = u /\ t = type THEN alerts[v][t] + 1 ELSE alerts[v][t]
      BY <2>4 DEF WalletTypeOK
    <3>2. /\ alerts'[v]["CONSUME"] = IF v = u /\ type = "CONSUME"
                                     THEN alerts[v]["CONSUME"] + 1 ELSE alerts[v]["CONSUME"]
          /\ alerts'[v]["REFUND"] = IF v = u /\ type = "REFUND"
                                    THEN alerts[v]["REFUND"] + 1 ELSE alerts[v]["REFUND"]
      BY <3>1 DEF Resolution
    <3>3. CASE type = "CONSUME"
      BY <2>1, <2>2, <2>4, <3>2, <3>3
    <3>4. CASE type = "REFUND"
      BY <2>1, <2>2, <2>4, <3>2, <3>4
    <3> QED  BY <3>3, <3>4 DEF Resolution
  <2>5. \/ ResolveOne(u, type) /\ UNCHANGED alerts
        \/ alerts' = [alerts EXCEPT ![u][type] = @ + 1] /\ UNCHANGED wallet
    BY <1>6 DEF ResolveReservedCredit
  <2> QED  BY <2>3, <2>4, <2>5
<1>7. CASE UNCHANGED walletVars
  BY <1>7 DEF walletVars
<1> QED  BY <1>1, <1>2, <1>3, <1>4, <1>5, <1>6, <1>7 DEF WalletNext

\* The wallet equals the sum of its ledger rows in every reachable state, as
\* reconcileCreditLedger computes it, except for the differences the service
\* itself records as an unfinished grant or as an alert.
THEOREM WalletReconciles == WalletSpec => []LedgerReconciles
<1>1. WalletInit => LedgerReconciles
  <2> SUFFICES ASSUME WalletInit, NEW u \in User PROVE Reconciles(u)
    BY DEF LedgerReconciles
  <2>1. /\ wallet[u].available = 0 /\ wallet[u].reserved = 0 /\ wallet[u].used = 0
        /\ \A t \in LedgerType : ledger[u][t] = 0
        /\ owed[u] = 0 /\ alerts[u]["CONSUME"] = 0 /\ alerts[u]["REFUND"] = 0
    BY DEF WalletInit, Resolution
  <2> QED  BY <2>1, LedgerTypes DEF Reconciles, Expected
<1>2. WalletTypeOK /\ LedgerReconciles /\ [WalletNext]_walletVars => LedgerReconciles'
  BY StepReconciles DEF LedgerReconciles
<1> QED  BY <1>1, <1>2, WalletTypeCorrect, PTL DEF WalletSpec

\* available + reserved + used equals everything granted: the three formulas
\* of the reconciliation add up, the alerts cancelling out.
THEOREM TotalConserved == WalletSpec => []CreditsConserved
<1>1. ASSUME WalletTypeOK, LedgerReconciles, NEW u \in User
      PROVE  wallet[u].available + wallet[u].reserved + wallet[u].used
               = ledger[u]["PURCHASE"] + ledger[u]["FREE_GRANT"] - owed[u]
  BY <1>1, Balances, LedgerTypes DEF LedgerReconciles, Reconciles, Expected
<1>2. WalletTypeOK /\ LedgerReconciles => CreditsConserved
  BY <1>1 DEF CreditsConserved
<1> QED  BY <1>2, WalletTypeCorrect, WalletReconciles, PTL

-----------------------------------------------------------------------------
(***************************************************************************)
(* Paid orders for any number of orders, shoppers, callbacks and events.   *)
(*                                                                         *)
(* GrantGoesToOwner says nothing of the grants that are still to come, and *)
(* those are what several handlers race for: GrantsBound adds that whoever *)
(* is about to be granted an order owns it, which survives because an      *)
(* order that has an owner keeps it.                                       *)
(***************************************************************************)

GrantsBound ==
  \A o \in Order, u \in Shopper :
    <<o, u>> \in claiming \/ <<o, u>> \in purchases => owner[o] = u

OrdersInv == OrdersTypeOK /\ GrantsBound

LEMMA OrdersStart == OrdersInit => OrdersInv
  BY OrderAssumption DEF OrdersInit, OrdersInv, OrdersTypeOK, GrantsBound

\* A coupon's count stays a number.
LEMMA RedeemTypes ==
  ASSUME redemptions \in Nat, RedeemCoupon
  PROVE  redemptions' \in Nat
  BY OrderAssumption DEF RedeemCoupon

\* claimOrder takes no order from its owner, and readies a grant for nobody
\* who does not own the order.
LEMMA ClaimKeeps ==
  ASSUME OrdersInv, NEW o \in Order, NEW u \in Shopper, ClaimOrder(o, u)
  PROVE  /\ owner' \in [Order -> Shopper \cup {NoShopper}]
         /\ claiming' \subseteq Order \X Shopper
         /\ \A x \in Order : owner[x] # NoShopper => owner'[x] = owner[x]
         /\ \A x \in Order, s \in Shopper : <<x, s>> \in claiming' => owner'[x] = s
<1> USE DEF OrdersInv, OrdersTypeOK, GrantsBound
<1>1. owner' \in [Order -> Shopper \cup {NoShopper}]
  BY DEF ClaimOrder
<1>2. claiming' \subseteq Order \X Shopper
  BY DEF ClaimOrder
<1>3. \A x \in Order : owner[x] # NoShopper => owner'[x] = owner[x]
  BY DEF ClaimOrder
<1>4. ASSUME NEW x \in Order, NEW s \in Shopper, <<x, s>> \in claiming'
      PROVE  owner'[x] = s
  <2>1. CASE <<x, s>> \in claiming
    BY <1>3, <2>1, OrderAssumption
  <2>2. CASE <<x, s>> \notin claiming
    <3>1. <<x, s>> = <<o, u>> /\ owner'[o] = u
      BY <1>4, <2>2 DEF ClaimOrder
    <3> QED  BY <3>1
  <2> QED  BY <2>1, <2>2
<1> QED  BY <1>1, <1>2, <1>3, <1>4

\* What an action needs that claims an order, or leaves the claims alone.
LEMMA BoundKept ==
  ASSUME OrdersInv, purchases' = purchases,
         \A x \in Order : owner[x] # NoShopper => owner'[x] = owner[x],
         \A x \in Order, s \in Shopper : <<x, s>> \in claiming' => owner'[x] = s
  PROVE  GrantsBound'
  BY OrderAssumption DEF OrdersInv, OrdersTypeOK, GrantsBound

\* Every step keeps the types, and the owner of what is granted.
LEMMA OrdersStep ==
  ASSUME OrdersInv, [OrdersNext]_orderVars
  PROVE  OrdersInv'
<1> USE OrderAssumption DEF OrdersTypeOK, VerifyGoes, HookGoes
<1> DEFINE Same == UNCHANGED <<owner, claiming, purchases>>
<1>0. OrdersTypeOK /\ GrantsBound
  BY DEF OrdersInv
<1>a. ASSUME Same, OrdersTypeOK' PROVE OrdersInv'
  BY <1>0, <1>a DEF OrdersInv, GrantsBound
<1>1. ASSUME NEW v \in Verify, VerifyReads(v) PROVE OrdersInv'
  BY <1>0, <1>1, <1>a DEF VerifyReads
<1>2. ASSUME NEW v \in Verify, VerifyDecides(v) PROVE OrdersInv'
  BY <1>0, <1>2, <1>a DEF VerifyDecides
<1>3. ASSUME NEW v \in Verify, VerifyRedeems(v) PROVE OrdersInv'
  BY <1>0, <1>3, <1>a, RedeemTypes DEF VerifyRedeems
<1>4. ASSUME NEW v \in Verify, VerifyClaims(v) PROVE OrdersInv'
  <2>1. CASE UNCHANGED <<owner, claiming>>
    BY <1>0, <1>4, <2>1, <1>a DEF VerifyClaims
  <2>2. ASSUME NEW u \in Shopper, ClaimOrder(VerifyOrder[v], u) PROVE OrdersInv'
    <3>1. VerifyOrder[v] \in Order
      OBVIOUS
    <3>2. GrantsBound'
      BY <1>4, <2>2, <3>1, ClaimKeeps, BoundKept DEF VerifyClaims
    <3>3. OrdersTypeOK'
      BY <1>0, <1>4, <2>2, <3>1, ClaimKeeps DEF VerifyClaims
    <3> QED  BY <3>2, <3>3 DEF OrdersInv
  <2>3. VerifyOrder[v] \in Order /\ Shopper \cup ({Buyer[VerifyOrder[v]]} \ {NoShopper}) \subseteq Shopper
    OBVIOUS
  <2> QED  BY <1>4, <2>1, <2>2, <2>3 DEF VerifyClaims
<1>5. ASSUME NEW v \in Verify, VerifyDies(v) PROVE OrdersInv'
  BY <1>0, <1>5, <1>a DEF VerifyDies
<1>6. ASSUME NEW h \in Hook, HookPays(h) PROVE OrdersInv'
  BY <1>0, <1>6, <1>a DEF HookPays
<1>7. ASSUME NEW h \in Hook, HookRedeems(h) PROVE OrdersInv'
  BY <1>0, <1>7, <1>a, RedeemTypes DEF HookRedeems
<1>8. ASSUME NEW h \in Hook, HookClaims(h) PROVE OrdersInv'
  <2>1. CASE UNCHANGED <<owner, claiming>>
    BY <1>0, <1>8, <2>1, <1>a DEF HookClaims
  <2>2. CASE Buyer[HookOrder[h]] # NoShopper /\ ClaimOrder(HookOrder[h], Buyer[HookOrder[h]])
    <3>1. HookOrder[h] \in Order /\ Buyer[HookOrder[h]] \in Shopper
      BY <2>2
    <3>2. GrantsBound'
      BY <1>8, <2>2, <3>1, ClaimKeeps, BoundKept DEF HookClaims
    <3>3. OrdersTypeOK'
      BY <1>0, <1>8, <2>2, <3>1, ClaimKeeps DEF HookClaims
    <3> QED  BY <3>2, <3>3 DEF OrdersInv
  <2> QED  BY <1>8, <2>1, <2>2 DEF HookClaims
<1>9. ASSUME NEW h \in Hook, HookAnswers(h) PROVE OrdersInv'
  BY <1>0, <1>9, <1>a DEF HookAnswers
<1>10. ASSUME NEW h \in Hook, HookDies(h) PROVE OrdersInv'
  BY <1>0, <1>10, <1>a DEF HookDies
<1>11. ASSUME NEW o \in Order, NEW u \in Shopper, SignInWithOrder(o, u) PROVE OrdersInv'
  <2>1. GrantsBound'
    BY <1>11, ClaimKeeps, BoundKept DEF SignInWithOrder
  <2>2. OrdersTypeOK'
    BY <1>0, <1>11, ClaimKeeps DEF SignInWithOrder
  <2> QED  BY <2>1, <2>2 DEF OrdersInv
<1>12. ASSUME NEW o \in Order, NEW u \in Shopper, FinishClaim(o, u) PROVE OrdersInv'
  BY <1>0, <1>12 DEF FinishClaim, OrdersInv, GrantsBound
<1>13. ASSUME NEW o \in Order, NEW u \in Shopper, ClaimDies(o, u) PROVE OrdersInv'
  BY <1>0, <1>13 DEF ClaimDies, OrdersInv, GrantsBound
<1>14. ASSUME NEW u \in Shopper, ClaimPaidOrders(u) PROVE OrdersInv'
  <2>1. \A x \in Order : owner[x] # NoShopper => owner'[x] = owner[x]
    BY <1>0, <1>14 DEF ClaimPaidOrders
  <2>2. OrdersTypeOK'
    BY <1>0, <1>14 DEF ClaimPaidOrders
  <2>3. ASSUME NEW x \in Order, NEW s \in Shopper, <<x, s>> \in claiming'
        PROVE  owner'[x] = s
    <3>1. CASE <<x, s>> \in claiming
      BY <1>0, <2>1, <3>1 DEF GrantsBound
    <3>2. CASE <<x, s>> \notin claiming
      BY <1>0, <1>14, <2>3, <3>2 DEF ClaimPaidOrders
    <3> QED  BY <3>1, <3>2
  <2>4. GrantsBound'
    BY <1>14, <2>1, <2>3, BoundKept DEF ClaimPaidOrders
  <2> QED  BY <2>2, <2>4 DEF OrdersInv
<1>15. ASSUME NEW o \in Order, NEW u \in Shopper, ClaimFindsFailed(o, u) PROVE OrdersInv'
  BY <1>0, <1>15 DEF ClaimFindsFailed, OrdersInv, GrantsBound
<1>16. CASE UNCHANGED orderVars
  BY <1>0, <1>16, <1>a DEF orderVars
<1> QED
  BY <1>1, <1>2, <1>3, <1>4, <1>5, <1>6, <1>7, <1>8, <1>9, <1>10, <1>11, <1>12, <1>13, <1>14, <1>15,
     <1>16 DEF OrdersNext, VerifyStep, HookStep

LEMMA OrdersInvariant == OrdersSpec => []OrdersInv
<1>1. OrdersInv /\ [OrdersNext]_orderVars => OrdersInv'
  BY OrdersStep
<1> QED  BY OrdersStart, <1>1, PTL DEF OrdersSpec

\* Orders, handlers and grants keep their types.
THEOREM OrderTypesCorrect == OrdersSpec => []OrdersTypeOK
<1>1. OrdersInv => OrdersTypeOK
  BY DEF OrdersInv
<1> QED  BY OrdersInvariant, <1>1, PTL

\* The credits of an order go to its owner, once, whoever races for it: the
\* webhook, verifications and sign-ins of any number of users (claimOrder).
THEOREM GrantsGoToOwners == OrdersSpec => []GrantGoesToOwner
<1>1. OrdersInv => GrantGoesToOwner
  BY DEF OrdersInv, GrantsBound, GrantGoesToOwner
<1> QED  BY OrdersInvariant, <1>1, PTL
=============================================================================
