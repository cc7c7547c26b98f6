------------------------------- MODULE Orders -------------------------------
(***************************************************************************)
(* Paying for credits, apps/api/src/lib/checkout/checkout.service.ts: the  *)
(* browser's verification and the payment provider's webhook both mark an  *)
(* order PAID, redeem its coupon and hand its credits to a user; a sign-in *)
(* sweeps up what the user paid for before there was an account.           *)
(*                                                                         *)
(* Every handler is a thread that stops between its statements.  A grant   *)
(* is its ledger row here, unique per order; PitchWallet models the row    *)
(* and the wallet it moves.                                                *)
(***************************************************************************)
EXTENDS Integers, FiniteSets

CONSTANTS
  Order, Shopper,
  Buyer,           \* who was signed in when the order was created, or NoShopper
  Payer,           \* whose verified email address paid for it, or NoShopper
  Verify, VerifyOrder,   \* callbacks of the browser, each for an order
  Genuine,               \* those whose signature matches
  Hook, HookOrder,       \* events of the payment provider
  MaxRedemptions,  \* of the coupon every order carries
  MaxOrderDeaths,  \* bound on handlers that die
  NoShopper

ASSUME OrderAssumption ==
  /\ Buyer \in [Order -> Shopper \cup {NoShopper}] /\ Payer \in [Order -> Shopper \cup {NoShopper}]
  /\ VerifyOrder \in [Verify -> Order] /\ HookOrder \in [Hook -> Order]
  /\ Genuine \subseteq Verify
  /\ NoShopper \notin Shopper
  /\ {MaxRedemptions, MaxOrderDeaths} \subseteq Nat

VARIABLES
  orderStatus,   \* Order.status
  owner,         \* Order.userId
  payerEmail,    \* orders whose payerEmail is recorded
  redemptions,   \* Coupon.redemptionCount
  purchases,     \* ledger rows purchase:<order>, with whose wallet they are for
  verify, hook,  \* what each handler is doing
  claiming,      \* <<order, shopper>>: owner settled, grant still to come
  orderDeaths

orderVars == <<orderStatus, owner, payerEmail, redemptions, purchases, verify, hook,
               claiming, orderDeaths>>

OrdersInit ==
  /\ orderStatus = [o \in Order |-> "PENDING"]
  /\ owner = [o \in Order |-> NoShopper]
  /\ payerEmail = {} /\ redemptions = 0 /\ purchases = {}
  /\ verify = [v \in Verify |-> "idle"] /\ hook = [h \in Hook |-> "idle"]
  /\ claiming = {} /\ orderDeaths = 0

VerifyGoes(v, pc) == verify' = [verify EXCEPT ![v] = pc]
HookGoes(h, pc) == hook' = [hook EXCEPT ![h] = pc]

\* redeemCoupon: the count grows by a conditional update.
RedeemCoupon ==
  redemptions' = IF redemptions < MaxRedemptions THEN redemptions + 1 ELSE redemptions

\* The row handed to whoever asks last.
Faulty_ClaimOrder(o, u) ==
  /\ owner' = IF orderStatus[o] = "PAID" THEN [owner EXCEPT ![o] = u] ELSE owner
  /\ claiming' = IF orderStatus[o] = "PAID" THEN claiming \cup {<<o, u>>} ELSE claiming

\* claimOrder: one conditional update of the owner, then a read of the row and,
\* for the owner of a PAID order, the grant, which FinishClaim writes.
ClaimOrder(o, u) ==
  /\ owner' = IF owner[o] = NoShopper /\ orderStatus[o] = "PAID" THEN [owner EXCEPT ![o] = u] ELSE owner
  /\ claiming' = IF orderStatus[o] = "PAID" /\ owner'[o] = u THEN claiming \cup {<<o, u>>} ELSE claiming

\* grantCredits stops at the referenceId of a purchase already granted.
FinishClaim(o, u) ==
  /\ <<o, u>> \in claiming
  /\ claiming' = claiming \ {<<o, u>>}
  /\ purchases' = IF \E s \in Shopper : <<o, s>> \in purchases THEN purchases ELSE purchases \cup {<<o, u>>}
  /\ UNCHANGED <<orderStatus, owner, payerEmail, redemptions, verify, hook, orderDeaths>>

\* A mismatched verification has failed the order before the row is read.
ClaimFindsFailed(o, u) ==
  /\ <<o, u>> \in claiming
  /\ orderStatus[o] = "FAILED"
  /\ claiming' = claiming \ {<<o, u>>}
  /\ UNCHANGED <<orderStatus, owner, payerEmail, redemptions, purchases, verify, hook, orderDeaths>>

ClaimDies(o, u) ==
  /\ <<o, u>> \in claiming /\ orderDeaths < MaxOrderDeaths
  /\ claiming' = claiming \ {<<o, u>>}
  /\ orderDeaths' = orderDeaths + 1
  \* A webhook that did not answer is delivered again.
  /\ hook' = [h \in Hook |-> IF HookOrder[h] = o /\ hook[h] = "granting" THEN "idle" ELSE hook[h]]
  /\ UNCHANGED <<orderStatus, owner, payerEmail, redemptions, purchases, verify>>

-----------------------------------------------------------------------------
(* verifyPayment.                                                           *)

VerifyReads(v) ==
  /\ verify[v] = "idle"
  /\ VerifyGoes(v, IF orderStatus[VerifyOrder[v]] = "PAID" THEN "paid"
                   ELSE IF v \in Genuine THEN "matched" ELSE "mismatched")
  /\ UNCHANGED <<orderStatus, owner, payerEmail, redemptions, purchases, hook, claiming, orderDeaths>>

\* Both updates are unconditional.
VerifyDecides(v) ==
  /\ \/ /\ verify[v] = "mismatched" /\ VerifyGoes(v, "done")
        /\ orderStatus' = [orderStatus EXCEPT ![VerifyOrder[v]] = "FAILED"]
     \/ /\ verify[v] = "matched" /\ VerifyGoes(v, "redeem")
        /\ orderStatus' = [orderStatus EXCEPT ![VerifyOrder[v]] = "PAID"]
  /\ UNCHANGED <<owner, payerEmail, redemptions, purchases, hook, claiming, orderDeaths>>

VerifyRedeems(v) ==
  /\ verify[v] = "redeem" /\ VerifyGoes(v, "paid")
  /\ RedeemCoupon
  /\ UNCHANGED <<orderStatus, owner, payerEmail, purchases, hook, claiming, orderDeaths>>

\* For the visitor signed in by now, else for the buyer.
VerifyClaims(v) ==
  LET o == VerifyOrder[v] IN
  /\ verify[v] = "paid" /\ VerifyGoes(v, "done")
  /\ \/ \E u \in Shopper \cup ({Buyer[o]} \ {NoShopper}) : ClaimOrder(o, u)
     \/ Buyer[o] = NoShopper /\ UNCHANGED <<owner, claiming>>
  /\ UNCHANGED <<orderStatus, payerEmail, redemptions, purchases, hook, orderDeaths>>

VerifyDies(v) ==
  /\ verify[v] \in {"matched", "redeem", "paid"} /\ orderDeaths < MaxOrderDeaths
  /\ VerifyGoes(v, "done") /\ orderDeaths' = orderDeaths + 1
  /\ UNCHANGED <<orderStatus, owner, payerEmail, redemptions, purchases, hook, claiming>>

-----------------------------------------------------------------------------
(* markOrderPaidFromWebhook.                                                *)

HookPays(h) ==
  LET o == HookOrder[h] IN
  /\ hook[h] = "idle"
  /\ IF orderStatus[o] = "PAID" THEN HookGoes(h, "claim") ELSE HookGoes(h, "redeem")
  /\ orderStatus' = [orderStatus EXCEPT ![o] = "PAID"]
  /\ payerEmail' = payerEmail \cup {o}
  /\ UNCHANGED <<owner, redemptions, purchases, verify, claiming, orderDeaths>>

HookRedeems(h) ==
  /\ hook[h] = "redeem" /\ HookGoes(h, "claim")
  /\ RedeemCoupon
  /\ UNCHANGED <<orderStatus, owner, payerEmail, purchases, verify, claiming, orderDeaths>>

\* The claim dropped: left to the buyer's next sign-in.
Faulty_HookClaims(h) ==
  /\ hook[h] = "claim" /\ HookGoes(h, "granting")
  /\ UNCHANGED <<orderStatus, owner, payerEmail, redemptions, purchases, verify, claiming, orderDeaths>>

HookClaims(h) ==
  LET o == HookOrder[h] IN
  /\ hook[h] = "claim"
  /\ IF Buyer[o] = NoShopper THEN UNCHANGED <<owner, claiming>> ELSE ClaimOrder(o, Buyer[o])
  /\ HookGoes(h, "granting")
  /\ UNCHANGED <<orderStatus, payerEmail, redemptions, purchases, verify, orderDeaths>>

HookAnswers(h) ==
  /\ hook[h] = "granting" /\ <<HookOrder[h], Buyer[HookOrder[h]]>> \notin claiming
  /\ HookGoes(h, "done")
  /\ UNCHANGED <<orderStatus, owner, payerEmail, redemptions, purchases, verify, claiming, orderDeaths>>

\* An event whose handler died is delivered again.
HookDies(h) ==
  /\ hook[h] \in {"redeem", "claim"} /\ orderDeaths < MaxOrderDeaths
  /\ HookGoes(h, "idle") /\ orderDeaths' = orderDeaths + 1
  /\ UNCHANGED <<orderStatus, owner, payerEmail, redemptions, purchases, verify, claiming>>

-----------------------------------------------------------------------------
(* Registering and signing in.                                              *)

\* claimOrder for the orderId of the redirect.
SignInWithOrder(o, u) ==
  /\ ClaimOrder(o, u)
  /\ UNCHANGED <<orderStatus, payerEmail, redemptions, purchases, verify, hook, orderDeaths>>

\* claimPaidOrdersForUser with a verified address, then a grant for every PAID
\* order the user owns.
ClaimPaidOrders(u) ==
  LET mine == {o \in payerEmail : Payer[o] = u /\ owner[o] = NoShopper /\ orderStatus[o] = "PAID"}
      paid == {o \in Order : orderStatus[o] = "PAID" /\ (owner[o] = u \/ o \in mine)}
  IN  /\ owner' = [o \in Order |-> IF o \in mine THEN u ELSE owner[o]]
      /\ claiming' = claiming \cup (paid \X {u})
      /\ UNCHANGED <<orderStatus, payerEmail, redemptions, purchases, verify, hook, orderDeaths>>

VerifyStep(v) == VerifyReads(v) \/ VerifyDecides(v) \/ VerifyRedeems(v) \/ VerifyClaims(v)

HookStep(h) == HookPays(h) \/ HookRedeems(h) \/ HookClaims(h) \/ HookAnswers(h)

OrdersNext ==
  \/ \E v \in Verify : VerifyStep(v) \/ VerifyDies(v)
  \/ \E h \in Hook : HookStep(h) \/ HookDies(h)
  \/ \E o \in Order, u \in Shopper : SignInWithOrder(o, u)
  \/ \E o \in Order, u \in Shopper : FinishClaim(o, u) \/ ClaimFindsFailed(o, u) \/ ClaimDies(o, u)
  \/ \E u \in Shopper : ClaimPaidOrders(u)

OrdersSpec == OrdersInit /\ [][OrdersNext]_orderVars

\* The provider repeats an event until it is answered, and handlers run.
OrdersFairness ==
  /\ \A h \in Hook : WF_orderVars(HookStep(h))
  /\ \A o \in Order, u \in Shopper : WF_orderVars(FinishClaim(o, u))

FairOrdersSpec == OrdersSpec /\ OrdersFairness

-----------------------------------------------------------------------------
(* Properties.                                                              *)

OrdersTypeOK ==
  /\ orderStatus \in [Order -> {"PENDING", "PAID", "FAILED"}]
  /\ owner \in [Order -> Shopper \cup {NoShopper}]
  /\ payerEmail \subseteq Order
  /\ redemptions \in Nat
  /\ purchases \subseteq Order \X Shopper
  /\ verify \in [Verify -> {"idle", "matched", "mismatched", "redeem", "paid", "done"}]
  /\ hook \in [Hook -> {"idle", "redeem", "claim", "granting", "done"}]
  /\ claiming \subseteq Order \X Shopper
  /\ orderDeaths \in 0..MaxOrderDeaths

\* The credits of an order go to the user the order says it belongs to, and to
\* nobody else, however webhook, verification and sign-ins of several users
\* race for it.
GrantGoesToOwner ==
  \A o \in Order, u, s \in Shopper :
    /\ <<o, u>> \in purchases => owner[o] = u
    /\ <<o, u>> \in purchases /\ <<o, s>> \in purchases => u = s

\* An order paid for by a buyer who was signed in ends with its credits
\* granted, also when handlers die and the browser never calls back, unless
\* another user has claimed it.  (A callback with a mismatched signature may
\* fail the order in between: it is left out.)
PaidIsCredited ==
  \A h \in Hook :
    LET o == HookOrder[h] IN
    Buyer[o] # NoShopper /\ {v \in Verify : VerifyOrder[v] = o} \subseteq Genuine
      => (orderStatus[o] = "PAID" ~> \/ \E u \in Shopper : <<o, u>> \in purchases
                                     \/ owner[o] \notin {NoShopper, Buyer[o]})
=============================================================================
