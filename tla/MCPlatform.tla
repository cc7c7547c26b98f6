----------------------------- MODULE MCPlatform -----------------------------
(* Eight components that share no state, checked side by side: `part' is    *)
(* chosen at the start and only that component takes steps, so the states   *)
(* are those of eight separate runs.                                        *)
EXTENDS PitchWallet, Orders, Claims, LeadLife, BusinessDirectory, CampaignRun, Recording, WaSession, TLC

CONSTANTS
  Parts,
  u1, u2, free1, order2,      \* wallet
  o1, o2, s1, s2, v1, v2, h1, h2,    \* orders
  i1, i2, i3, i4, x1, x2, k1, k2     \* businesses

\* A second user, so that credits of one cannot leak to the other.
MCGrantUser   == (free1 :> u1) @@ (order2 :> u2)
MCGrantType   == (free1 :> "FREE_GRANT") @@ (order2 :> "PURCHASE")
MCGrantAmount == (free1 :> 2) @@ (order2 :> 1)

\* Order o1 was placed by s1, o2 before there was an account.
MCBuyer == [o \in Order |-> IF o = o1 THEN s1 ELSE NoShopper]
MCPayer == [o \in Order |-> IF o = o1 THEN s1 ELSE s2]
MCVerifyOrder == [v \in Verify |-> IF v = v1 THEN o1 ELSE o2]
MCHookOrder == [h \in Hook |-> IF h = h1 THEN o1 ELSE o2]

\* Findings i1 to i4 share a phone; i2 and i3 are one record, found in two
\* campaigns, i4 is the same business in another directory.
MCExternalId == (i1 :> x1) @@ (i2 :> x2) @@ (i3 :> x2) @@ (i4 :> Unlisted)
MCLockOf == [i \in Finding |-> x1]
MCFoundIn == (i1 :> k1) @@ (i2 :> k1) @@ (i3 :> k2) @@ (i4 :> k2)
MCCorroborated == {p \in {i2, i3, i4} \X {i2, i3, i4} : p[1] # p[2]}
MCSuspected == ({i1} \X {i2, i3, i4}) \cup ({i2, i3, i4} \X {i1})

VARIABLE part

vars == <<part, walletVars, orderVars, claimVars, leadVars, dirVars, runVars, recVars, sessionVars>>

Init ==
  /\ part \in Parts
  /\ WalletInit /\ OrdersInit /\ ClaimsInit /\ LeadInit /\ DirInit /\ RunInit /\ RecInit /\ WaInit

WalletPart == part = "wallet" /\ WalletNext
  /\ UNCHANGED <<part, orderVars, claimVars, leadVars, dirVars, runVars, recVars, sessionVars>>
OrdersPart == part = "orders" /\ OrdersNext
  /\ UNCHANGED <<part, walletVars, claimVars, leadVars, dirVars, runVars, recVars, sessionVars>>
ClaimsPart == part = "claims" /\ ClaimsNext
  /\ UNCHANGED <<part, walletVars, orderVars, leadVars, dirVars, runVars, recVars, sessionVars>>
LeadPart == part = "lead" /\ LeadNext
  /\ UNCHANGED <<part, walletVars, orderVars, claimVars, dirVars, runVars, recVars, sessionVars>>
DirPart == part = "businesses" /\ DirNext
  /\ UNCHANGED <<part, walletVars, orderVars, claimVars, leadVars, runVars, recVars, sessionVars>>
RunPart == part = "run" /\ RunNext
  /\ UNCHANGED <<part, walletVars, orderVars, claimVars, leadVars, dirVars, recVars, sessionVars>>
RecPart == part = "recording" /\ RecNext
  /\ UNCHANGED <<part, walletVars, orderVars, claimVars, leadVars, dirVars, runVars, sessionVars>>
SessionPart == part = "session" /\ SessionNext
  /\ UNCHANGED <<part, walletVars, orderVars, claimVars, leadVars, dirVars, runVars, recVars>>

Next ==
  WalletPart \/ OrdersPart \/ ClaimsPart \/ LeadPart \/ DirPart \/ RunPart \/ RecPart \/ SessionPart

Spec == Init /\ [][Next]_vars

\* Each component under the fairness its own module states.
FairSpec ==
  /\ Spec
  /\ \/ part = "orders" /\ OrdersFairness
     \/ part = "run" /\ RunFairness
     \/ part = "recording" /\ RecFairness
     \/ part = "session" /\ SessionFairness

\* Every variable of the component at work has its type.
PartsTypeOK ==
  /\ part = "wallet" => WalletTypeOK
  /\ part = "orders" => OrdersTypeOK
  /\ part = "claims" => ClaimTypeOK
  /\ part = "lead" => LeadTypeOK
  /\ part = "businesses" => DirTypeOK
  /\ part = "run" => RunTypeOK
  /\ part = "recording" => RecTypeOK
  /\ part = "session" => WaTypeOK
=============================================================================
