--------------------------- MODULE PlatformProofs ---------------------------
(***************************************************************************)
(* The components side by side: whichever of them is at work, the others   *)
(* see only stuttering steps, so that every behaviour of the composition   *)
(* is one of each component and what is proved of them holds there.        *)
(***************************************************************************)
EXTENDS MCPlatform, PitchWalletProofs, DiscoveryProofs, RecordingProofs, WaSessionProofs

\* A step of the platform is a step of each component, or none of its variables.
LEMMA PartSteps ==
  ASSUME [Next]_vars
  PROVE  /\ [WalletNext]_walletVars /\ [OrdersNext]_orderVars /\ [ClaimsNext]_claimVars
         /\ [LeadNext]_leadVars /\ [DirNext]_dirVars /\ [RunNext]_runVars
         /\ [RecNext]_recVars /\ [SessionNext]_sessionVars
  BY DEF vars, Next, WalletPart, OrdersPart, ClaimsPart, LeadPart, DirPart, RunPart, RecPart, SessionPart

\* The composition implements every component.
THEOREM PlatformComposes ==
  Spec => /\ WalletSpec /\ OrdersSpec /\ ClaimsSpec /\ LeadSpec
          /\ DirSpec /\ RunSpec /\ RecSpec /\ SessionSpec
<1>1. Init => /\ WalletInit /\ OrdersInit /\ ClaimsInit /\ LeadInit
              /\ DirInit /\ RunInit /\ RecInit /\ WaInit
  BY DEF Init
<1> QED
  BY <1>1, PartSteps, PTL DEF Spec, WalletSpec, OrdersSpec, ClaimsSpec, LeadSpec, DirSpec, RunSpec, RecSpec, SessionSpec

\* Whatever component is at work, for any number of its users, requests,
\* processes and faults, its variables keep their types.
THEOREM PlatformTypesCorrect == Spec => []PartsTypeOK
<1>1. /\ WalletTypeOK /\ OrdersTypeOK /\ ClaimTypeOK /\ LeadTypeOK
      /\ DirTypeOK /\ RunTypeOK /\ RecTypeOK /\ WaTypeOK
      => PartsTypeOK
  BY DEF PartsTypeOK
<1> QED
  BY <1>1, PlatformComposes, WalletTypeCorrect, OrderTypesCorrect, ClaimTypesCorrect, LeadTypesCorrect,
     DirectoryTypesCorrect, RunTypesCorrect, RecordingTypesCorrect, SessionTypesCorrect, PTL

\* What the components guarantee holds of the composition, all of it at once;
\* of its campaign run while no two requests mark the campaign READY at a time.
THEOREM PlatformSafe ==
  /\ Spec => [](/\ LedgerReconciles /\ CreditsConserved /\ GrantGoesToOwner
                /\ ExclusivePitch /\ CurrentIsLatest /\ TwinsAreFlagged
                /\ DeliveredOnce /\ LockHolderIsRegistered /\ RegisteredHasSocket)
  /\ Spec /\ []EditorsTakeTurns => [](StatusPairAgrees /\ ExpiredOnce)
<1>1. Spec => [](/\ LedgerReconciles /\ CreditsConserved /\ GrantGoesToOwner
                 /\ ExclusivePitch /\ CurrentIsLatest /\ TwinsAreFlagged
                 /\ DeliveredOnce /\ LockHolderIsRegistered /\ RegisteredHasSocket)
  BY PlatformComposes, WalletReconciles, TotalConserved, GrantsGoToOwners, PitchesExclude,
     LatestIsShown, NoTwinUnreviewed, ClaimedOnce, LockIsReleasable, NoIdleEntry, PTL
<1>2. Spec /\ []EditorsTakeTurns => [](StatusPairAgrees /\ ExpiredOnce)
  BY PlatformComposes, PairsAgree, RunsExpireOnce, PTL
<1> QED  BY <1>1, <1>2
=============================================================================
