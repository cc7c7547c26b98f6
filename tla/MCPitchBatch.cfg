\* Two racing requests over three leads, crashes included, and the recovery
\* of a request that dies before it starts a pitch.
CONSTANTS
  u1 = u1
  c1 = c1
  free1 = free1
  Slots = 3
  Credits = 3
  User = {u1}
  Batch = {b1, b2}
  Pipeline = {p1, p2, p3}
  Grant = {free1}
  GrantUser <- MCGrantUser
  GrantType <- MCGrantType
  GrantAmount <- MCGrantAmount
  MaxRequest = 3
  Campaign = {c1}
  CampaignUser <- MCCampaignUser
  PipelineCampaign <- MCPipelineCampaign
  TargetCount <- MCTargetCount
  Null = Null
SPECIFICATION FairSpec
CHECK_DEADLOCK FALSE
INVARIANTS
  OpenPitchesBacked
  NoLedgerMismatch
  OutcomeMatchesLedger
  CountersAgree
  CountedOutIsResolved
  ReplacementCarriesCredit
PROPERTIES
  OutcomeFinal
  EmptyBatchRecovered
