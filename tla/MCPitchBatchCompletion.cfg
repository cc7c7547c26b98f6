\* A pitch resolves while its own request is still starting the batch.
CONSTANTS
  u1 = u1
  c1 = c1
  free1 = free1
  Slots = 3
  Credits = 4
  User = {u1}
  Batch = {b1, b2}
  Pipeline = {p1, p2, p3}
  Grant = {free1}
  GrantUser <- MCGrantUser
  GrantType <- MCGrantType
  GrantAmount <- MCGrantAmount
  MaxRequest = 3
  Campaign = {c1}
  CampaignUser <- MCCampaignUser
  PipelineCampaign <- MCPipelineCampaign
  TargetCount <- MCTargetCount
  Null = Null
SPECIFICATION Spec
CHECK_DEADLOCK FALSE
INVARIANT CompletedMeansResolved
