\* Liveness of the components that retry and sweep.
SPECIFICATION FairSpec
CONSTANTS
  Parts = {"orders", "run", "recording", "session"}
  u1 = u1
  u2 = u2
  free1 = free1
  order2 = order2
  User = {u1, u2}
  Batch = {b1}
  Pipeline = {p1, p2}
  Grant = {free1, order2}
  GrantUser <- MCGrantUser
  GrantType <- MCGrantType
  GrantAmount <- MCGrantAmount
  MaxRequest = 2
  o1 = o1
  o2 = o2
  s1 = s1
  s2 = s2
  v1 = v1
  v2 = v2
  h1 = h1
  h2 = h2
  Order = {o1}
  Shopper = {s1, s2}
  Buyer <- MCBuyer
  Payer <- MCPayer
  Verify = {v1}
  VerifyOrder <- MCVerifyOrder
  Genuine = {v1}
  Hook = {h1}
  HookOrder <- MCHookOrder
  MaxRedemptions = 1
  MaxOrderDeaths = 2
  NoShopper = NoShopper
  Pitcher = {a1, a2}
  Direct = {a1}
  Unclaimed = Unclaimed
  Change = {t1, t2}
  Site = {y1}
  Edit = {e1, e2}
  MaxNumberTries = 2
  Unread = Unread
  i1 = i1
  i2 = i2
  i3 = i3
  i4 = i4
  x1 = x1
  x2 = x2
  k1 = k1
  k2 = k2
  Finding = {i1, i2, i3, i4}
  Catalogue = {x1, x2}
  Campaigned = {k1, k2}
  ExternalId <- MCExternalId
  LockOf <- MCLockOf
  FoundIn <- MCFoundIn
  Corroborated <- MCCorroborated
  Suspected <- MCSuspected
  Review = {r1, r2}
  Unlisted = Unlisted
  Editor = {g1}
  RunRequest = {q1}
  Delivery = {d1}
  Scheduler = {z1, z2}
  JobAttempts = 2
  MaxPosts = 2
  MaxDeaths = 1
  Nobody = Nobody
  Exec = {f1}
  Announce = {c1, c2}
  Sweep = c2
  MaxVideos = 1
  VideoAttempts = 2
  MaxVideoStalls = 1
  MaxVideoDeaths = 2
  Process = {w1}
  LinkBy = {"connect"}
  MaxReconnects = 1
  MaxLogins = 2
  MaxStops = 1
  MaxExpiries = 0
  MaxDrops = 0
  DropsForever = FALSE
  Free = Free
  Stale = Stale
PROPERTIES
  PaidIsCredited
  TriggeredRunEnds
  RecordingEnds
  DroppedSessionReturns
CHECK_DEADLOCK FALSE
