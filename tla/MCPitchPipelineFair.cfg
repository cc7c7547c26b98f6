\* Liveness: no credit is forgotten, and what a request that dies leaves behind.
CONSTANTS
  Pipeline = {p1}
  Recording = {r1, r2}
  Thread = {t1, t2}
  Message = {m1}
  MaxAttempts = 2
  MaxCrashes = 1
  Null = Null
SPECIFICATION LoneDeaths
INVARIANTS
  OpenFailureIsRetried
PROPERTIES
  NoCreditForgotten
