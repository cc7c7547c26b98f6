\* One worker: what it may not do, and that every job ends.
SPECIFICATION FairSpec
CONSTANTS
  m1 = m1
  m2 = m2
  m3 = m3
  n1 = n1
  n2 = n2
  Null = Null
  Message = {m1, m2}
  Number = {n1, n2}
  MessageNumber <- MCMessageNumber
  Worker = {w1}
  MaxAttempts = 2
  MaxStalls = 1
  MaxRecent = 1
INVARIANTS
  OneContactPerNumber
  Paced
PROPERTIES
  EveryJobEnds
CHECK_DEADLOCK FALSE
