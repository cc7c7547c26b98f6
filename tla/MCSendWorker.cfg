SPECIFICATION Spec
CONSTANTS
  m1 = m1
  m2 = m2
  m3 = m3
  n1 = n1
  n2 = n2
  Null = Null
  Message = {m1, m2}
  Number = {n1, n2}
  MessageNumber <- MCMessageNumber
  Worker = {w1, w2}
  MaxAttempts = 2
  MaxStalls = 1
  MaxRecent = 1
SYMMETRY Symmetry
INVARIANTS
  TypeOK
  LandedAtMostOnce
  UnsentNeverAttempted
  SentWasAccepted
  QueuedKeepsJob
PROPERTIES
  StatusMovesForward
  ImplementsMessageLife
CHECK_DEADLOCK FALSE
