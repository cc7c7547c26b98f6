\* A receipt sync between the two writes of a pause.
CONSTANTS
  Pipeline = {p1}
  Recording = {r1, r2}
  Thread = {t1, t2}
  Message = {m1}
  MaxAttempts = 2
  MaxCrashes = 0
  Null = Null
SPECIFICATION Spec
SYMMETRY Symmetry
INVARIANTS
  PauseFailsNothing
