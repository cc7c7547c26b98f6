\* Two deliveries of one pitch.
CONSTANTS
  Pipeline = {p1}
  Recording = {r1, r2}
  Thread = {t1, t2}
  Message = {m1, m2}
  MaxAttempts = 2
  MaxCrashes = 0
  Null = Null
SPECIFICATION Spec
SYMMETRY Symmetry
INVARIANTS
  OneMessageInFlight
