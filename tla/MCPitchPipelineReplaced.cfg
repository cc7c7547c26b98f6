\* Safety: a credit handed to another pitch, and requests that die.
CONSTANTS
  Pipeline = {p1, p2}
  Recording = {r1, r2}
  Thread = {t1}
  Message = {m1}
  MaxAttempts = 1
  MaxCrashes = 2
  Null = Null
SPECIFICATION Spec
SYMMETRY SymmetryOfPitches
PROPERTIES
  ImplementsPitchCredit
