SPECIFICATION Spec
CONSTANTS
  r1 = r1
  r2 = r2
  r3 = r3
  r4 = r4
  Requests = {r1, r2, r3}
  Nobody = Nobody
  MaxResets = 1
  MaxFaults = 0
SYMMETRY RequestSymmetry
INVARIANTS RebuiltFromHistory
CHECK_DEADLOCK FALSE
