SPECIFICATION Spec
CONSTANTS
  NumStages = 2
  c1 = c1
  c2 = c2
  c3 = c3
  Calls = {c1, c2, c3}
  MaxControls = 2
  Overlap = FALSE
INVARIANTS ExecutedAtMostOnce
PROPERTIES ImplementsStagedPipeline
CHECK_DEADLOCK FALSE
