SPECIFICATION Spec
CONSTANTS
  NumStages = 1
  c1 = c1
  c2 = c2
  c3 = c3
  Calls = {c1}
  MaxControls = 1
  Overlap = FALSE
INVARIANTS StatesAgreeWithEvents
CHECK_DEADLOCK FALSE
