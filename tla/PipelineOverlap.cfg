SPECIFICATION FairSpec
CONSTANTS
  NumStages = 2
  c1 = c1
  c2 = c2
  c3 = c3
  Calls = {c1, c2}
  MaxControls = 2
  Overlap = TRUE
INVARIANTS StagesInOrder CompletedCoversAllStages
PROPERTIES ProjectionFinal CallsReturn
CHECK_DEADLOCK FALSE
