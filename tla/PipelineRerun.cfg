SPECIFICATION FairSpec
CONSTANTS
  NumStages = 2
  c1 = c1
  c2 = c2
  c3 = c3
  Calls = {c1, c2}
  MaxControls = 1
  Overlap = TRUE
PROPERTIES CompletedStagesNotRerun
CHECK_DEADLOCK FALSE
