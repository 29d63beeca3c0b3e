SPECIFICATION Spec
CONSTANTS
  MaxSessions = 2
  MaxTime = 2
  Callers = {c1, c2}
  Records = {r1}
  Collections = {k1}
  Contents = {x1, x2}
  None = None
  MaxRevision = 3
  MaxFaults = 1
  RecordIds = {d1, d2, d3}
  Words = {"long", "short"}
  LongWords = {"long"}
  GoalLength = 2
  Clients = {"c"}
  ContextLimit = 2
  MaxChanges = 4
  d1 = d1
  d2 = d2
  d3 = d3
  c1 = c1
  c2 = c2
  r1 = r1
  k1 = k1
  x1 = x1
  x2 = x2
INVARIANTS SessionsAreTrue VersionHistory ContextIsGroundTruth
SYMMETRY Same
CHECK_DEADLOCK FALSE
