SPECIFICATION FairSpec
CONSTANTS
  a = a
  b = b
  r1 = r1
  r2 = r2
  Clients = {a}
  Ids = {r1, r2}
  MaxRevision = 3
  MaxFaults = 3
INVARIANTS AcknowledgedStays SearchMissesNothing
PROPERTIES EngineUnlocks
