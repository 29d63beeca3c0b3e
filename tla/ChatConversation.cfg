SPECIFICATION Spec
CONSTANTS
  r1 = r1
  r2 = r2
  r3 = r3
  r4 = r4
  Requests = {r1, r2, r3, r4}
  Nobody = Nobody
  MaxResets = 2
  MaxFaults = 2
SYMMETRY RequestSymmetry
INVARIANTS ConversationKept NoExchangeTwice LastTurnEndsHistory
CHECK_DEADLOCK FALSE
