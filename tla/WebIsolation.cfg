SPECIFICATION Spec
CONSTANTS
  Workspaces = {w1, w2}
  None = None
  MaxTurns = 3
  MaxFaults = 1
  MaxSwitches = 3
  Files = {"a"}
  Folders = {general, other}
  Batches = {1, 2}
  MaxFiles = 1
  Chunks = 2
  MaxEvents = 0
  Tabs = {t1, t2}
  Urls = {u1, u2}
  Rejected = Rejected
  MaxRequests = 0
  MaxLost = 1
  Kinds = {"conversation"}
  MaxKept = 1
  MaxShown = 1
  MaxClock = 0
  MaxTrouble = 0
  General = General
  Spellings = {"first"}
  MaxListings = 1
  MaxSteps = 0
  Texts <- MCTexts
  Matrices <- MCMatrices
  TextLimit = 5
  SheetLimit = 10
  LabelWidth = 1
INVARIANT OnlyOfActive
SYMMETRY Same
CHECK_DEADLOCK FALSE
