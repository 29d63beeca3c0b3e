SPECIFICATION Spec
CONSTANTS
  Workspaces = {w1, w2}
  None = None
  MaxTurns = 3
  MaxFaults = 1
  MaxSwitches = 3
  Files = {"a"}
  Folders = {general, other}
  Batches = {1, 2}
  MaxFiles = 1
  Chunks = 2
  MaxEvents = 2
  Tabs = {t1, t2}
  Urls = {u1, u2}
  Rejected = Rejected
  MaxRequests = 2
  MaxLost = 1
  Kinds = {"conversation", "error"}
  MaxKept = 2
  MaxShown = 2
  MaxClock = 3
  MaxTrouble = 2
  General = General
  Spellings = {"first", "second"}
  MaxListings = 2
  MaxSteps = 3
  Texts <- MCTexts
  Matrices <- MCMatrices
  TextLimit = 5
  SheetLimit = 10
  LabelWidth = 1
INVARIANTS ShownIsStored UndisturbedPage UploadedIsWhole    ReadingIsNewest  AcknowledgedBrandsStay  ChunksKeepTheDocument
SYMMETRY Same
CHECK_DEADLOCK FALSE
