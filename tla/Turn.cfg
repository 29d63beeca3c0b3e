SPECIFICATION TurnSpec
CONSTANTS
  Turns = {t1, t2, t3}
  Window = 1
  MaxTurns = 2
  MaxTokens = {1}
  NoLimit = NoLimit
  MaxUsage = 1
  MaxCalls = 2
  Statuses = {400, 429, 529}
  Hints = {1, 8, 9}
  NoHint = NoHint
  MaxAttempts = 3
  MaxDelay = 8
  CallIds = {"c1", "c2"}
  NoCall = NoCall
  MaxBlocks = 2
  MaxAnswers = 2
  Given <- MCGiven
  Goals <- MCGoals
  None = None
  Unset = Unset
  Executions = {e1, e2}
  e1 = e1
  e2 = e2
  MaxArtifacts = 2
  MaxInterventions = 2
  Calls = {c1, c2}
  c1 = c1
  c2 = c2
  Nothing = Nothing
  UnitLists <- MCUnitLists
  Objects <- MCObjects
  MaxGoals = 2
INVARIANTS RequestsAreWhole AnswersAreEchoed RetriesKeepTheTimes PlanIsSound EventsAreTrue VerdictsAgree AnswersAreTrue
PROPERTY ImplementsLifecycle
SYMMETRY Same
CHECK_DEADLOCK FALSE
