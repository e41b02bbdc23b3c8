SPECIFICATION Spec
CONSTANTS
  t1 = t1
  t2 = t2
  security = security
  long = long
  error = error
  Tasks = {t1, t2}
  Lead = Lead
  Critic = Critic
  Runs <- MCRuns
  TaskOf <- MCTaskOf
  RoleOf <- MCRoleOf
  Failed = {error}
  Findings = {f}
  DiffOf <- MCDiffOf
  HunkTokens <- MCHunkTokens
  Risk <- MCRisk
  MaxSteps = 3
  TokenBudget = 5
  CallTokens <- MCCallTokens
  RecallLimit = 1
  CandidateLimit = 3
  MaxTools = 2
  MaxMishaps = 1
  DiffBudget = 1150
  EntryTokens = 50
  SummaryTokens = 150
  BriefTokens = 60
  PayloadTokens = 400
  RawTokens <- MCRaw
  ShortTokens <- MCShort
  AgainTokens <- MCAgain
  MemoryTokens <- MCMemory
  RowTokens = 40
  BoundTokens = 1200
  RecentObservations = 1
  ObservationTokens = 600
  InputLimit <- MCInputLimit
  Path <- MCPath
  TaskTexts <- MCTaskTexts
  Candidates <- MCCandidates
  ToolTokens <- MCToolTokens
  PolicyTokens = 50
  KeyTokens = 80
  RollupTokens = 60
INVARIANT WorkingPrivate
INVARIANT HonestView
INVARIANT BudgetIsItsOwn
PROPERTY NotHidden
PROPERTY ReleasedOnceLearned
CHECK_DEADLOCK FALSE
