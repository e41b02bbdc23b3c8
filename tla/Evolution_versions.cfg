SPECIFICATION FairSpec
CONSTANTS
  t1 = t1
  t2 = t2
  r1 = r1
  r2 = r2
  NoThread = NoThread
  Threads = {t1, t2}
  Rules = {r1, r2}
  Cases <- MCCases
  Drafts <- MCDrafts
  Seeded <- MCSeeded
  Offered <- MCOffered
  EvaluationCases <- MCEvaluationCases
  Case <- MCCase
  Answers <- MCAnswers
  RuleToCwe <- MCRuleToCwe
  Unsafe = {}
  MinCases = 2
  MinHoldout = 1
  MaxCases = 5
  MinImprovement = 100
  MaxRegression = 0
  Tolerance = 2
  MaxRequests = 3
  MaxFaults = 1
INVARIANT OneActive
INVARIANT GatedAgainstParent
INVARIANT ActivatedOnMerit
INVARIANT ResolvedLearned
PROPERTY ServedIsActive
CHECK_DEADLOCK FALSE
