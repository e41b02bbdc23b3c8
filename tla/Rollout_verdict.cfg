SPECIFICATION FairSpec
CONSTANTS
  t1 = t1
  t2 = t2
  Tasks = {t1, t2}
  MaxAttempts = 2
  MinSamples = 2
  MaxErrorPercent = 50
  MaxDisagreePercent = 50
  MaxConfigs = 2
  MaxShadows = 3
  MaxCrashes = 1
  MaxFaults = 2
INVARIANT RunningWithinBudget
PROPERTY VerdictFinal
 
CHECK_DEADLOCK FALSE
