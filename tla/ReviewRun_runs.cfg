SPECIFICATION FairSpec
CONSTANTS
  r1 = r1
  r2 = r2
  Runners = {r1, r2}
  MaxSteps = 3
  NodeRetries = 1
  MaxRuns = 3
  MaxFaults = 1
  MaxCrashes = 1
CHECK_DEADLOCK FALSE
INVARIANT SuccessEarned
INVARIANT TraceOrdered
PROPERTY CompletedKept
PROPERTY RunSettles
