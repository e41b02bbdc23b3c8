SPECIFICATION Spec
CONSTANTS
  w1 = w1
  w2 = w2
  s1 = s1
  s2 = s2
  Submissions = {s1, s2}
  Malformed = {s2}
  Workers = {w1, w2}
  MaxAttempts = 2
  ClaimCount = 2
  MaxCrashes = 1
  MaxFaults = 1
  MaxOverruns = 1
SYMMETRY WorkerSymmetry
INVARIANT NoSilentLoss
INVARIANT DeadLetterEarned
PROPERTY DeliverySafe
