SPECIFICATION SystemSpec
CONSTANTS
  w1 = w1
  w2 = w2
  s1 = s1
  s2 = s2
  Submissions = {s1, s2}
  Malformed = {}
  Workers = {w1, w2}
  MaxAttempts = 2
  ClaimCount = 1
  MaxCrashes = 1
  MaxFaults = 1
  MaxOverruns = 1
  Created = s1
  FetchLater = TRUE
  PostComments = TRUE
  MaxMishaps = 1
SYMMETRY WorkerSymmetry
INVARIANT NothingStranded
INVARIANT HandledHasReport
