SPECIFICATION SystemFair
CONSTANTS
  w1 = w1
  w2 = w2
  s1 = s1
  s2 = s2
  Submissions = {s1}
  Malformed = {}
  Workers = {w1, w2}
  MaxAttempts = 2
  ClaimCount = 1
  MaxCrashes = 1
  MaxFaults = 1
  MaxOverruns = 0
  Created = s1
  FetchLater = TRUE
  PostComments = TRUE
  MaxMishaps = 2
PROPERTY ReviewSettles
