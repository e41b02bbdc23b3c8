SPECIFICATION FairSpec
CONSTANTS
  w1 = w1
  w2 = w2
  s1 = s1
  s2 = s2
  s3 = s3
  Submissions = {s1, s2, s3}
  Workers = {w1, w2}
  MaxAttempts = 2
INVARIANT ClosedIsQuiet
PROPERTY DeliverySafe
PROPERTY CloseEnds
PROPERTY EventuallySettled
CHECK_DEADLOCK FALSE
