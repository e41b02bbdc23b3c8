SPECIFICATION FairSpec
CONSTANTS
  a1 = a1
  a2 = a2
  security = security
  reliability = reliability
  f1 = f1
  f2 = f2
  Workers = {security, reliability}
  Ids = {a1}
  Findings = {f1, f2}
  Answers <- MCAnswers
  MaxAssignments = 2
  FirstSteps = 2
  ReworkSteps = 1
  MaxAttempts = 2
  MaxCrashes = 1
INVARIANT NoRepeatedWork
INVARIANT AccountedFor
INVARIANT LatestWork
INVARIANT ReportIsJudged
PROPERTY Settles
CHECK_DEADLOCK FALSE
