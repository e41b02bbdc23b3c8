SPECIFICATION Spec
CONSTANTS
  h1 = h1
  h2 = h2
  d1 = d1
  d2 = d2
  p1 = p1
  p2 = p2
  p3 = p3
  t1 = t1
  t2 = t2
  t3 = t3
  Deliveries = {d1, d2}
  Payloads = {p1, p2, p3}
  Unsupported = {p3}
  Tasks = {t1, t2, t3}
  Threads = {h1, h2}
  MaxRequests = 4
  MaxFaults = 1
  MaxCrashes = 1
SYMMETRY IntakeSymmetry
INVARIANT OneTaskPerDelivery
INVARIANT AnswerKept
CHECK_DEADLOCK FALSE
