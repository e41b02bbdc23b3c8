SPECIFICATION RepairSpec
CONSTANTS
  app = app
  lib = lib
  a = a
  b = b
  c = c
  empty = empty
  Requests = {r1, r2}
  Path <- MCPath
  Texts = {a, b, c, empty}
  Empty = empty
  Tree0 <- MCTree0
  Pushes <- MCPushes
  Patches <- MCPatches
  Stamps = {1, 2}
  MaxAttempts = 2
  MaxFailures = 2
INVARIANT VerifiedPublished
INVARIANT PatchOnly
INVARIANT ReportTrue
CHECK_DEADLOCK FALSE
