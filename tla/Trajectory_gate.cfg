SPECIFICATION TrajectorySpec
CONSTANTS
  security = security
  reliability = reliability
  s1 = s1
  s2 = s2
  r1 = r1
  t1 = t1
  t2 = t2
  RoleOrder <- MCRoles
  Runs = {s1, s2, r1}
  RoleOf <- MCRoleOf
  Tools = {t1, t2}
  Groups <- MCGroups
  FlatChain <- MCFlat
  Baselines <- MCBaselines
  OtherTasks <- MCOthers
  Configs <- MCConfigs
  Excesses <- MCExcesses
  MaxMishaps = 2
  MaxClock = 1
INVARIANT JudgedByConduct
INVARIANT AttributionSound
INVARIANT NoRegressionReleased
SYMMETRY Symmetry
CHECK_DEADLOCK FALSE
