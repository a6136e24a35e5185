\* One replica, three compiles: documents that come and go, one failed write.
CONSTANTS
  r1 = r1 r2 = r2 c1 = c1 c2 = c2 c3 = c3 d1 = d1 Nobody = Nobody
  Replicas = {r1}
  Compiles = {c1, c2, c3}
  Drafts = {}
  DocsOf <- ThereAndBack
  ScopeOf <- OneScope
  Forced = {}
  Briefless = {}
  BestEffort <- AllOfThem
  Faults = {"store"}
  MaxFaults = 1
SPECIFICATION Spec
PROPERTY SkipIsRedundant
CHECK_DEADLOCK FALSE
