\* Two replicas on two compiles of one deal, with another cut, and a draft.
CONSTANTS
  r1 = r1 r2 = r2 c1 = c1 c2 = c2 c3 = c3 d1 = d1 Nobody = Nobody
  Replicas = {r1, r2}
  Compiles = {c1, c2}
  Drafts = {d1}
  DocsOf <- SameDocs
  ScopeOf <- TwoScopes
  Forced = {}
  Briefless = {c1}
  BestEffort <- AtomsOnly
  Faults = {"store", "raise", "kill", "notify", "slow"}
  MaxFaults = 2
SPECIFICATION FairSpec
INVARIANTS TypeOK SidecarsBacked
PROPERTIES SkippedWasCompiled DraftSettles BriefCatchesUp
\* the queue may run dry
CHECK_DEADLOCK FALSE
