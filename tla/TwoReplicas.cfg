\* Two replicas, two compiles of one deal, crashes and failures.
CONSTANTS
  r1 = r1
  r2 = r2
  Replicas = {r1, r2}
  c1 = c1
  c2 = c2
  Compiles = {c1, c2}
  SowDrafts = {}
  Garbage = {}
  Deals = {"d1"}
  Docs = {"docs1", "docs2"}
  NoOne = NoOne
  DealOf <- OneDeal
  DocsOf <- SameDocs
  Priority = {}
  Forced = {}
  SkipDeals = {}
  MaxDequeue = 2
  Faults = {"sigkill", "error", "missing", "timeout", "delete", "cancel", "listing"}
  MaxFaults = 2
SYMMETRY FullSymmetry
SPECIFICATION Spec
INVARIANTS TypeOK SettledPageIsTerminal DeliveredMeansUploaded DroppedIsAccountedFor
\* the queue may run dry
CHECK_DEADLOCK FALSE
