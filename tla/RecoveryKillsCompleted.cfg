\* A skipped run leaves its marker; the next boot fails it.
CONSTANTS
  r1 = r1
  Replicas = {r1}
  Compiles = {"c1", "c2"}
  SowDrafts = {}
  Garbage = {}
  Deals = {"d1"}
  Docs = {"docs1", "docs2"}
  NoOne = NoOne
  DealOf <- OneDeal
  DocsOf <- SameDocs
  Priority = {}
  Forced = {}
  SkipDeals = {}
  MaxDequeue = 2
  Faults = {"sigkill"}
  MaxFaults = 1
SPECIFICATION Spec
PROPERTY OnlyDeadRunsAreKilled
\* the queue may run dry
CHECK_DEADLOCK FALSE
