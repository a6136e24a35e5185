\* Under fairness, one compile, and two things that go wrong with it.
CONSTANTS
  r1 = r1
  r2 = r2
  Replicas = {r1, r2}
  Compiles = {"c1"}
  SowDrafts = {}
  Garbage = {}
  Deals = {"d1"}
  Docs = {"docs1", "docs2"}
  NoOne = NoOne
  DealOf <- OneDeal
  DocsOf <- OwnDocs
  Priority = {}
  Forced = {}
  SkipDeals = {}
  MaxDequeue = 2
  Faults = {"sigkill", "sigterm", "error", "missing", "timeout", "memory", "cancel", "delete", "renewing", "notify"}
  MaxFaults = 2
SPECIFICATION FairSpec
PROPERTIES EverySettled OrphanFound PageSettles
\* the queue may run dry
CHECK_DEADLOCK FALSE
