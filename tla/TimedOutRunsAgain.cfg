\* The watchdog fires while main is about to write its status.
CONSTANTS
  r1 = r1
  Replicas = {r1}
  Compiles = {"c1"}
  SowDrafts = {}
  Garbage = {}
  Deals = {"d1"}
  Docs = {"docs1", "docs2"}
  NoOne = NoOne
  DealOf <- OneDeal
  DocsOf <- SameDocs
  Priority = {}
  Forced = {}
  SkipDeals = {}
  MaxDequeue = 2
  Faults = {"timeout"}
  MaxFaults = 1
SPECIFICATION Spec
PROPERTY NoIdenticalRerun
\* the queue may run dry
CHECK_DEADLOCK FALSE
