\* Every kind of message, leases that run out under a replica, terminations, failures.
CONSTANTS
  r1 = r1
  r2 = r2
  Replicas = {r1, r2}
  Compiles = {"c1", "c2"}
  SowDrafts = {"s"}
  Garbage = {"g"}
  Deals = {"d1", "d2"}
  Docs = {"docs1", "docs2"}
  NoOne = NoOne
  DealOf <- OwnDeal
  DocsOf <- SameDocs
  Priority = {"c2", "s", "g"}
  Forced = {}
  SkipDeals = {"d2"}
  MaxDequeue = 2
  Faults = {"slow", "slow_restart", "sigterm", "sigkill", "delete", "cancel", "missing", "poison", "sow", "priority"}
  MaxFaults = 2
SYMMETRY ReplicaSymmetry
SPECIFICATION Spec
INVARIANTS AttemptsBounded OutcomeRecorded
PROPERTY LedgerSpec
\* the queue may run dry
CHECK_DEADLOCK FALSE
