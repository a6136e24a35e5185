\* The default settings, two replicas; one renewal in a row may fail.
CONSTANTS
  r1 = r1
  r2 = r2
  Replicas = {r1, r2}
  Nobody = Nobody
  VisibilityTimeout = 6
  LeaseRenew = 2
  LeaseMax = 48
  CompileTimeout = 5
  PerDoc = 1
  LeasePercent = 75
  MinRenew = 1
  MaxDequeue = 3
  DocCounts = {1, 11, 80}
  Startup = 1
  MaxMisses = 1
  MaxTerminations = 1
  Events = {"raise", "sigterm", "cancel"}
SPECIFICATION FairSpec
INVARIANTS TypeOK NoOverlap CompletedIsGone
PROPERTIES TerminatedIsVisible EventuallyGone
\* the message may be gone
CHECK_DEADLOCK FALSE
