\* A cancellation while the renewer's update_message is in flight.
CONSTANTS
  r1 = r1
  r2 = r2
  Replicas = {r1, r2}
  Nobody = Nobody
  VisibilityTimeout = 6
  LeaseRenew = 2
  LeaseMax = 48
  CompileTimeout = 5
  PerDoc = 1
  LeasePercent = 75
  MinRenew = 1
  MaxDequeue = 3
  DocCounts = {1, 11, 80}
  Startup = 1
  MaxMisses = 1
  MaxTerminations = 0
  Events = {"cancel"}
SPECIFICATION Spec
INVARIANT CancelledIsGone
\* the message may be gone
CHECK_DEADLOCK FALSE
