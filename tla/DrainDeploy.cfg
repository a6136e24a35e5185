\* Two deploys side by side over two replicas with two messages.
CONSTANTS
  Nothing = Nothing
  Replicas = {r1, r2}
  Messages = {m1, m2}
  Deploys = {d1, d2}
  Skipped = {d2}
  Fresh = 2
  Deadline = 3
  Faults = {"read", "wait", "remove", "crash"}
  MaxFaults = 1
SPECIFICATION FairSpec
INVARIANTS TypeOK OneMoreEach
PROPERTIES RollSparesStages OnlyLiveHolds DyingTakesNothing SentinelLifted
CHECK_DEADLOCK FALSE
