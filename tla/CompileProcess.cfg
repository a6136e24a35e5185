\* Two things at a time go wrong with one process, and a newer compile of the deal.
CONSTANTS
  InitialPages = {"absent", "older"}
  MaxDequeue = 2
  Faults = {"timeout", "memory", "cancel", "sigterm", "sigkill", "raise"}
  MaxFaults = 2
SPECIFICATION FairSpec
INVARIANT TypeOK
PROPERTIES DoneIsLast NewerPageIsKept PageSettles KeepaliveFound
\* the queue may run dry
CHECK_DEADLOCK FALSE
