SPECIFICATION FairSpec
CONSTANTS
  MaxSyncs = 2
  MaxLosses = 1
  MaxFaults = 1
  MaxId = 3
PROPERTIES SnapshotRepairs
CHECK_DEADLOCK FALSE
