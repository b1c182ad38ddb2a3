SPECIFICATION FairSpec
CONSTANTS
  Kinds = {2, 4}
  Data = {"p", "q", "r", "t", "u", "v"}
  BlobsOf <- MCBlobsOf
  PagePos <- MCPagePos
  Crc <- MCCrc
  QueueSize = 4
  MaxId = 3
  Timely = TRUE
  MaxTransfers = 4
  MaxPublishes = 2
  MaxLosses = 1
  MaxFaults = 1
  MaxSelections = 0
  MaxSlow = 1
INVARIANTS HealthyLinkNeverStalls
PROPERTIES RetainedListsArrive
CHECK_DEADLOCK FALSE
