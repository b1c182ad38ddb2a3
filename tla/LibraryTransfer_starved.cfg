SPECIFICATION FairSpec
CONSTANTS
  Kinds = {2, 4}
  Data = {"p", "q", "r", "t", "u", "v"}
  BlobsOf <- MCLongBlobsOf
  PagePos <- MCPagePos
  Crc <- MCCrc
  QueueSize = 4
  MaxId = 3
  Timely = TRUE
  MaxTransfers = 4
  MaxPublishes = 3
  MaxLosses = 0
  MaxFaults = 1
  MaxSelections = 0
  MaxSlow = 0
PROPERTIES RetainedListsArrive
CHECK_DEADLOCK FALSE
