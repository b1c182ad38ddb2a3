SPECIFICATION Spec
CONSTANTS
  Kinds = {2}
  Data = {"p", "q", "r", "t", "u", "v"}
  BlobsOf <- MCNewsBlobsOf
  PagePos <- MCPagePos
  Crc <- MCCrc
  QueueSize = 4
  MaxId = 6
  Timely = TRUE
  MaxTransfers = 3
  MaxPublishes = 2
  MaxLosses = 0
  MaxFaults = 0
  MaxSelections = 0
  MaxSlow = 0
INVARIANTS FetchedIsCurrent
CHECK_DEADLOCK FALSE
