SPECIFICATION Spec
CONSTANTS
  Kinds = {2, 4}
  Data = {"p", "q", "r", "t", "u", "v"}
  BlobsOf <- MCBlobsOf
  PagePos <- MCPagePos
  Crc <- MCCrc
  QueueSize = 4
  MaxId = 6
  Timely = TRUE
  MaxTransfers = 6
  MaxPublishes = 2
  MaxLosses = 1
  MaxFaults = 1
  MaxSelections = 0
  MaxSlow = 0
INVARIANTS HealthyLinkNeverBusy
CHECK_DEADLOCK FALSE
