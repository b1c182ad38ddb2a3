SPECIFICATION Spec
CONSTANTS
  Kinds = {4, 5}
  Data = {"p", "q", "r", "t", "u", "v"}
  BlobsOf <- MCBlobsOf
  PagePos <- MCPagePos
  Crc <- MCCrc
  QueueSize = 2
  MaxId = 5
  Timely = TRUE
  MaxTransfers = 2
  MaxPublishes = 2
  MaxLosses = 1
  MaxFaults = 1
  MaxSelections = 2
  MaxSlow = 0
INVARIANTS TypeOK CompletedIsPublished LockStep TracksOfSelection ShelfAssembled
PROPERTIES ImplementsCatalog
CHECK_DEADLOCK FALSE
