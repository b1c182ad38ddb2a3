SPECIFICATION FairSpec
CONSTANTS
  Sizes = {2, 3}
  Announced = {2}
  MaxBytes = 2
  ItemSlots = 1
  FrameSlots = 1
  MaxRequests = 2
  MaxLosses = 1
  MaxFaults = 1
INVARIANTS TypeOK WorkerOwnsBuffer WholePicture RightPicture QueueOfOneTransfer TransactionInStep
PROPERTIES NoAssetStuck BridgeFreed
CHECK_DEADLOCK FALSE
