CONSTANTS
  Frames <- MCFrames
  Control <- MCControl
  Capacity = 3
  MaxPayload = 2
  MaxFrames = 4
  MaxFaults = 1
  MaxBoots = 1
  Damaged = {0, 1, 2, 255}
SPECIFICATION Spec
INVARIANTS TypeOK TakenAsSent DamageIsLocal CleanLinkIsClean
PROPERTIES RingImplementsQueue
CHECK_DEADLOCK FALSE
