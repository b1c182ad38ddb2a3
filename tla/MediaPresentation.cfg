SPECIFICATION FairSpec
CONSTANTS
  MaxSyncs = 2
  MaxLosses = 1
  MaxFaults = 1
  MaxId = 3
INVARIANTS TypeOK Untorn CommitFollowsCover
PROPERTIES PresentationSettles ImplementsDisplay
CHECK_DEADLOCK FALSE
