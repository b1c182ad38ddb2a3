SPECIFICATION Spec
CONSTANT MaxTracks = 2
INVARIANT SettledCoverIsCommitted
CHECK_DEADLOCK FALSE
