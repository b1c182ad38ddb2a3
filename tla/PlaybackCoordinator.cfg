SPECIFICATION FairSpec
CONSTANT MaxCommands = 5
INVARIANTS TypeOK OneCallAtATime CompletionIsNewest NewestAtRest
PROPERTIES CallsAreNewest ImplementsLatestWins EveryCommandEnds
CHECK_DEADLOCK FALSE
