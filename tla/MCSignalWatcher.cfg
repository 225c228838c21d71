SPECIFICATION WatcherFairSpec
CONSTANTS
  Signals = {2, 15}
  MaxWatchers = 2
  MaxNoted = 3
  OutOfOrder = FALSE
  InWindow = TRUE
INVARIANTS HandlerIsRight ReportedOnce
PROPERTY SignalsAreHeeded
