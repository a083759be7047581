SPECIFICATION BreakerFairSpec
CONSTANTS
  Window = 2
  Backoff <- MCBackoff
  MaxRestarts = 5
  MaxSeconds = 5
  MaxWindows = 4
INVARIANTS WatchOrBackoff
PROPERTIES PollersComeBack
