SPECIFICATION FairSpec
CONSTANTS
  Consumer = {n1, n2}
  Sweeper = {s1}
  Completion <- MCCompletions
  MaxFailures = 1
  NoOne = NoOne
  NoRow = NoRow
INVARIANTS TypeOK AppliedInOrder DeadIsReported
PROPERTIES PendingResolves
CHECK_DEADLOCK FALSE
