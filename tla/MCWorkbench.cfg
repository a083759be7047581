SPECIFICATION Spec
CONSTANTS
  Letters <- MCLetters
  MaxActions = 2
  Tasks = {"t1", "t2"}
  Assigned = {"t1"}
  MaxSends = 2
  Versions <- MCVersions
  NameOf <- MCNameOf
  Like <- MCLike
  MaxStarts = 1
  PageSize = 2
  MaxEvents = 4
  MaxCancels = 2
INVARIANTS ShownIsReal SentIsShown
PROPERTY ConfirmedTakesEffect
CHECK_DEADLOCK FALSE
