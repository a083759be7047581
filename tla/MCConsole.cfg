SPECIFICATION Spec
CONSTANTS
  MaxOpenings = 2
  MaxCalls = 2
  MaxSaves = 2
  MaxOthers = 1
  MaxTyping = 1
  Items <- MCItems
  MaxChanges = 2
  MaxAsks = 2
  MaxPolls = 2
  MaxVisits = 3
INVARIANTS BelongsTogether
PROPERTIES AnswersCloseTheirForm ConfirmedIsShown
CHECK_DEADLOCK FALSE
CONSTANTS
  Columns = {"a", "b"}
  Begun = {"a"}
  Companies = {"x"}
  MaxRollouts = 2
  MaxFaults = 1
