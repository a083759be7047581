SPECIFICATION Spec
CONSTANTS
  Types <- MCTypes
  Options = {o1, o2}
  Texts = {t1, t2}
  Policy = "submit"
  MaxCalls = 3
  MaxMounts = 2
INVARIANTS
  ForcedSubmitKeepsDraft
PROPERTIES
  ScoredOnce
  StartSettles
CHECK_DEADLOCK FALSE
