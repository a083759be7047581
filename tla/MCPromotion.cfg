SPECIFICATION Spec
CONSTANTS
  Users = {"asker", "me"}
  Requester = "asker"
  Me = "me"
  NoUser = "none"
  Calls = {1, 2}
  Versions = {0, 1}
  Base = 0
  Planned = 1
INVARIANTS PromotionTypeOK ReviewIsEarned
PROPERTIES ImplementsLifecycle DecisionIsShown
CHECK_DEADLOCK FALSE
