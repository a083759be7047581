SPECIFICATION SessionSpec
CONSTANTS
  Tenants = {"home", "acme"}
  Admins = {"home", "acme"}
  Default = "home"
  EmailFirst = TRUE
  MaxLoads = 1
  MaxRequests = 1
  MaxTurns = 3
INVARIANTS KeyedRowsGone
PROPERTY ScreensSettle
CHECK_DEADLOCK FALSE
