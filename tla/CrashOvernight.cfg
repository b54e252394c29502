SPECIFICATION RSpec
CONSTANTS
  MaxStages = 1
  Lot = 2
  AllowRebuy = TRUE
  MaxOrders = 2
  Losses = {}
  LateDelivery = FALSE
  RacingFills = FALSE
  Expiry = {"close", "midnight"}
  RefusalDies = FALSE
  MaxCrashes = 1
  RestartAfter = "close"
INVARIANTS
  UnlistedMeansUnfilled
CHECK_DEADLOCK FALSE
