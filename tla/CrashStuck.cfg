SPECIFICATION RSpec
CONSTANTS
  MaxStages = 1
  Lot = 2
  AllowRebuy = TRUE
  MaxOrders = 2
  Losses = {}
  LateDelivery = FALSE
  RacingFills = FALSE
  Expiry = {"close"}
  RefusalDies = FALSE
  MaxCrashes = 1
  RestartAfter = "close"
INVARIANTS
  NoStageIsStuck
CHECK_DEADLOCK FALSE
