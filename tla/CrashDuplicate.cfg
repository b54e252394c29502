SPECIFICATION RSpec
CONSTANTS
  MaxStages = 1
  Lot = 2
  AllowRebuy = TRUE
  MaxOrders = 2
  Losses = {}
  LateDelivery = FALSE
  RacingFills = FALSE
  Expiry = {}
  RefusalDies = FALSE
  MaxCrashes = 1
  RestartAfter = "any"
INVARIANTS
  OneOrderPerStage
CHECK_DEADLOCK FALSE
