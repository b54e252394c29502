SPECIFICATION RFairSpec
CONSTANTS
  MaxStages = 2
  Lot = 2
  AllowRebuy = TRUE
  MaxOrders = 3
  Losses = {"place", "list"}
  LateDelivery = FALSE
  RacingFills = FALSE
  Expiry = {"close"}
  RefusalDies = FALSE
  MaxCrashes = 1
  RestartAfter = "close"
INVARIANTS
  CrashInv
  OneOrderPerStage
  OnlyStuckStagesDiffer
PROPERTIES
  PendingIsAnswered
CHECK_DEADLOCK FALSE
