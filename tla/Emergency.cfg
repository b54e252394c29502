SPECIFICATION ESpec
CONSTANTS
  MaxStages = 1
  Lot = 2
  AllowRebuy = TRUE
  MaxOrders = 2
  Losses = {"place", "list", "query", "cancel"}
  LateDelivery = FALSE
  RacingFills = TRUE
  Expiry = {"close"}
  RefusalDies = FALSE
  MaxCrashes = 1
  RestartAfter = "any"
  MaxSales = 2
INVARIANTS
  ETypeOK
  NumberedOrderIsWatched
  NothingInvented
  SuccessIsEmpty
  PauseHasAReason
PROPERTIES
  LiquidationIsFinal
CHECK_DEADLOCK FALSE
