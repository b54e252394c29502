SPECIFICATION Spec
CONSTANTS
  MaxStages = 2
  Lot = 2
  AllowRebuy = TRUE
  MaxOrders = 3
  Losses = {"place", "list", "query", "cancel"}
  LateDelivery = FALSE
  RacingFills = TRUE
  Expiry = {"close", "midnight"}
  RefusalDies = FALSE
INVARIANTS
  PathInv
  HoldingsAreRecorded
  OneOrderPerStage
  LiveOrderIsOnRecord
  PendingIsOwed
  PollFindsItsStage
PROPERTIES
  RowGuardsHold
CHECK_DEADLOCK FALSE
