SPECIFICATION Spec
CONSTANTS
  MaxStages = 1
  Lot = 2
  AllowRebuy = TRUE
  MaxOrders = 1
  Losses = {}
  LateDelivery = FALSE
  RacingFills = TRUE
  Expiry = {}
  RefusalDies = FALSE
INVARIANTS
  SettledIsFinal
