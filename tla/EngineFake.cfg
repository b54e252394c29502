SPECIFICATION Spec
CONSTANTS
  MaxStages = 2
  Lot = 2
  AllowRebuy = TRUE
  MaxOrders = 4
  Losses = {"place", "list"}
  LateDelivery = FALSE
  RacingFills = FALSE
  Expiry = {}
  RefusalDies = TRUE
INVARIANTS
  TypeOK
  SettledIsFinal
  StageMatchesExchange
  SellsAreCovered
  ClosedIsFlat
  ConfigFollowsCycle
PROPERTIES
  LedgerSpec
