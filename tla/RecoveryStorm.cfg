SPECIFICATION RSpec
CONSTANTS
  MaxStages = 2
  Lot = 2
  AllowRebuy = TRUE
  MaxOrders = 2
  Losses = {"place", "list", "query", "cancel"}
  LateDelivery = TRUE
  RacingFills = TRUE
  Expiry = {"close", "midnight"}
  RefusalDies = TRUE
  MaxCrashes = 2
  RestartAfter = "any"
INVARIANTS
  RTypeOK
  WriteAhead
PROPERTIES
  TerminalIsFinal
CHECK_DEADLOCK FALSE
