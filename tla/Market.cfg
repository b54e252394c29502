SPECIFICATION Spec
CONSTANTS
  Den = 1000
  Drop = 2
  Target = 2
  MaxStages = 2
  Amount = 4010
  Cycles = {1, 2}
  AllowRebuy = TRUE
  Cooldown = 2
  StockLimit = 6000
  TotalLimit = 7000
  MaxRate = 2
  RateWindow = 2
  Prices = {1996, 2000, 2005}
  Horizon = 6
CHECK_DEADLOCK FALSE
INVARIANTS
  MarketTypeOK
  OrderPrices
  NoLoss
  PlanBound
  RateLimit
  LimitHolds
  DecideIsCovered
